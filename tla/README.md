# Breeze TTS: specifications, model checks and proofs

This directory holds TLA+ specifications of Breeze TTS, a text-to-speech demo:
a gateway (Node, `src/gateway`) in front of one vendor server that speaks one
text at a time (`src/infra`), a browser shell (`src/ui`) that plays what comes
back, and a guided setup that installs both.  Everything is translated from the
TypeScript and JavaScript; where a comment, a doc string or a test says
something the code does not do, the disagreement has a property of its own that
TLC refutes (see *Findings*).

Contents: [the system](#the-system), [modules](#modules), [runs](#runs),
[fairness](#fairness), [proofs](#proofs), [assumptions](#assumptions-and-limits),
[findings](#findings), [not modelled](#not-modelled), [plan](#plan),
[running](#running).

## The system

```
   browser shell (App.tsx)                 gateway (index.ts)            vendor server
 +--------------------------+  HTTP   +-------------------------+ HTTP  +--------------+
 | Generate / held request  |-------->| POST /api/speech        |------>| one process- |
 | Script editor            |-------->| /scripts/:id, /run      |       | wide lock    |
 | Voice list, references   |-------->| /voices, /reference     |       +--------------+
 | Playback owner, player --|--port-->|  ScriptStore, cue queue |
 |   PCM worklet            |         |  ClipCache  VoiceStore  |---- files on one volume
 | Access gate (tabs)       |-------->|  ReferenceStore, auth   |
 +--------------------------+         +-------------------------+
                                           ^ .env, deployments
                                      setup walkthrough (run again and again)
```

The gateway is one Node process.  A handler runs without interruption from one
`await` to the next, and any other handler may run while it is parked.  So the
grain of every gateway module is: one action per stretch between two awaits.
The browser is the same (one callback at a time), with the AudioWorklet as a
second thread that shares nothing with it but a message port.

| Component | State it keeps | Operations | What is hard about it | What makes it correct | Modules |
|---|---|---|---|---|---|
| Script store, cue queue (`script.ts`, `cue-queue.ts`, `index.ts`) | scripts in memory and as JSON files; cue objects shared by reference | import, PATCH cue, PATCH defaults, PUT cues, GET (refreshes), DELETE, run, rechunk, exports | a run walks objects that edits mutate in place, three awaits per cue; two runs at once | audio is stored under the id that names it; inherited settings never stale; no row left spinning; a run ends; a reflow loses nothing | ScriptRun, ScriptFile |
| Vendor proxy (`proxy.ts`) | nothing per request; a liveness estimate | send, with a timer over the headers | a request given up while the vendor still works on it | every send settles; what is refused is said to be refused | ScriptRun |
| Clip cache (`cache.ts`, `cache-index.ts`) | payload and sidecar files, an index, promises in flight | beginWrite/write/finalize/abort, put, open, remove, evict, whenIdle, load | each operation is several awaits; kills; writes and evictions of one id overlap; errors that are swallowed | the index is on disk; a restart changes nothing the disk has not refused; within the limit at rest; whenIdle returns | ClipCache |
| Voice library (`voices.ts`, `voices-index.ts`) | recording and sidecar per voice, an index | create, update, remove, restore, purge, load | decides from the index before the first await, stores after the last | recording and transcript together; deleted until restored; survives restarts | VoiceStore |
| Speech route (`index.ts`) | one request | validate, resolve the voice, tee to browser and cache | the body breaks, the browser leaves; two copies of every limit | the cache holds whole clips; what the page allows is served | ClipCache, SpeakRequest |
| PCM worklet (`pcm-processor.js`) | ring, two indices, a count, flags | samples, end, reset, process | wrap-around, overrun, underrun, the end | it is a bounded queue | PcmFifo, PcmRing |
| Streaming player (`player.ts`, `worklet.ts`) | the odd byte, the audio graph | play, read loop, fallback, stop | chunks cut anywhere; stop while loading | the clip is heard, whole, in order; every context is closed | PcmStream, Playback |
| Playback owner (`player.ts`) | the current source | play, playCached, stop | `#silence` is awaited, other calls run meanwhile | what sounds is owned | Playback |
| Generation and the held request (`App.tsx`) | epoch, held request, timer, count, flags | press, audition, cancel, retry, sign out, gate, leave | replies after a cancel, a press, a sign-out | the wait ends; a retry sends what was pressed | Generation |
| Script editor (`state/script.ts`, `App.tsx`) | optimistic copy of a script, revisions | edits, defaults, import, open, run frames | replies out of order, or for a script no longer open | the screen is what is stored once all is answered | ScriptEditor |
| Reference staging (`references.ts`, `reference.ts`, `ReferenceCapture.tsx`) | uploads that expire; the panel's microphone and flags | stage, trim, remove, expire; record, upload, replace | the panel goes away while something it asked for comes | what is selected is served; microphones are closed; intake ends | ReferenceStore, ReferenceIntake |
| Reference windows (`reference-slice.ts`, `state/reference.ts`) | none | snap, slice, peaks, transcript of a window | browser and gateway compute the same thing separately | what is sent is cut at the bounds shown | ReferenceWindow, WavFile, SpeakRequest |
| Access gate (`auth/`, `AccessGate.tsx`) | sessions, failures per address; tabs | login, verify, sweep, sign out; gate and re-entry | attempt checked before an await and counted after; a question the gate refuses | failures bounded; the right password gets in; an expired reference is reported | AuthGate, Session |
| Ceilings (`script.ts`, `state/draft.ts`) | none | estimate, find the breach, say what to do | two copies | they agree, for every request | Ceilings, DraftGate |
| VTT and chunking (`vtt.ts`, `text-chunker.ts`) | none | parse, emit, divide | rounding, limits | an export reads back; dividing loses nothing | Vtt, Chunker, ScriptFile |
| Voice list and undo (`state/voices.ts`, `workspace.ts`, `App.tsx`) | the list, the undo strip, the voice chosen | optimistic delete and undo, refresh, choose | replies in any order; another session | the list is what is stored; an undo works; no voice is substituted | Library |
| Setup (`setup/`) and configuration (`config.ts`) | `.env`, deployments, the sign-in | resumable phases | stopped anywhere, `.env` edited in between | ready means runnable; a setup completes | Setup, EnvFile |
| Transcription client, creation draft, rendering, inference service, bench | | | | | see *Not modelled* |

## Modules

Each module names the functions it stands for above its definitions.  A
definition called like another with a suffix (`StoppedPaused`,
`ClipIdForText`...) and marked "mutant" is a plausible bug of that definition;
no specification uses it.  `PROJECT.json` substitutes each one to show that the
property it is listed for can fail.

### State machines of the gateway

**ScriptRun** - `script.ts`, `cue-queue.ts`, the script routes and
`synthesizeCue` of `index.ts`, `#send` of `proxy.ts`.  `cue` is the heap of cue
objects, `list` the record's array of references to them: PATCH changes an
object a run may hold, PUT replaces the array under a run that iterates the old
one (`todo`).  A run's `pc` is the await it is parked on: the voice file
("voice"), the vendor's headers ("speech"), its body ("body"), the cache
("put"), the final save ("save").  Every read of a script refreshes its cues,
so `RefreshedCues` is part of every handler that calls `refreshScript`.  The
vendor is a lock (`holder`); a request given up by the gateway keeps it under
the name `Abandoned`.

**ClipCache** - one `task` per write, DELETE or load-time eviction, parked on
one file operation; `pcm` and `side` are the disk, `records` the index.
`Crash` may happen between any two steps and keeps only the disk; `Load`
rebuilds the index from it.  `contested` is a ghost set of ids on which two
operations have met, or a write has begun on a clip still indexed, which the
code does not defend against for cue ids.  `refused` is a ghost set of ids of
which the disk has refused something that the code does not look at: an unlink
whose error `rm(...).catch` swallows (`UnlinkFails`), a read that fails for any
reason and drops the clip from the index with its files in place (`ReadFails`),
and last writes that fail after `end()` has called back (`EndsUnseen`: the clip
is indexed short).  These clips are `Excused`: of them less is said.

**ClipLife** - what those who do not look into files may count on: a clip is
kept, leaving, gone or nothing, and a kill of the gateway is a step that keeps
whole clips and loses none.  ClipCache implements it (`Clips`): `Life` reads the
stage of a clip off the index, the files and the writes under way.

**VoiceStore** - one `request` per handler, holding the record it composed
before its first await.  Writing a file in place is two steps (emptied, then
whole), so that a kill can leave it `Torn`.  `Tick` is the clock of the undo
window.  `disturbed` is a ghost set of voices on which two handlers have met or
a write has failed since the start.  `Found` is what the next start keeps of a
voice.  A purge whose removals the disk refuses (`PurgeFails`) takes the voice
out of the index and leaves its files.

**VoiceLife** - the life of a voice: unborn, live, deleted and had back, purged
for good.  A live voice may be gone too, at a start that cannot read it: killed
in the middle of a rewrite of its sidecar, or left without a transcript.
VoiceStore implements it (`Store`), and the gateway that Library shows to a
browser does nothing that it does not allow (`Gateway`): it is the specification
on which the two modules meet.

**ReferenceStore** - the staged recordings: pairs of files and an index, with
requests that stage (an ffmpeg and a transcription away), look up, cut a window
and remove, and the expiry that every one of them starts with.  `Kill` keeps
the files; `Boot` loads and discards what has no sidecar or is too old.
`faulty` is a ghost set of recordings of which the file system has once refused
to read or to unlink a file: a `stat` or a sidecar that cannot be read drops a
good recording, a directory that cannot be listed is taken as empty, and the
error of an unlink is swallowed.

**AuthGate** - sessions, the limiter's window, and one `attempt` per client:
checked, then verifying (the await of the hash), then recorded.  Time is kept
as ages, and a sweep is part of the tick that makes something expire.

### State machines of the browser, composed with the gateway's

**PcmFifo**, **PcmRing**, **PcmStream** - PcmFifo is what the buffer between
network and audio clock promises.  PcmRing is the processor, each round of its
two loops a step; it implements PcmFifo under the refinement mapping `Held`.
PcmStream composes PcmRing with the read loop, the byte alignment and the
message port.

**Playback** - `PlaybackOwner` and the sources it owns.  A call parks in the
silence only when the current source has an open context; that is the window
two calls can meet in (`joined`).  A source that was stopped before it had
anything to stop is `early`.

**Generation** - `generate`, `driveGeneration`, `attemptGeneration`,
`sendSpeech`, `cancelSharedWait`, `clearHeldRetry`, the gate, sign-out and
unmount, with the vendor as a lock that others hold too.

**ScriptEditor** - the document on the screen (`doc`), the one in the store,
and every call between them as an element of a sequence that the gateway may
take, and the editor may be answered, in any order; a run's frames are a second
stream.  The revision per cue (`edited`), the defaults, imports and the switch
to another script are the code's.  `raced` says which of the exchanges the code
leaves unguarded have happened: answers that overtake each other, calls of
different kinds under way at once, defaults changed during a run.

**ReferenceIntake** extends ReferenceStore with the panel that records, uploads
and hands over: `panel` is what is mounted, `mic` and `intake` what the closures
of each press still hold after it is gone, `owed` the releases not yet sent.

**Session** extends AuthGate with the tabs of one browser, which share a
cookie: a 401 raises the gate over what was on the screen, the right password
lowers it, and a restored reference is asked about once.

**Library** - `list` and `undo` of the browser over what the gateway holds of
each voice, with deletes, restores and refreshes in flight, another session,
and `pick`/`selected`, the voice Speak would use.  `blurred` is a ghost set of
voices about which two calls were open at once, or that others changed.

**Setup**, **EnvFile** - the walkthrough's phases in order, each with what it
detects, asks, runs and saves; a run may stop at any of them, and between runs
an operator edits `.env` (empties, spoils, writes, deletes or comments out an
assignment), loses the sign-in or a deployment.  EnvFile is the file as
assignments: the first of a key is replaced, the last is read.  An assignment of
nothing (`Blank`) and none (`Unset`) are different: setup and most of
`loadConfig` take both for missing, the transport only the second.

### Pure code

**Ceilings** and **DraftGate** are the two copies of the token ceilings;
**WavFile** writes, recognises, reads and reduces WAV files chunk by chunk;
**ReferenceWindow** has the two copies of the window arithmetic; **SpeakRequest**
puts them together, from the Speak page to what the vendor is sent.  **Chunker**,
**Vtt** and **ScriptFile** are the life of a script: parsed (tags stripped),
divided, reflowed, timed and concatenated.

**Demo** is the composition the code itself makes at the end of the setup
(`main` starts the gateway as its child): once `Setup` has said it is ready, the
operator does one thing - drops a recording, presses Generate, exports a script,
or imports one, runs it and starts the gateway again - and each step records
what the pure code on the way answers, which the invariants judge.  The uses
range over every combination of the sets in MCDemo.

`MC*` modules give the constants a cfg cannot write; `*Proofs` modules hold
theorems about the module they extend.

## Runs

Bounds are the constants of each cfg.

| Run | What it shows | Bounds and why they are enough |
|---|---|---|
| `script_run` | audio is filed right unless an edit raced it, no row is left generating, inherited settings never stale, while PUT swaps the cue objects | two cue objects for one position, so the run can hold one that has left the list; one voice that comes and goes; a run and an edit request, each used again and again; room for one clip so that a put evicts |
| `script_run_two` | two runs over one script both reach their summary | two cues with different texts, two runs, a voice that may be deleted between the two cues, fairness |
| `clip_cache` | index on disk and a restart finds it, unless the disk refused something of the clip unseen; limit at rest, writes awaited | a short teed clip and a long cue clip against a limit of two chunks (each alone fits, both do not); two writers, a DELETE, a reader, either transport, one kill anywhere; the disk refuses things of one of the clips, as often as it likes |
| `voice_store` | a kept voice has its recording; a restart finds the library as it was, but for voices without a transcript; deleted until restored | two voices, two requests at once, updates that empty a transcript, failing writes and removals, one kill, the window of one tick passing once, with deletions before it and after; one voice at a time is disturbed (a constraint: little is said of such a voice, and the other shows what the property says) |
| `pcm_stream` | heard whole, in order, once; the end after the last sample; played out; the ring is a bounded queue | eleven bytes (odd) in chunks of one to five, three slots, quanta of two frames: every alignment, both loops across the end of the ring, full and empty; fairness |
| `playback` | sound is owned unless raced; a stopped graph is silent; every call settles | three calls of four kinds: two may meet inside the third one's silence; fairness |
| `generation` | dismissed waits stay dismissed, a wait is live or over, retries send what was pressed, the control comes back | two presses (the second supersedes), an audition that holds the vendor, one retry (so a chain is held, retried and then exhausted), one sign-out or lost session; fairness |
| `script_editor` | once all is answered the screen is what is stored; a done row plays | two scripts of two cues, two calls under way and a run: the smallest in which an answer can overtake another, or belong to another script; "line" is what an imported cue says, "other" an edit |
| `references` | whole pairs on disk and the selected reference indexed, but for what the file system refused; microphones owned, intakes end | two requests at once, two recordings, expiry after one tick, one kill, the file system refusing things of one recording, one microphone stream opened again and again; fairness |
| `session` | failures bounded, expired references reported, the right password gets in | one tab and one stranger at the same address, three wrong or foreign attempts against a limit of one, sessions of two ticks against a window of one, one restart; fairness |
| `demo` | ready is runnable and a setup completes; recordings measured right, unblocked presses served as shown, reflow loses nothing, exports read back | two stopped runs and one thing lost, or one assignment emptied, spoiled, written or deleted, in between; the sets of MCDemo: every container and chunk layout, windows between words and across them, lines that fill the 256- and 512-token graphs to either side of the limit, texts of four symbols of five kinds (and longer ones of fewer), exported texts with brackets that are tags and that are none, an arrow or an empty line in them, cue boundaries at a second, a minute, an hour and where rounding carries |
| `library` | the list is what is stored, an undo works, no voice substituted | two voices, two calls at once, one act of another session |

`CHECK_DEADLOCK FALSE` is given where requests, calls, writes or presses are
finite in number, and the system comes to rest when they are used up.

Symmetry is used in `voice_store` (handlers and voice ids) and `clip_cache`
(writers), which check safety only: they are compared for equality and nothing
else.

Some properties hold only while two operations have not met: the code makes no
attempt to order two writes of one cue id, two handlers of one voice, or two
calls inside one silence.  Each such property names that condition through a
ghost variable (`raced`, `contested`, `disturbed`, `joined`, `early`, `stray`,
`blurred`, `excused`).  In the same way `refused` and `faulty` name the clips and
recordings of which the file system refused something.  What happens then is
under *Findings*.

## Fairness

- **ScriptRun** `SF(RunStep(r))`: every await of a run settles.  Files are
  settled by the OS; headers by the timer in `#send`; a body by the HTTP
  client's own body timeout.  Node takes settled continuations in the order
  they settled.  It is strong fairness because the model runs a handler's next
  stretch only when no other handler is in the middle of its own, and that
  condition comes and goes.
- **ClipCache** weak fairness of each file operation, of the end or break of a
  body (the HTTP client gives up on a silent one) and of `whenIdle`'s loop.
- **PcmStream** the network delivers, ends or breaks; the context renders.
  Delivery is strongly fair: a message cannot be delivered inside a quantum,
  and the port is served between quanta however short the pause.
- **Playback** the browser closes a context it was asked to close, loads a
  module or refuses it, and a body ends or breaks.
- **Generation** replies come (the gateway's own timers answer for the
  vendor), the vendor ends what it has begun, playback ends, timers fire.
  Nothing forces a viewer to press, cancel or leave, or other visitors to come.
- **ReferenceIntake** one weak fairness per request: it makes progress (ffmpeg
  and the transcription have timers), its reply or a broken connection reaches
  the browser, and a killed gateway is started again. Nothing makes a viewer
  stop a recording.
- **Session** time passes, verifications end, calls are answered or fail, and
  the operator of a tab behind the gate types the right password again and
  again: `GetsIn` says that nothing the gate does makes that useless.
- **Setup** and **Demo** an operator who has not finished starts the setup
  again, and goes on answering its prompts; nothing forces a command to succeed
  beyond the bounded failures.

ScriptEditor and Library have no liveness: a call that is never answered is a
call under way, and their properties speak of the moments when none is.

## Proofs

Eight modules are proved for every value of the constants, from the `ASSUME` of
the modules they extend.

**ScriptRunProofs.** `InductiveInvariant` is the argument:
`TypeOK`, `ListedCuesCurrent`, `UnracedClipIsRight` and two parts without which
the last is not inductive.  `AwaitingHasCue`: a run that is awaiting has a cue
in hand, so `Current(r)` means something.  `UnracedInputsKept`: until an edit
races it, the cue in flight keeps the text and voice its request was made of,
and its clip id names them.  Every handler that touches a cue either leaves the
inputs of the cues in flight alone or marks their run as raced.  `TypeCorrect`,
`UnracedAudioIsFiledRight` and `InheritedSettingsCurrent` follow.
`NothingLeftSpinning` rests on
`AttendedInv`: a listed cue shown as generating is the one some run has in
flight, or an edit of the cue list has its refresh still to come.  An edit of
the defaults is no such witness, since it re-derives nothing when the script
has been removed meanwhile.

**ClipCacheProofs.** `CacheInvariant` has two halves.  `Ground` holds of every
clip: where an operation is says what it has written and what it has in hand,
nothing else is under way while `load()` runs, and the id of a tee is drawn
once.  `ClipInv` holds of a clip that is not `Excused` (nobody contested it and
the disk refused nothing of it unseen): a clause for what is indexed,
for the operation that writes it, removes it or reads it, and for nobody.
`Unbroken` (a payload has no gap) serves the proof: without it a restart could
take a payload of the right length for a whole one.  The step of an operation
that has another clip in hand passes the clip by (`Elsewhere`); if it has this
one, no other has (`SoleStep`).  The one subtle clause is that of a broken
buffered body: nobody removes its partial file, so what keeps `load()` from
indexing it is that its sidecar was never begun (`TeesOnce`).  `IndexIsOnDisk`
follows.  `WritesAreAwaited` needs that the slot of an id is emptied only by the
one write that filled it.  `LimitAtRest` is about the clips together: its
`LimitInv` says that the index fits but for what some eviction under way has
still to drop.  It rests on what a selection leaves (`SelectionFits`: the oldest
clip it keeps has everything kept among the clips no older than it), and so on
the sum over a set growing with the set.  That is an induction over finite sets,
done by taking a smallest set that would be an exception (`SmallestPart`).

`CacheImplementsLife` is the refinement of ClipLife, with a kill of the gateway
mapped to a kill of the promise.  A step on the files of a clip, to write it or
to remove it, moves the life of that clip by one stage and of no other
(`OnFiles`); a step that touches no file can only forget (`OnlyForgets`).  What
carries the kill is that an indexed clip is whole and nobody writes it
(`IndexedIsWhole`), that a clip under way becomes loadable only by the last step
of its own write (`MovedByWriter`), and that one being removed is loadable until
its first file goes (`MovedByRemoval`).  So what `load()` finds after a kill is
what the stage of the clip says it may find (`LifeKilled`, `LifeLoads`).  A clip
that is contested or refused is `"disputed"`, of which nothing is promised.

**VoiceProofs.** The gateway's library first: five invariants, each resting on
those before it.
`TypeOK` needs that `disambiguateName` always finds a free suffix: there are
more suffixes than other voices (a pigeonhole lemma and a least element).
`PairInv`: a sidecar that parses has its recording, or is of a voice that the
next start purges.  The second half is what a kill between the two deletions of
a purge leaves behind, and without it the first is not inductive; `SideAfterWav`
says that a handler past its recording finds it whole.  `RecordingsKept` follows.
`MeetInv`: on a voice where no two handlers met, a handler still finds what it
was accepted for (a creation no voice, an update a visible one, a deletion a
record with its date); hence `DeletedStaysDeleted`.  `FileInv`: on such a voice
index and sidecar agree, or the handler at work on it says how they differ;
hence `RestartsFindTheIndex`, for whatever transcripts clients send: what is
said of a voice whose transcript was emptied is that a restart loses it (see
Findings).
`LifeInv`: a creation has its id to itself and shows nothing before it is
written, every other handler is about a voice the index knows, and a sidecar
that nobody answers for does not parse.  It holds of every voice, disturbed or
not, and gives `StoreImplementsLife`: the index, the two files and the handlers
of a voice, seen through `Life`, take the steps of VoiceLife.  It
assumes nothing of the kills: a voice they leave unreadable, and one whose
transcript was emptied, is a live voice that is gone at the next start, which is
a step of VoiceLife (see the finding `VoicesSurviveKill`); what is purged or
gone is so for good.

Then the browser's.  `ShownInv` says of a voice nothing blurred that the one
call about it explains how the list and the gateway differ (a delete already
left the list, a restore not yet entered it), that a refresh under way is right
about every voice nothing happened to since it was sent (`Current`), and that
the voice of the undo strip is still restorable, or its delete will withdraw the
strip.  `ListShowsTheStore`, `StripCanRestore` and `ChosenOrNothing` follow.
`LibraryCountsOnLife` closes the gap between the two modules: with `BornInv` (a
call to delete or restore is about a voice that was born) every step Library
gives its gateway is a step of VoiceLife, which the store is shown to implement.

**ReferenceProofs.** `StoreInv` is about the directory of staged references.
`Covered`: every file is indexed, or some request answers for it - it is writing
it, has all that is left of it to unlink, or is the `load()` that will sweep it.
`Secret`: a recording a request creates is known to that request alone, which
is why no eviction takes it from under the write.  `Live`: the reference a
request is staging for stays indexed until it is old enough, or, while the index
is rebuilt, whole on the disk with nobody unlinking it.  Of a recording in
`faulty` only the first half of `Covered` is left: its files may stay unindexed,
and it may leave the index before its time.  `HoldInv` carries that
to the page: what a request carries nobody has chosen, and what is selected is
live and not owed a release.  `MicInv`: a microphone that is here belongs to the
panel on the screen, and two of them are both stray.  `StoreIsTidy`,
`SelectionIsServed` and `LiveMicrophoneIsOwned` follow.

**EditorProofs.** What the screen, and the replies on their way to it, owe the
record.  `Settled` (one run at a time, its frames heard by its own call, calls
taken in order) and `Fresh` (a script on its way in is as imported) say where
the session stands.  `InSync` are the documents that say what the gateway keeps.
With the answers in order, the last call of all answers with one of them
(`LastSyncs`); while one thing is edited, its newest edit does, in whatever
order the gateway took them (`Unmixed`): `ScreenShowsTheStore`.  For
`DoneRowsPlay` the argument goes row by row: a row, on the screen or in a reply,
that does not say what the record says has a newest edit still under way that
will replace it (`Fixers`), and a frame that says done is about a clip in the
cache.  `Fixers` is what is not in the property: a stale row is allowed to be on
its way as long as what supersedes it is behind it.

**AudioProofs.** *The ring.*  `IndicesAgree` proves `RingInv`: the write index is
the read index plus the count modulo the capacity, through wrap-around, overrun
and reset.  `RingIsFifo` proves that the ring implements PcmFifo: under
`held <- Held` (the `available` samples from `readIndex` on, around the end of
the ring) each step is a push, a pop, a hold, an end, a clear, a drain or a
stutter.  The modular arithmetic is in lemmas of its own.  *The stream.*
`StreamIsFifo` is the same refinement with the ring in the player, where
messages decide what is pushed.  `ClipIsHeardInOrder` needs to say where every
sample is: the samples posted are cut into segments of the clip, each message
beginning where the one before ended and the copy under way before them all
(`Chained`); what was played and what waits in the ring are samples of the clip
in its order (`Line`); and the end is the last message, so that the processor
stops only when everything has been played (`LastWord`).  *The owner.*  A call
silences the current source and installs its own.  `Unowned` is what the table
of sources looks like in between;
`SilenceUnowns` that the silence leads there, `SilencingUnowned` that a call
which parked finds the table so when it resumes (whoever took the output
meanwhile has met it, `SilencersJoined`), `InstallStep` that installing a
source restores the invariant.  `SoundIsOwned`, `NoGraphLeaks` and
`StoppedStaysSilent` follow.  The invariant needs `UnfinishedIsOwned` (a source
that is still to come is owned, joined or told to stop) and `OwnerHasBegun`.

**GenerationProofs.** The invariant says that `waitEpoch` names the latest
press until something supersedes it (`UnsupersededIsLatest`), that only the
chain of that press is attempted (`AttemptIsLatest`) or armed
(`TimerHoldsLatest`), and that epochs read are not from the future
(`EpochsPast`).  `NeverTwoTimers`, `DismissalIsFinal`, `NoDeadWait` and the
action property `RetryIsPressed` follow.  At the end, what lets Generate be
pressed at all, which is no state machine: `EnabledIsServed` and
`RefusedOnlyWhenRefused` say of *every* request, with texts of any length, that
DraftGate's verdict and that of Ceilings are the same.  The two estimators
are shown equal first (two ways of writing one rounded sum), then the tables,
then the two judgements case by case.

**AccessProofs.** *The gate.*  An attempt is let through on the failures
recorded so far and recorded after the hash has been computed, so the count may
pass the limit.  `Budget` says by how much: the failures counted plus the
verifications under way stay below the limit plus the number of clients.
Admitting an attempt adds a verification only while the count is below the
limit; recording a failure moves one unit from the second term to the first (a
cardinality lemma for each). `FailuresBounded` follows for any number of tabs
and strangers. `ExpiryIsNoticed` needs `NoticeInv`: in a tab whose restored
reference expired the question about it is under way, answered, or behind the
gate to be put again, and a tab never opened has asked nothing.  *The setup.*
`SetupInv` says how far a run has come, and with it what the phases behind it
left: what was found (`Walked`), what the listing of deployments is still worth
(`Listed`), what was saved (`Written`) and the window, which is saved before the
deployment that uses it (`Windowed`).  The lemma under it is `SavedIsRead`: a
value saved is the one read back, if its key is assigned once.  `ReadyStarts`
assumes that of the file the operator begins with (`Once(FirstFile)`); without
it, it is false (see Findings).  The property leaves out a setting spoiled by
hand that setup does not look at (`Spoiled`), the emptied transport among them.
*The demo.*  Using the installation changes nothing the setup keeps
(`DemoIsSetup`), so it goes on starting (`DemoStarts`).  Three of the invariants
over uses are proved for every upload, recording, voice, correction, line,
instruction and ceiling file, from `DemoAssumption`: numbers are numbers and
word lists finite; what is heard of a WAV in the staging format is its first
`data` chunk in the format of its last `fmt` chunk, and any other upload lasts
as long as the frames ffmpeg makes of it (both are outside the code: it is what
"heard" means); a saved voice carries the length its own header gives, as
`voices.ts:202` stores it. `Good` is what is shown of a use, one kind at a time.
For a press of Generate (`UnblockedServed`, `ServedIsAsShown`): the page's
estimate and the gateway's are one count of one text (`PageCounts`,
`GatewayCounts`); the window the page has settled on is one the gateway's own
snap leaves where it is (`NothingToSnap`: its edges are edges of words, and the
nearest edge to an edge is itself); and the audio cut there is no longer than
its bounds (`WindowServed`).  So a limit that the page checked with a margin is
not reached in the gateway.  For an upload (`IntakeIsMeasured`): the chunk the
parser takes is the one that is heard (`ParsedAs`), a conversion writes the
header that is then read (`ConvertedAs`), and a waveform's buckets miss no frame
(`PeaksShowAll`).  *The stamps of an export.*  `StampsReadBack`: hours, minutes,
seconds and milliseconds are cut out by the units they are read back with, so a
stamp is read to the nearest millisecond; `OtherStampsRefused` is the rest of
the times, exactly: the last half millisecond of every second (see Findings).

Parts of the inductive invariants that no run lists (`RingInv`, `OneTimer`,
`GraphsReleased`, the type invariants and each `IInv`) are proved, and were
checked by TLC first.

The two refinements `Clips!LifeSpec` and `Store!LifeSpec` were checked by TLC on
the constants of `clip_cache` and `voice_store` (there with one voice, and with
one request) before they were proved; they are in no cfg, since the theorems say
more.

**Only model-checked.** Every liveness property (`RunFinishes`,
`WhenIdleReturns`, `PlayedOut`, `CallsSettle`, `ControlComesBack`, `StagingEnds`,
`GetsIn`, `SetupCompletes`): liveness under fairness is out of the proof
system's reach.  And two invariants of Demo.  `ReflowLosesNothing` says that the
pieces of a line, however deep it is divided, put together are the line:
Chunker divides by folds over sequences, level by level, and what a fold
computes for every input is an induction over data, whose principle the
installed provers cannot instantiate.  `ExportReadsBack` is about a list of cues
put in order of their times, and about texts joined by a fold; of it the stamps
are proved.

## Assumptions and limits

- A clip id is what it hashes.  The code uses a 32-bit hash, so two cues could
  share an id; a collision is not something a small instance shows.
- Writes under one clip id have the same length: an id is a hash of all that
  its audio depends on.  A voice's transcript is read at synthesis and is not
  in the id; edits of it are outside ScriptRun.
- ScriptRun's and ScriptEditor's scripts are WebVTT imports, so the reflow of
  plain text never applies; ScriptFile has the reflow.  Of the delivery settings
  they keep the voice: instruction, cfg scale and seed are inherited and
  overridden by the same code, and a voice can also disappear.
- The samples of PcmStream are pairs of numbered bytes; the arithmetic from a
  pair of bytes to a float is not modelled.
- The underrun counter of the worklet is kept modulo 32, which is all the code
  reads of it.
- Generation leaves out a script run of the viewer's own, which is in the count
  for its whole length and never changes the rest of the state.
- A WAV has its format chunk first, with sixteen bytes: the other layouts are
  refused or read by the same loop.
- The estimates are exact rationals; the code's are floats, whose products with
  0.8 and 1.1 may round the other way at an exact boundary.  All timed words
  of one recording have the same shape.
- Sentence segmentation (`Intl.Segmenter`) is the platform's; SentenceCuts is
  the part of it the tests use, and is marked external.
- In Session tabs are not closed, and a 5xx answer to the question about a
  reference is not told from its absence (the code does not either).
- Bounds that only cap the search are constants with that remark (`MaxObjs`,
  `MaxCrashes`, `MaxTime`, `MaxGates`, `MaxKills`, `MaxRefused`, `MaxFaulty`, the
  constraint `OneDisturbed`; `Retries` is the code's own).

## Findings

Each row is a statement of the repository's own comments, or what a user of the
code would take for granted; TLC refutes the property, and its counterexample is
what the code does.  To reproduce one: where a claims cfg is named, run it with
only that property listed; otherwise put the property in place of those of the
run's own cfg (`CHECK_DEADLOCK FALSE` stays).

| Cfg | Property | Statement | What the code does |
|---|---|---|---|
| `ScriptRunClaims` | `CacheIsHonest` | editing an input changes the id, and the new id is not cached (`script.ts`) | a PATCH while the vendor speaks files the old words under the new id (`index.ts:1109` reads `cue.clipId` after the awaits) |
| `ScriptRunClaims` | `RunsNeverContend` | one at a time, so a 409 cannot happen (`cue-queue.ts`) | a second POST /run is not queued behind the first |
| `ScriptRunClaims` | `VttTimesRealAudio` | the export refuses a cue without audio to time (`script.ts`) | a cue that became unrunnable keeps its old timing (`script.ts:766`) |
| `ScriptRunClaims` | `PatchTouchesOneCue` | a PATCH changes one cue's id (`script.ts:1059`) | a refused PATCH leaves its text behind; the next one derives both (`script.ts:1074`) |
| `VoiceStoreClaims` | `VoicesSurviveKill` | voices persist across restarts (`voices.ts:64`) | a transcript edited to nothing is stored, and refused at load (`voices.ts:304`); with `Said = {TRUE}`: a sidecar is rewritten in place, and a kill leaves it empty (`voices.ts:307`) |
| `VoiceStoreClaims` | `NamesUnique` | names are made unique (`voices-index.ts:110`) | restore does not look (`voices.ts:338`) |
| `VoiceStoreClaims` | `RestoreOnlyInWindow` | restore fails once the window has passed (`voices.ts:336`) | nothing purges while the gateway runs |
| `ClipCacheBuffered` | `WhenIdleReturns` | whenIdle resolves once the tees are done (`cache.ts:94`); it does in `ClipCacheIdle` | a buffered body that breaks leaves its writer open for ever (`index.ts:689`) |
| `ClipCacheSameCue` | `WhenIdleReturns` | the same | two writes of one cue share a promise slot: the promise of the first, already awaited, is never resolved (`cache.ts:227`) |
| `PcmStream` | `UnderrunIsMidClip` | an underrun is mid-clip (`player.ts`) | the last samples may be played before "end" is delivered |
| `PcmStream` | `BurstsAbsorbed` | the ring absorbs bursts (`pcm-processor.js`) | nothing holds the network back when the ring is full |
| `Playback` | `OneSource` | a second source can never join the first (`App.tsx:323`) | two calls meet while a third is silencing (`player.ts:388`) |
| `Playback` | `StopIsSilence` | stop silences whatever is playing (`player.ts:410`) | the buffered fallback plays when its body arrives, stopped or not (`player.ts:267`) |
| `Generation` | `NothingRetriesWhenGone` | nothing retries once the component is gone (`App.tsx:381`) | unmount does not supersede the attempt on the wire |
| `Generation` | `NothingStartsBehindGate` | nothing is left sounding behind the gate (`App.tsx:371`) | a late response is played there |
| `Generation` | `ContendedMeansOther` | a count of nothing means the lock is somebody else's (`App.tsx:784`) | the count drops at the headers, the lock at the end of the body |
| `ScriptEditor` | `SettledIsStored` | the rows show what is stored once every answer is in | the answer to one cue's edit carries the whole document and takes a later edit of another cue off the screen until the next read; a refused edit stays on it |
| `ScriptEditor` | `OpenedIsShown` | opening a script shows it | the late answer to an edit of the previous script, or the refresh at the end of its run, puts that one back |
| `Session` | `GateIsNeeded` | the gate is shown when there is no session | a 401 from before the sign-in, answered after it, raises the gate again |
| `Library` | `OwnStrip` | a failed delete takes back its own row | it clears the strip of a delete made meanwhile and puts back the list of its own press, that voice included (`App.tsx:986-988`) |
| `DemoTwice` | `ReadyIsRunnable` | setup says ready when the gateway can start | with a key twice in `.env` the first assignment is rewritten and the last one is read (`env-file.ts`, `config.ts`) |
| `Demo` | `EveryWindowIsServed` | a hand-corrected transcript makes a window sendable | the page lets through a window with no whole word in it, which the gateway snaps elsewhere or refuses (`ui/src/state/reference.ts:271-279`).  The same of a window whose only whole word takes no time, and of one that has no length where there are no words: without either part of `Audible`, `UnblockedIsServed` is refuted |
| `Demo` | `EveryVoiceFits` | the ceilings count the reference's audio | a voice saved from an upload with a metadata chunk before its samples is measured at the fixed offset 40 (`transport.ts:156`, `voices.ts:188-202`), as almost nothing; the gateway's own count of a staged reference cut by ffmpeg has the same fault |
| `Demo` | `EveryRefusalIsTrue` | "every CFG value carries the same ceiling" in design mode (`script.ts:369-370`) | a scale of 1 has half the room |
| `Demo` | `WordsStayApart` | dividing a line keeps its words apart | a piece that is only a space is dropped at the character level (`text-chunker.ts:103`) |
| `Demo` | `TailStaysDone` | "a short completed tail therefore stays completed through the migration" (`script.ts:921-923`) | with seeds that count the cues, dividing one changes the clip ids of every later one |
| `Demo` | `EveryExportReadsBack` | an export can be imported | a time in the last half millisecond of a second is written with a thousand milliseconds (`vtt.ts:76`), which `parseVtt` skips; a text in angle brackets is stripped on import, and a cue of nothing else becomes a problem (`vtt.ts:133`); an empty line in a text ends its cue (`vtt.ts:90`) |

Met while translating, without a property: a sign-out whose DELETE fails leaves
the session alive behind the gate (`client.ts:283-284` says otherwise); a cue
PATCHed to nothing is deleted without a word by the next reflow
(`script.ts:955-970`); a header block with no blank line after it swallows the
first cue, though "nothing is silently dropped" (`script.ts:515`), as does a
NOTE, STYLE or REGION line that begins a block with a cue in it; plain text with
"-->" in it is read as VTT; a cue whose text has an empty line breaks the
export; the `total` of a summary is the length of the list when the run ends,
not of the one it went through (`cue-queue.ts:213`), so a PUT during a run makes
it differ from the four counters; the transcript of a restored window with no
timed words is lost; the window's nudge sticks where two words start together; a
malformed endpoint URL counts as set, and an emptied `GATEWAY_TRANSPORT` is not
looked at (`config.ts:314-320` refuses it, where it takes an absent one for the
default), so setup says ready for a gateway that refuses to start; setup reads
`.env` alone, the gateway merges the process environment; deleting a deleted
voice succeeds and extends its window; an undo of a voice that a refresh has
brought back lists it twice; the answer to an import is not refreshed, so clips
that are already cached show as queued; a microphone that opens after the panel
has gone, or after a second press of Record, stays open
(`ReferenceCapture.tsx:178`).

What the file system refuses is often not looked at.  A clip whose files could
not be unlinked is indexed again by the next start (`cache.ts:384-385`); any
failed read drops a good clip from the index until then (`cache.ts:341-343`); a
payload whose last writes fail after `end()` has called back is indexed with the
length it should have had (`cache.ts:253-260`).  A purged voice whose files stay
is purged again by the next start (`voices.ts:363-366`).  A failed `stat` throws
a good staged reference away (`references.ts:445-450`), and so does a sidecar
that cannot be read at the start; a directory that cannot be listed counts as
empty, and what is in it is served by nobody until the next start
(`references.ts:232`); files that could not be unlinked stay
(`references.ts:539-540`).  Without ffmpeg, or when it fails, a window is refused
though the reference is there and stays (`references.ts:437-442`, `484-498`).

`UnracedClipIsRight`, `OwnedUnlessRaced`, `IndexedOnDisk` and the like say what
does hold around these: the race is named in the property, and everything else
is covered.

## Not modelled

- **The creation draft** (`VoiceWorkspace.tsx`, `App.tsx`): one race is listed
  under the hazards (an audition answered after an edit attaches the clip of the
  old draft, `App.tsx:902`), with two more of its kind: `saveCreatedVoice`
  resets the draft and loses edits made meanwhile (`App.tsx:911-931`), and the
  staging panel writes the draft of the render it closed over.
- **Persistence in the browser** (`workspace.ts` `safe*`, the effects of
  `App.tsx:329-352`): validators of stored JSON that return a default, one
  field at a time.
- **Script files on disk** (`script.ts:1186`): a save in place, and a run's
  last save after a DELETE.  The same two hazards are modelled for voices.
- **Transcription client** (`asr.ts`): one request, one timeout, no state; its
  answers and failures are outcomes of ReferenceStore.
- **The body of a speech response towards the browser**: the order of headers
  and chunks.  The cache's end of it is in ClipCache, the player's in PcmStream.
- **Rendering** of the interface; the **inference service** (Modal app
  definitions around an external server, here one lock); the **measurement
  harness** (sequential scripts).

## Plan

What is left, in order:

1. **CreationDraft**: auditions, edits and saves with replies in any order.
2. **ScriptDisk**: saves in place, kills, a run's last save against a delete,
   and a life of a script for it to implement, like VoiceLife.

## Running

`tlc -config X.cfg M.tla` for a run (the pairs are in `PROJECT.json`),
`tlapm XProofs.tla` for the proofs of a module.  The longest runs take about
three minutes, all proofs together ten to twenty (EditorProofs four of them,
ClipCacheProofs about as many, AccessProofs two).
