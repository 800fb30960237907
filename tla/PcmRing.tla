------------------------------ MODULE PcmRing ------------------------------
(***************************************************************************)
(* The AudioWorklet processor of ui/public/pcm-processor.js: a ring buffer *)
(* filled by port messages and emptied a render quantum at a time.         *)
(*                                                                         *)
(* The worklet has one thread, so a message handler and process() never    *)
(* overlap: job says which of the two is running, and each round of its    *)
(* loop is a step.                                                         *)
(***************************************************************************)
EXTENDS Naturals, Sequences

CONSTANTS
    Samples,      \* sample values
    Silence,      \* the zero frame
    Capacity,     \* RING_CAPACITY
    Quantum,      \* frames of a render quantum
    ReportEvery,  \* one underrun in so many is reported (32)
    Chunks        \* sample sequences one message may carry

ASSUME RingAssumption ==
    /\ Capacity \in Nat \ {0} /\ Quantum \in Nat \ {0}
    /\ ReportEvery \in Nat \ {0, 1}
    /\ Chunks \subseteq Seq(Samples)

VARIABLES
    ring, readIndex, writeIndex, available,
    ended, started,
    underruns,    \* modulo ReportEvery, which is all the code reads of it
    alive,        \* process() has not returned false
    job,          \* "idle", or the loop the thread is in
    copying,      \* enqueue: samples still to copy
    frames,       \* process: frames still to fill
    heard         \* the last frame filled

buffer == <<ring, readIndex, writeIndex, available>>
flags  == <<ended, started, underruns, alive>>
loop   == <<job, copying, frames>>
ringVars == <<ring, readIndex, writeIndex, available, ended, started, underruns, alive,
              job, copying, frames, heard>>

Slots == 0..(Capacity - 1)

RingInit ==
    /\ ring = [i \in Slots |-> Silence]
    /\ readIndex = 0 /\ writeIndex = 0 /\ available = 0
    /\ ended = FALSE /\ started = FALSE /\ underruns = 0 /\ alive = TRUE
    /\ job = "idle" /\ copying = <<>> /\ frames = 0
    /\ heard = Silence
-----------------------------------------------------------------------------
(* port.onmessage *)

ReceiveSamples(s) ==
    /\ job = "idle"
    /\ job' = "enqueue" /\ copying' = s
    /\ UNCHANGED <<buffer, flags, frames, heard>>

ReceiveEnd ==
    /\ job = "idle"
    /\ ended' = TRUE
    /\ UNCHANGED <<buffer, started, underruns, alive, loop, heard>>

ReceiveReset ==
    /\ job = "idle"
    /\ readIndex' = 0 /\ writeIndex' = 0 /\ available' = 0
    /\ ended' = FALSE /\ started' = FALSE
    /\ UNCHANGED <<ring, underruns, alive, loop, heard>>

After(slot) == (slot + 1) % Capacity

(* one sample; a full ring loses its oldest *)
EnqueueNext ==
    /\ job = "enqueue" /\ copying # <<>>
    /\ ring' = [ring EXCEPT ![writeIndex] = Head(copying)]
    /\ writeIndex' = After(writeIndex)
    /\ IF available < Capacity
       THEN available' = available + 1 /\ UNCHANGED readIndex
       ELSE readIndex' = After(readIndex) /\ UNCHANGED available
    /\ copying' = Tail(copying)
    /\ UNCHANGED <<flags, job, frames, heard>>

EnqueueOver ==
    /\ job = "enqueue" /\ copying = <<>>
    /\ started' = (started \/ available > 0)
    /\ job' = "idle"
    /\ UNCHANGED <<buffer, ended, underruns, alive, copying, frames, heard>>
-----------------------------------------------------------------------------
(* process() *)

ProcessBegins ==
    /\ job = "idle" /\ alive
    /\ job' = "quantum" /\ frames' = Quantum
    /\ UNCHANGED <<buffer, flags, copying, heard>>

FillFrame ==
    /\ job = "quantum" /\ frames > 0
    /\ frames' = frames - 1
    /\ IF available > 0
       THEN /\ heard' = ring[readIndex]
            /\ readIndex' = After(readIndex)
            /\ available' = available - 1
       ELSE heard' = Silence /\ UNCHANGED <<readIndex, available>>
    /\ UNCHANGED <<ring, writeIndex, flags, job, copying>>

(* mutant: the end is announced whatever is left to play *)
ProcessEndsEarly ==
    /\ job = "quantum" /\ frames = 0
    /\ alive' = ~ ended
    /\ underruns' = IF available = 0 /\ ~ ended /\ started
                    THEN (underruns + 1) % ReportEvery ELSE underruns
    /\ job' = "idle"
    /\ UNCHANGED <<buffer, ended, started, copying, frames, heard>>

ProcessOver ==
    /\ job = "quantum" /\ frames = 0
    /\ alive' = ~ (available = 0 /\ ended)
    /\ underruns' = IF available = 0 /\ ~ ended /\ started
                    THEN (underruns + 1) % ReportEvery ELSE underruns
    /\ job' = "idle"
    /\ UNCHANGED <<buffer, ended, started, copying, frames, heard>>
-----------------------------------------------------------------------------
WorkletStep == EnqueueNext \/ EnqueueOver \/ FillFrame \/ ProcessOver

RingNext ==
    \/ \E s \in Chunks : ReceiveSamples(s)
    \/ ReceiveEnd \/ ReceiveReset
    \/ ProcessBegins \/ WorkletStep

RingSpec == RingInit /\ [][RingNext]_ringVars
-----------------------------------------------------------------------------
(* Every variable has its type. *)
RingTypeOK ==
    /\ ring \in [Slots -> Samples \cup {Silence}]
    /\ readIndex \in Slots /\ writeIndex \in Slots /\ available \in 0..Capacity
    /\ ended \in BOOLEAN /\ started \in BOOLEAN /\ alive \in BOOLEAN
    /\ underruns \in 0..(ReportEvery - 1)
    /\ job \in {"idle", "enqueue", "quantum"}
    /\ copying \in Seq(Samples) /\ frames \in 0..Quantum
    /\ heard \in Samples \cup {Silence}

(* the i-th sample waiting to be played *)
Held == [i \in 1..available |-> ring[(readIndex + i - 1) % Capacity]]

(* The three indices agree: the next sample is written where the last one  *)
(* waiting leaves off, samples waiting are real ones, and a processor that *)
(* has announced the end is not in the middle of a quantum.                *)
RingInv ==
    /\ RingTypeOK
    /\ writeIndex = (readIndex + available) % Capacity
    /\ \A i \in 1..available : Held[i] \in Samples
    /\ job = "quantum" => alive

Fifo == INSTANCE PcmFifo WITH held <- Held

(* The ring is the bounded queue of PcmFifo: whatever the chunks and the   *)
(* quanta, the samples come out in order, once, and only a full ring loses *)
(* one (pcm-processor.js enqueue and process).                             *)
FifoSpec == Fifo!Spec
=============================================================================
