-------------------------------- MODULE MCDemo --------------------------------
(* Constants that a cfg cannot write down.                                   *)
EXTENDS Demo

Line(k, v) == [key |-> k, value |-> v]

\* .env.example: what setup fills in is empty, the window and the transport
\* have values; the address is commented out and the password is not there.
Template == <<Line("URL", Blank), Line("PAIR", Blank), Line("ASR", Blank),
              Line("WINDOW", "600"), Line("TRANSPORT", "streaming")>>

\* A file whose operator appended a pair and left the template's line.
Twice == Template \o <<Line("PAIR", Malformed)>>

Upto(S, n) == UNION {[1..k -> S] : k \in 0..n}

-----------------------------------------------------------------------------
(* Sounds of up to four frames, as a decoder hears them, in every container  *)
(* and behind every kind of chunk; the last one is cut short.                *)
Sounds == Upto({0, 1, 2}, 4)
Format(tag, bits) == Speak!Fmt(tag, 1, 24000, bits)
ClipFormat == Speak!ParseAudioFormat(24000, "s16le")

Upload(audio, decoded, bytes, perSecond) ==
    [file |-> audio, decoded |-> decoded, bytes |-> bytes, perSecond |-> perSecond]

SomeUploads(sound) ==
    LET pcm == Speak!Data(2 * Len(sound), sound)
        float == Speak!Data(4 * Len(sound), sound)
        byte == Speak!Data(Len(sound), sound)
        odd == Speak!Data(2 * Len(sound) + 1, sound)
        heard(chunks, whole, perSecond, bytes) ==
            Upload(Speak!Wav(chunks, whole), sound, bytes, perSecond)
    IN {Upload(Speak!FrameWav(sound, ClipFormat), sound, pcm.size, 48000),
        heard(<<Format(1, 16), Speak!List(26), pcm>>, TRUE, 48000, pcm.size),
        heard(<<Format(3, 32), float>>, TRUE, 96000, float.size),
        heard(<<Format(1, 8), byte>>, TRUE, 24000, byte.size),
        heard(<<Format(1, 16), odd>>, TRUE, 48000, odd.size),
        heard(<<Format(1, 16), pcm, Speak!List(26)>>, FALSE, 48000, pcm.size),
        heard(<<Format(1, 16), Speak!List(26)>>, TRUE, 48000, 0)}
    \cup {Upload(Speak!Other(c), sound, pcm.size, 48000) : c \in {"webm", "mp3", "text", "empty"}}

AllUploads == UNION {SomeUploads(s) : s \in Sounds}

-----------------------------------------------------------------------------
(* A word stands for about forty tokens of speech, and lines fill up the     *)
(* graphs: with no reference at 256 and 512 tokens, with one at less.        *)
Text(n) == [cjk |-> 0, other |-> 4 * n, words |-> n, punct |-> 0]
Word == [cjk |-> 0, other |-> 160, words |-> 30, punct |-> 2]

Spans == {<<0, 90>>, <<40, 130>>, <<100, 200>>, <<130, 255>>, <<210, 300>>, <<0, 300>>, <<250, 330>>, <<90, 90>>}
Timed(span) == [start |-> span[1], end |-> span[2]]

SomeRecordings ==
    {[duration |-> 300, words |-> {Timed(a), Timed(b)}, text |-> Text(80)] : a, b \in Spans}
    \cup {[duration |-> d, words |-> {}, text |-> t] : d \in {0, 120, 300}, t \in {Text(60), Speak!Nothing}}

SomeCorrections == {Speak!Nothing, Text(40), [cjk |-> 100, other |-> 0, words |-> 1, punct |-> 0]}
SomeLines == {Speak!Nothing, Text(10), Text(30), Text(100), Text(220), Text(400)}
SomeInstructions == {Text(5), Text(20)}
SomeCeilings == {[present |-> FALSE], [present |-> TRUE, noCfg |-> 150, singleCfg |-> 0],
                 [present |-> TRUE, noCfg |-> 150, singleCfg |-> 280]}

(* Voices saved from a clip, whose header is canonical, and from a cut, whose*)
(* header is not: the length recorded is read from the header.               *)
Saved(seconds, transcript, chunks, available) ==
    LET wav == Speak!Wav(<<Format(1, 16)>> \o chunks
                           \o <<Speak!Data(seconds * 48000, <<>>)>>, TRUE)
        header == Speak!ReadWavHeader(wav)
    IN [available |-> available, transcript |-> transcript, wav |-> wav, length |-> 25 * seconds,
        duration |-> Speak!Units(Speak!DurationSeconds(header.bytes, header))]

SomeVoices ==
    {Saved(s, t, <<>>, TRUE) : s \in {2, 10}, t \in {Text(20), Text(100)}}
    \cup {Saved(10, Text(100), <<Speak!List(26)>>, TRUE), Saved(2, Text(20), <<>>, FALSE),
          Saved(2, Speak!Nothing, <<>>, TRUE)}

-----------------------------------------------------------------------------
(* One line of up to four symbols, or of more that divide in fewer ways, and *)
(* a short one after it, with room for a handful of tokens beside the        *)
(* reference.                                                                *)
Alphabet == {"a", "K", ",", "!", " "}
SomeStrings == Upto(Alphabet, 4) \cup [1..5 -> {"K", ",", " "}] \cup [1..6 -> {"K", " "}]
SomeSources ==
    {<<Files!TextLine(t), Files!BlankLine, Files!TextLine(<<"a", "a">>)>> : t \in SomeStrings}

SomeLayouts == {[voice |-> "v", cfg |-> 2, instruction |-> Text(1), seed |-> 7, seedMode |-> mode] :
                   mode \in {"fixed", "increment"}}

(* The reference leaves so many tokens for what is said.                     *)
Profile(room) ==
    [v |-> [transcript |-> [cjk |-> 0, other |-> 4 * (512 - 8 - 8 - 126 - room),
                            words |-> 1, punct |-> 0], duration |-> 250]]
SomeReferences == {[first |-> Profile(6), later |-> Profile(3)],
                   [first |-> Profile(4), later |-> Profile(4)]}

(* Cues of one or two lines, generated or not, with brackets that are a tag  *)
(* or are none, an arrow, an empty line; boundaries at the seconds, minutes  *)
(* and hours, and where rounding carries.                                    *)
SomeTexts == {<<Files!TextLine(<<"a">>)>>,
              <<Files!TextLine(<<"a", ",">>), Files!TextLine(<<"K", " ">>)>>,
              <<Files!TextLine(<<"<", "a", ">", " ", "K">>)>>,
              <<Files!TextLine(<<"a", "<">>), Files!TextLine(<<"K", ">">>)>>,
              <<Files!TextLine(<<"a", ">", "<", ">", "K", "<">>)>>,
              <<Files!ArrowLine(<<"a">>)>>,
              <<Files!TextLine(<<"a">>), Files!BlankLine, Files!TextLine(<<"K">>)>>}
SomeFrames == {-1, 0, 12, 24000, 23987, 23988, 24 * 59999, 24000 * 3599 + 36}
SomeTimelines == Upto([lines : SomeTexts, frames : SomeFrames], 2)
=============================================================================
