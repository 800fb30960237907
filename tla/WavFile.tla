------------------------------- MODULE WavFile -------------------------------
(* WAV files as the gateway writes, recognises, reads and reduces them       *)
(* (src/gateway/src/transport.ts, reference.ts, reference-slice.ts).         *)
(*                                                                           *)
(* A file is its container and, for a WAV, its chunks in order. A chunk      *)
(* declares a size in bytes; "fmt" also carries the format and "data" the    *)
(* loudness of its frames. The last chunk may be cut short. The format chunk *)
(* comes first and has 16 bytes, so that the second chunk declares its size  *)
(* at byte 40.                                                               *)
EXTENDS Integers, Sequences, SequencesExt, FiniteSetsExt

Rejected == [ok |-> FALSE]
PcmTag == 1
FloatTag == 3
TargetRate == 24000

Fmt(tag, channels, rate, bits) ==
    [id |-> "fmt", size |-> 16, tag |-> tag, channels |-> channels, rate |-> rate, bits |-> bits]
Data(bytes, frames) == [id |-> "data", size |-> bytes, frames |-> frames]
List(bytes) == [id |-> "LIST", size |-> bytes]
Wav(chunks, whole) == [container |-> "wav", chunks |-> chunks, whole |-> whole]
Other(container) == [container |-> container, chunks |-> <<>>, whole |-> TRUE]

(* X-Sample-Rate and X-Sample-Format of the vendor's answer; 0 and "none"    *)
(* stand for a header that is absent or is not a number.                     *)
ParseAudioFormat(rate, format) ==
    IF rate \in 8000..192000 /\ format = "s16le"
    THEN [ok |-> TRUE, tag |-> PcmTag, channels |-> 1, rate |-> rate, bits |-> 16]
    ELSE Rejected

(* The 44 bytes that go before the audio: both chunks' headers.              *)
WavHeader(format, bytes) ==
    <<Fmt(PcmTag, format.channels, format.rate, format.bits), Data(bytes, <<>>)>>

FrameWav(frames, format) ==
    LET bytes == Len(frames) * format.channels * (format.bits \div 8)
        header == WavHeader(format, bytes)
    IN Wav(<<header[1], [header[2] EXCEPT !.frames = frames]>>, TRUE)

(* The header at its canonical offsets: the size is whatever the second      *)
(* chunk declares, be it the audio or not.                                   *)
ReadWavHeader(wav) ==
    IF wav.container # "wav" \/ Len(wav.chunks) < 2 THEN Rejected
    ELSE IF wav.chunks[1].tag # PcmTag THEN Rejected
    ELSE [ok |-> TRUE, channels |-> wav.chunks[1].channels, rate |-> wav.chunks[1].rate,
          bits |-> wav.chunks[1].bits, bytes |-> wav.chunks[2].size]

(* Seconds, as a fraction: bytes over bytes per second.                      *)
DurationSeconds(bytes, header) ==
    [bytes |-> bytes, perSecond |-> header.rate * header.channels * (header.bits \div 8)]

(* Units of 40 ms, rounded up.                                               *)
Units(duration) == (duration.bytes * 25 + duration.perSecond - 1) \div duration.perSecond

-----------------------------------------------------------------------------
(* What is recognised, and what is converted first.                          *)
IsConformingWav(wav) ==
    LET fmt == wav.chunks[1]
    IN /\ Len(wav.chunks) >= 2
       /\ \/ fmt.tag = PcmTag /\ fmt.bits \in {16, 24, 32}
          \/ fmt.tag = FloatTag /\ fmt.bits = 32

Known == {"wav", "webm", "ogg", "flac", "aiff", "mp4", "mp3"}

DetectAudio(file) ==
    IF file.container \in Known
    THEN [container |-> file.container,
          conforming |-> file.container = "wav" /\ IsConformingWav(file)]
    ELSE [container |-> "unknown", conforming |-> FALSE]

(* ffmpeg: one channel of 16-bit samples at the target rate, behind a chunk  *)
(* of metadata unless it is told to leave it out. decoded is what it hears.  *)
Converted(decoded, rate) ==
    LET bytes == 2 * Len(decoded)
    IN Wav(<<Fmt(PcmTag, 1, rate, 16), List(26), Data(bytes, decoded)>>, TRUE)

NormaliseReference(file, decoded, ffmpeg) ==
    LET found == DetectAudio(file)
    IN IF file.container = "empty" \/ found.container = "unknown" THEN Rejected
       ELSE IF found.conforming THEN [ok |-> TRUE, wav |-> file]
       ELSE IF ffmpeg = "works" THEN [ok |-> TRUE, wav |-> Converted(decoded, TargetRate)]
       ELSE Rejected

\* mutant: the second chunk is taken for the audio
ParseWavPcmFixed(wav) ==
    IF wav.container # "wav" \/ Len(wav.chunks) < 2 \/ ~wav.whole THEN Rejected
    ELSE [ok |-> TRUE, channels |-> wav.chunks[1].channels, rate |-> wav.chunks[1].rate,
          bits |-> wav.chunks[1].bits, bytes |-> wav.chunks[2].size, frames |-> <<>>]

(* Every chunk is walked: the last format and the first audio count.         *)
ParseWavPcm(wav) ==
    LET at(id) == {i \in DOMAIN wav.chunks : wav.chunks[i].id = id}
        fmt == wav.chunks[Max(at("fmt"))]
        data == wav.chunks[Min(at("data"))]
    IN IF wav.container # "wav" \/ ~wav.whole THEN Rejected
       ELSE IF at("fmt") = {} \/ at("data") = {} THEN Rejected
       ELSE IF fmt.channels = 0 \/ fmt.rate = 0 THEN Rejected
       ELSE IF <<fmt.tag, fmt.bits>> \notin (({PcmTag} \X {16, 24, 32}) \cup {<<FloatTag, 32>>})
            THEN Rejected
       ELSE IF data.size % (fmt.channels * (fmt.bits \div 8)) # 0 THEN Rejected
       ELSE [ok |-> TRUE, channels |-> fmt.channels, rate |-> fmt.rate, bits |-> fmt.bits,
             bytes |-> data.size, frames |-> data.frames]

(* One peak to a bucket; bucket b holds the frames from b*n/buckets up.      *)
PeaksFrom(frames, buckets) ==
    LET n == Len(frames)
        first(b) == (b * n) \div buckets
    IN [b \in 1..buckets |->
           Max({0} \cup {frames[i] : i \in first(b - 1) + 1 .. first(b)})]
=============================================================================
