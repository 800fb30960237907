----------------------------- MODULE PcmStream -----------------------------
(***************************************************************************)
(* A speech response played as it arrives: the read loop of the streaming  *)
(* player (player.ts #playStreaming), the message port, and the worklet of *)
(* PcmRing at the other end.                                               *)
(*                                                                         *)
(* Bytes of the body are numbered from 1, so a sample is the pair of bytes *)
(* it was made of, and a pair of bytes that do not belong together would   *)
(* show.  The network cuts the body into chunks of any size, cuts it off,  *)
(* or lets it run ahead of the audio clock.                                *)
(***************************************************************************)
EXTENDS PcmRing

CONSTANTS
    Bytes,       \* length of the body
    MaxChunk,    \* largest chunk the network delivers
    Stops        \* may the owner stop the player

ASSUME StreamAssumption ==
    /\ Bytes \in Nat /\ MaxChunk \in Nat \ {0} /\ Stops \in BOOLEAN
    /\ Samples = (1..Bytes) \X (1..Bytes)

VARIABLES
    got,         \* bytes received
    carry,       \* the odd byte kept for the next chunk
    body,        \* "reading", "whole" (ended) or "broken"
    port,        \* messages on their way to the worklet
    graph,       \* the node is connected to an open context
    played,      \* ghost: every sample heard, in order
    dropped      \* ghost: the ring has lost a sample

main == <<got, carry, body, port, graph>>
streamVars == <<ringVars, main, played, dropped>>

StreamInit ==
    /\ RingInit
    /\ got = 0 /\ carry = <<>> /\ body = "reading" /\ port = <<>> /\ graph = TRUE
    /\ played = <<>> /\ dropped = FALSE
-----------------------------------------------------------------------------
(* alignSamples: whole samples, and the byte left over *)
Whole(bytes) == [k \in 1..(Len(bytes) \div 2) |-> <<bytes[2*k - 1], bytes[2*k]>>]

(* mutants: the odd byte is left out; what was played is kept as well *)
LeftOverNothing(bytes) == <<>>

LeftOverAll(bytes) == bytes

LeftOver(bytes) == SubSeq(bytes, Len(bytes) - (Len(bytes) % 2) + 1, Len(bytes))

Post(type, samples) == port' = Append(port, [type |-> type, samples |-> samples])

(* one chunk read, aligned and posted; a chunk without a whole sample is   *)
(* only carried                                                            *)
ReadChunk(n) ==
    /\ body = "reading" /\ got + n <= Bytes
    /\ got' = got + n
    /\ LET combined == carry \o [i \in 1..n |-> got + i]
       IN  /\ carry' = LeftOver(combined)
           /\ IF Whole(combined) = <<>> THEN UNCHANGED port
              ELSE Post("samples", Whole(combined))
    /\ UNCHANGED <<ringVars, body, graph, played, dropped>>

(* mutant: a read that throws leaves the worklet waiting *)
ReadOverUnsaid(how) ==
    /\ body = "reading" /\ (how = "whole" => got = Bytes)
    /\ body' = how
    /\ IF how = "whole" THEN Post("end", <<>>) ELSE UNCHANGED port
    /\ UNCHANGED <<ringVars, got, carry, graph, played, dropped>>

(* done, or the read throws: the clip is reported incomplete either way    *)
(* the worklet is told that no more is coming                              *)
ReadOver(how) ==
    /\ body = "reading" /\ (how = "whole" => got = Bytes)
    /\ body' = how
    /\ Post("end", <<>>)
    /\ UNCHANGED <<ringVars, got, carry, graph, played, dropped>>

(* stop(): reset, disconnect, close.  The read loop is not told. *)
Stop ==
    /\ Stops /\ graph
    /\ Post("reset", <<>>)
    /\ graph' = FALSE
    /\ UNCHANGED <<ringVars, got, carry, body, played, dropped>>
-----------------------------------------------------------------------------
Deliver ==
    /\ port # <<>>
    /\ \/ Head(port).type = "samples" /\ ReceiveSamples(Head(port).samples)
       \/ Head(port).type = "end" /\ ReceiveEnd
       \/ Head(port).type = "reset" /\ ReceiveReset
    /\ port' = Tail(port)
    /\ UNCHANGED <<got, carry, body, graph, played, dropped>>

(* the context renders a quantum *)
Render == graph /\ ProcessBegins /\ UNCHANGED <<main, played, dropped>>

Work ==
    /\ WorkletStep
    /\ played' = IF FillFrame /\ available > 0 /\ graph THEN Append(played, heard') ELSE played
    /\ dropped' = (dropped \/ (EnqueueNext /\ available = Capacity))
    /\ UNCHANGED main

StreamNext ==
    \/ \E n \in 1..MaxChunk : ReadChunk(n)
    \/ ReadOver("whole") \/ ReadOver("broken") \/ Stop
    \/ Deliver \/ Render \/ Work

StreamSpec == StreamInit /\ [][StreamNext]_streamVars

(* The network delivers, ends or breaks the body, a posted message is      *)
(* delivered, and a running context renders quantum after quantum.  The    *)
(* port is served between two quanta, however busy the clock.              *)
FairStream ==
    /\ StreamSpec
    /\ WF_streamVars(\E n \in 1..MaxChunk : ReadChunk(n))
    /\ WF_streamVars(ReadOver("whole")) /\ WF_streamVars(ReadOver("broken"))
    /\ SF_streamVars(Deliver) /\ WF_streamVars(Render) /\ WF_streamVars(Work)
-----------------------------------------------------------------------------
(* Every variable has its type. *)
StreamTypeOK ==
    /\ RingTypeOK
    /\ got \in 0..Bytes /\ carry \in Seq(1..Bytes) /\ Len(carry) <= 1
    /\ body \in {"reading", "whole", "broken"}
    /\ \A i \in DOMAIN port : port[i].type \in {"samples", "end", "reset"} /\ port[i].samples \in Seq(Samples)
    /\ graph \in BOOLEAN /\ dropped \in BOOLEAN
    /\ played \in Seq(Samples)

(* What is heard is the clip: only whole samples of it, in order, none     *)
(* twice, however the network cut the body (alignSamples keeps the odd     *)
(* byte, the ring its order); and the end is announced only when all of it *)
(* that arrived has been heard, unless the ring overran.                   *)
HeardInOrder ==
    /\ \A i \in DOMAIN played : played[i][1] % 2 = 1 /\ played[i][2] = played[i][1] + 1
    /\ \A i, j \in DOMAIN played : i < j => played[i][1] < played[j][1]
    /\ graph /\ ~ alive /\ ~ dropped => Len(played) = got \div 2

(* A stream that ends or breaks is played out, and the worklet says so,    *)
(* unless it is stopped.                                                   *)
PlayedOut == body # "reading" ~> ~ alive \/ ~ graph

(* player.ts onUnderrun: the buffer ran dry mid-clip.  So an underrun that *)
(* is reported is followed by more of the clip.                            *)
UnderrunIsMidClip ==
    [][underruns' # underruns /\ underruns' = 1
         => got < Bytes \/ \E i \in DOMAIN port : port[i].type = "samples"]_streamVars

(* pcm-processor.js: the buffer absorbs the jitter of the network.  So a   *)
(* stream that arrived whole is heard whole.                               *)
BurstsAbsorbed == graph /\ ~ alive /\ body = "whole" => Len(played) = Bytes \div 2
=============================================================================
