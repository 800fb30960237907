--------------------------------- MODULE Vtt ---------------------------------
(* Script files (src/gateway/src/vtt.ts): WebVTT and plain text in, WebVTT   *)
(* out.                                                                      *)
(*                                                                           *)
(* A file is a sequence of lines. A line is blank, the header, the first     *)
(* word of a comment block, a timing with its two stamps, a text, or a text  *)
(* with an arrow in it that is no timing. A text is a sequence of symbols,   *)
(* as in Chunker, or of those and angle brackets. A stamp is its four        *)
(* fields; a time is a count of frames.                                      *)
EXTENDS Chunker

FramesPerMilli == 24
Second == 1000 * FramesPerMilli

BlankLine == [kind |-> "blank", text |-> <<>>]
HeaderLine == [kind |-> "header", text |-> <<Letter>>]
NoteLine == [kind |-> "note", text |-> <<Letter>>]
CountLine == [kind |-> "text", text |-> <<Letter>>]
TextLine(text) == [kind |-> "text", text |-> text]
ArrowLine(text) == [kind |-> "arrow", text |-> text]
TimingLine(from, to) == [kind |-> "timing", text |-> <<Letter>>, from |-> from, to |-> to]

Open == "<"
Close == ">"

Unread == [ok |-> FALSE]

(* Three digits of milliseconds at most, and clock fields in range.          *)
ParseTimestamp(stamp) ==
    IF stamp.m > 59 \/ stamp.s > 59 \/ stamp.ms > 999 \/ stamp.h > 999 THEN Unread
    ELSE [ok |-> TRUE,
          at |-> (stamp.h * 3600 + stamp.m * 60 + stamp.s) * Second
                 + stamp.ms * FramesPerMilli]

\* mutant: the milliseconds of the whole time, not of its last second
FormatTimestampWhole(time) ==
    [h |-> time \div (3600 * Second), m |-> (time % (3600 * Second)) \div (60 * Second),
     s |-> (time % (60 * Second)) \div Second,
     ms |-> (time + FramesPerMilli \div 2) \div FramesPerMilli]

(* The milliseconds are rounded on their own, so they can come to 1000.      *)
FormatTimestamp(time) ==
    [h |-> time \div (3600 * Second), m |-> (time % (3600 * Second)) \div (60 * Second),
     s |-> (time % (60 * Second)) \div Second,
     ms |-> ((time % Second) + FramesPerMilli \div 2) \div FramesPerMilli]

-----------------------------------------------------------------------------
(* Blocks are the stretches between blank lines.                             *)
Blocks(lines) ==
    LET solid(i) == i \in DOMAIN lines /\ lines[i].kind # "blank"
        first == {i \in DOMAIN lines : solid(i) /\ ~solid(i - 1)}
        last(i) == Min({j \in i .. Len(lines) : ~solid(j + 1)})
        starts == SetToSortSeq(first, <)
    IN [b \in DOMAIN starts |-> SubSeq(lines, starts[b], last(starts[b]))]

Stamps(block) == {i \in DOMAIN block : block[i].kind = "timing"}

Spaced(a, b) == IF a = <<>> THEN b ELSE a \o <<Space>> \o b

(* Where a tag stands: an angle bracket, something and the first bracket     *)
(* that closes it.                                                           *)
Tagged(text) ==
    LET tag(i, j) == /\ text[i] = Open /\ text[j] = Close /\ i + 1 < j
                     /\ \A k \in i + 1 .. j - 1 : text[k] # Close
    IN {p \in DOMAIN text : \E i \in 1..p, j \in p..Len(text) : tag(i, j)}

Untagged(text) ==
    LET kept == SetToSortSeq(DOMAIN text \ Tagged(text), <)
    IN [k \in DOMAIN kept |-> text[kept[k]]]

(* The lines after the timing, with a space between them and no tag.         *)
BlockText(block) ==
    Trim(Untagged(FoldLeft(Spaced, <<>>,
                  [i \in 1 .. Len(block) - Min(Stamps(block)) |->
                      block[Min(Stamps(block)) + i].text])))

NoTime == -1
Cue(text, start, end) == [text |-> text, start |-> start, end |-> end]
Skipped == [is |-> "skipped"]
Problem(block) == [is |-> "problem", block |-> block]

(* One block: skipped, a problem the operator is shown, or a cue.            *)
ReadBlock(block, first) ==
    LET timing == block[Min(Stamps(block))]
        from == ParseTimestamp(timing.from)
        to == ParseTimestamp(timing.to)
    IN IF (first /\ block[1].kind = "header") \/ block[1].kind = "note" THEN Skipped
       ELSE IF Stamps(block) = {} THEN Problem(block)
       ELSE IF ~from.ok \/ ~to.ok THEN Problem(block)
       ELSE IF to.at < from.at \/ BlockText(block) = <<>> THEN Problem(block)
       ELSE [is |-> "cue", cue |-> Cue(BlockText(block), from.at, to.at)]

ParseVtt(lines) ==
    LET blocks == Blocks(lines)
        read == [b \in DOMAIN blocks |-> ReadBlock(blocks[b], b = 1)]
        cues == SelectSeq(read, LAMBDA r : r.is = "cue")
        problems == SelectSeq(read, LAMBDA r : r.is = "problem")
    IN [cues |-> [i \in DOMAIN cues |-> cues[i].cue],
        problems |-> [i \in DOMAIN problems |-> problems[i].block]]

ParsePlainText(lines) ==
    LET texts == SelectSeq([i \in DOMAIN lines |-> Trim(lines[i].text)],
                           LAMBDA text : text # <<>>)
    IN [cues |-> [i \in DOMAIN texts |-> Cue(texts[i], NoTime, NoTime)], problems |-> <<>>]

(* By the header, by the name or by any arrow.                               *)
LooksLikeVtt(lines, named) ==
    \/ named
    \/ \E i \in DOMAIN lines : lines[i].kind \in {"timing", "arrow"}
    \/ \E i \in DOMAIN lines : /\ lines[i].kind = "header"
                               /\ \A j \in 1 .. i - 1 : lines[j].kind = "blank"

ParseScriptFile(lines, named) ==
    IF LooksLikeVtt(lines, named)
    THEN [format |-> "vtt"] @@ ParseVtt(lines)
    ELSE [format |-> "text"] @@ ParsePlainText(lines)

-----------------------------------------------------------------------------
(* Cues as they are exported: the lines of a text and the frames it lasts.   *)
Starts(cues, gap) ==
    [i \in DOMAIN cues |->
        FoldLeft(LAMBDA at, cue : at + cue.frames + gap, 0, SubSeq(cues, 1, i - 1))]

(* Every cue begins where the one before it ended, and the gap later.        *)
EmitVtt(cues, gap) ==
    LET start == Starts(cues, gap)
        block(i) == <<CountLine, TimingLine(FormatTimestamp(start[i]),
                                            FormatTimestamp(start[i] + cues[i].frames))>>
                    \o cues[i].lines \o <<BlankLine>>
    IN <<HeaderLine, BlankLine>> \o FlattenSeq([i \in DOMAIN cues |-> block(i)])
=============================================================================
