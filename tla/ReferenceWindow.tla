--------------------------- MODULE ReferenceWindow ---------------------------
(* The window of a reference recording: how the browser moves it             *)
(* (src/ui/src/state/reference.ts) and how the gateway snaps and checks the  *)
(* interval it is sent (src/gateway/src/reference-slice.ts, references.ts).  *)
(*                                                                           *)
(* Times are integers (hundredths of a second, say): the code compares and   *)
(* subtracts them. A word is its interval; its text is its identity, and a   *)
(* transcript is the set of words it names, which the code lists in the      *)
(* order Before.                                                             *)
EXTENDS Integers

Timed(w) == w.start >= 0 /\ w.end >= w.start
ValidWords(words) == {w \in words : Timed(w)}
Before(w, v) == w.start < v.start \/ (w.start = v.start /\ w.end <= v.end)

Distance(x, y) == IF x < y THEN y - x ELSE x - y
Least(x, y) == IF x < y THEN x ELSE y
Most(x, y) == IF x < y THEN y ELSE x

(* The closest value, the smaller of two as close.                           *)
Nearest(values, target) ==
    CHOOSE v \in values : \A u \in values :
        \/ Distance(v, target) < Distance(u, target)
        \/ Distance(v, target) = Distance(u, target) /\ v <= u

FirstOf(words) == CHOOSE w \in words : \A v \in words : Before(w, v)
LastOf(words) == CHOOSE w \in words : \A v \in words : Before(v, w)
Starts(words) == {w.start : w \in words}
Ends(words) == {w.end : w \in words}

(* The transcript of an interval: only words it holds whole.                 *)
Contained(words, start, end) == {w \in words : w.start >= start /\ w.end <= end}

-----------------------------------------------------------------------------
(* The browser. A selection is a window of a recording; max is the measured  *)
(* or conservative limit.                                                    *)
Ceiling(duration, max) == Least(duration, max)
MaxStart(duration, max) == Most(0, duration - Ceiling(duration, max))
Usable(words, duration) == {w \in ValidWords(words) : w.end <= duration}

Eligible(words, start, latest) == {w \in words : w.end > start /\ w.end <= latest}

\* mutant: a word that runs past the limit is still an end
EndOfOverrunning(words, start, latest) ==
    LET ends == {w \in words : w.end > start /\ w.start < latest}
    IN IF ends = {} THEN latest ELSE LastOf(ends).end

(* The last word in order that ends inside the limit, or the limit itself.   *)
EndOf(words, start, latest) ==
    LET ends == Eligible(words, start, latest)
    IN IF ends = {} THEN latest ELSE LastOf(ends).end

StartOf(words, target, maximum) ==
    LET candidates == {s \in Starts(words) : s <= maximum}
    IN IF words = {} THEN target
       ELSE IF candidates = {} THEN FirstOf(words).start
       ELSE Nearest(candidates, target)

Move(recording, target, max) ==
    LET duration == recording.duration
        maximum == MaxStart(duration, max)
        words == Usable(recording.words, duration)
        start == StartOf(words, Most(0, Least(target, maximum)), maximum)
        latest == Least(duration, start + Ceiling(duration, max))
        end == IF words = {} THEN latest ELSE EndOf(words, start, latest)
    IN [start |-> start, end |-> end, transcript |-> Contained(words, start, end)]

(* One key press moves to the word before or after, in order. The code finds *)
(* the first of the words whose start is closest to the window's.            *)
Nudge(recording, window, direction, max) ==
    LET maximum == MaxStart(recording.duration, max)
        words == {w \in Usable(recording.words, recording.duration) : w.start <= maximum}
        close == {w \in words : \A v \in words :
                     Distance(w.start, window.start) <= Distance(v.start, window.start)}
        current == FirstOf(close)
        beyond == {w \in words : w # current /\ IF direction = 1 THEN Before(current, w)
                                               ELSE Before(w, current)}
        next == IF beyond = {} THEN current
                ELSE IF direction = 1 THEN FirstOf(beyond) ELSE LastOf(beyond)
    IN Move(recording, IF words = {} THEN window.start + direction ELSE next.start, max)

(* What the operator may send: no longer than the limit, and not silent.     *)
Blocked(window, max) == window.transcript = {} \/ window.end - window.start > max

-----------------------------------------------------------------------------
(* The gateway. Starts snap to starts and ends to ends; when they cross, the *)
(* word closest to the middle is taken whole.                                *)
Middle(w) == w.start + w.end

Closest(words, start, end) ==
    LET close == {w \in words : \A v \in words :
                     Distance(Middle(w), start + end) <= Distance(Middle(v), start + end)}
    IN FirstOf(close)

SliceTranscript(words, start, end) ==
    LET ordered == ValidWords(words)
        from == Nearest(Starts(ordered), start)
        to == Nearest(Ends(ordered), end)
        one == Closest(ordered, start, end)
        lo == IF from >= to THEN one.start ELSE from
        hi == IF from >= to THEN one.end ELSE to
    IN IF ordered = {} THEN [start |-> start, end |-> end, transcript |-> {}]
       ELSE [start |-> lo, end |-> hi, transcript |-> Contained(ordered, lo, hi)]

InRecording(start, end, duration) == start >= 0 /\ end > start /\ end <= duration

(* ReferenceStore.window, up to the cut: what is refused, and what is cut.   *)
Accepts(recording, start, end, max) ==
    LET slice == SliceTranscript(recording.words, start, end)
    IN /\ InRecording(start, end, recording.duration)
       /\ InRecording(slice.start, slice.end, recording.duration)
       /\ slice.end - slice.start <= max
=============================================================================
