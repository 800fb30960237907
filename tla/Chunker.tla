------------------------------- MODULE Chunker -------------------------------
(* Long lines of a plain-text script are divided so that each piece fits the *)
(* ceilings (src/gateway/src/text-chunker.ts).                               *)
(*                                                                           *)
(* A text is a sequence of symbols: a letter, a CJK character, a comma, the  *)
(* end of a sentence and a space. A divider is a set of places to cut after. *)
EXTENDS Sequences, SequencesExt, FiniteSetsExt, Ceilings

Letter == "a"
Han == "K"
Comma == ","
Stop == "!"
Space == " "
Symbols == {Letter, Han, Comma, Stop, Space}

Content(text) == SelectSeq(text, LAMBDA c : c # Space)

Trim(text) ==
    LET solid == {i \in DOMAIN text : text[i] # Space}
    IN IF solid = {} THEN <<>> ELSE SubSeq(text, Min(solid), Max(solid))

Count(text, symbols) == Cardinality({i \in DOMAIN text : text[i] \in symbols})

(* The shape of a trimmed text: a word is a run of letters of either kind.   *)
Shape(text) ==
    LET t == Trim(text)
        lettered(i) == i \in DOMAIN t /\ t[i] \in {Letter, Han}
    IN [cjk |-> Count(t, {Han}),
        other |-> Count(t, Symbols \ {Han}),
        words |-> Cardinality({i \in DOMAIN t : lettered(i) /\ ~lettered(i - 1)}),
        punct |-> Count(t, {Comma, Stop})]

-----------------------------------------------------------------------------
(* The dividers. Spaces stay with what goes before them.                     *)
Inner(text) == 1 .. Len(text) - 1

(* Some symbol of the set, then only spaces, up to place i.                  *)
EndsWith(text, symbols, i) ==
    \E j \in 1..i : text[j] \in symbols /\ \A k \in j+1..i : text[k] = Space

(* Intl.Segmenter: after the end of a sentence and its spaces.               *)
SentenceCuts(text) ==
    {i \in Inner(text) : /\ EndsWith(text, {Stop}, i)
                         /\ text[i + 1] \notin {Space, Stop, Comma}}

ClauseCuts(text) ==
    {i \in Inner(text) : EndsWith(text, {Comma}, i) /\ text[i + 1] # Space}

WordCuts(text) ==
    {i \in Inner(text) : /\ text[i] = Space /\ text[i + 1] # Space
                         /\ \E j \in 1..i : text[j] # Space}

CharacterCuts(text) == Inner(text)

Splitters == 4
Cuts(text, level) ==
    CASE level = 1 -> SentenceCuts(text) [] level = 2 -> ClauseCuts(text)
      [] level = 3 -> WordCuts(text) [] level = 4 -> CharacterCuts(text)

(* The pieces between one cut and the next.                                  *)
Pieces(text, cuts) ==
    LET bounds == SetToSortSeq({0, Len(text)} \cup cuts, <)
    IN [i \in 1 .. Len(bounds) - 1 |-> SubSeq(text, bounds[i] + 1, bounds[i + 1])]

(* Whether a text fits in place of that of a request.                        *)
FitsAs(asked, text) == FindCeilingBreach([asked EXCEPT !.text = Shape(text)]) = NoBreach

(* The coarsest pieces that fit: what does not fit is divided further, and a *)
(* piece of nothing but spaces is dropped.                                   *)
FittingPieces(text, asked) ==
    LET spoken(pieces) == SelectSeq(pieces, LAMBDA p : Trim(p) # <<>>)
        divide(pieces, level) ==
            FlattenSeq([i \in DOMAIN pieces |->
                IF FitsAs(asked, pieces[i]) THEN <<pieces[i]>>
                ELSE spoken(Pieces(pieces[i], Cuts(pieces[i], level)))])
    IN FoldLeft(divide, spoken(<<text>>), [level \in 1..Splitters |-> level])

(* Greedily, in order.                                                       *)
PackPieces(pieces, asked) ==
    LET add(packed, piece) ==
            IF packed.current = <<>> \/ FitsAs(asked, packed.current \o piece)
            THEN [packed EXCEPT !.current = @ \o piece]
            ELSE [chunks |-> Append(packed.chunks, Trim(packed.current)), current |-> piece]
        packed == FoldLeft(add, [chunks |-> <<>>, current |-> <<>>], pieces)
    IN IF Trim(packed.current) = <<>> THEN packed.chunks
       ELSE Append(packed.chunks, Trim(packed.current))

(* A line that fits, or of which some character alone does not, is kept.     *)
ChunkText(text, asked) ==
    LET line == Trim(text)
    IN IF line = <<>> THEN <<>>
       ELSE IF FitsAs(asked, line) \/ \E c \in Range(Content(line)) : ~FitsAs(asked, <<c>>)
            THEN <<line>>
       ELSE PackPieces(FittingPieces(line, asked), asked)
=============================================================================
