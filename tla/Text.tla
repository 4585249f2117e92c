--------------------------------- MODULE Text ---------------------------------
(* Names as text: sequences of ASCII bytes, labels with dots between them;    *)
(* and parts of any sequence.                                                 *)
EXTENDS Naturals, Sequences, SequencesExt, FiniteSetsExt

Dot == 46

\* to_lowercase.
Lower(text) == [i \in DOMAIN text |->
                  IF text[i] \in 65..90 THEN text[i] + 32 ELSE text[i]]

\* trim_end_matches('.').
TrimDots(text) ==
    LET kept == {i \in DOMAIN text : text[i] # Dot}
    IN  IF kept = {} THEN <<>> ELSE SubSeq(text, 1, Max(kept))

\* The k-th number of a set, in order.
Nth(set, k) == CHOOSE c \in set : Cardinality({b \in set : b < c}) = k - 1

\* retain, filter: what stands at some places of a sequence, in order.
Retain(items, places) ==
    [k \in 1..Cardinality(places) |-> items[Nth(places, k)]]

\* Where the dots of a text are, and where it begins and ends.
Cuts(text) == {i \in DOMAIN text : text[i] = Dot} \cup {0, Len(text) + 1}

\* split('.'): what is between the dots of a text.
Pieces(text) ==
    LET cut(k) == Nth(Cuts(text), k)
    IN  [k \in 1..(Cardinality(Cuts(text)) - 1) |->
            SubSeq(text, cut(k) + 1, cut(k + 1) - 1)]

\* join("."): labels with dots between them.
Joined(labels) ==
    FlattenSeq([k \in DOMAIN labels |->
        IF k = 1 THEN labels[k] ELSE <<Dot>> \o labels[k]])
===============================================================================
