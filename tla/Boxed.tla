------------------------------- MODULE Boxed -------------------------------
(***************************************************************************)
(* mixed_cuts/boxed.py: the content of the last \boxed{...} of a response. *)
(* A response is a sequence of "box" (a \boxed with its brace), "open" and *)
(* "close" (the other braces), and "x", anything else.                     *)
(***************************************************************************)
EXTENDS Integers, Sequences, FiniteSets, FiniteSetsExt

None == <<"none">>

Opens(c) == c \in {"box", "open"}
Starts(text) == {i \in DOMAIN text : text[i] = "box"}

\* The brace depth after each place from start on.
Depth(text, start) ==
    LET depth[i \in start .. Len(text)] ==
            (IF i = start THEN 0 ELSE depth[i - 1])
              + (IF Opens(text[i]) THEN 1 ELSE IF text[i] = "close" THEN -1 ELSE 0)
    IN  depth

\* Mutant: the first closing brace ends the box.
ClosesAtFirst(text, start) == {i \in start .. Len(text) : text[i] = "close"}

\* Where the box that starts at start may end.
Closes(text, start) == {i \in start .. Len(text) : Depth(text, start)[i] = 0}

LastBoxedContent(text) ==
    IF Starts(text) = {} THEN None
    ELSE LET start == Max(Starts(text))
         IN  IF Closes(text, start) = {} THEN None
             ELSE SubSeq(text, start + 1, Min(Closes(text, start)) - 1)

----------------------------------------------------------------------------
Count(text, i, c) == Cardinality({j \in 1 .. i : text[j] \in c})
IsBalanced(text) ==
    /\ \A i \in DOMAIN text : Count(text, i, {"close"}) <= Count(text, i, {"open", "box"})
    /\ Count(text, Len(text), {"close"}) = Count(text, Len(text), {"open", "box"})

\* The content is the balanced text between the last box and a brace that follows it, and it is
\* None only where there is no such text.
ContentIsBalanced(text) ==
    LET boxed == {p \in Starts(text) \X (DOMAIN text) :
                    /\ p[1] < p[2] /\ text[p[2]] = "close"
                    /\ \A k \in Starts(text) : k <= p[1]
                    /\ IsBalanced(SubSeq(text, p[1] + 1, p[2] - 1))}
    IN  IF boxed = {} THEN LastBoxedContent(text) = None
        ELSE \A p \in boxed : LastBoxedContent(text) = SubSeq(text, p[1] + 1, p[2] - 1)
=============================================================================
