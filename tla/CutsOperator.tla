---------------------------- MODULE CutsOperator ----------------------------
(***************************************************************************)
(* The CUTS operator of cuts/operator.py on one row of logits.  A row is a *)
(* function from tokens to probabilities, in whole units: softmax keeps    *)
(* the order of the logits and that is all the operator looks at, next to  *)
(* the threshold.  Of equal probabilities torch.topk may take any.         *)
(***************************************************************************)
EXTENDS Naturals, FiniteSets

AtMost(n, m) == IF n < m THEN n ELSE m

\* SELECT
TopK(row, k) ==
    {S \in SUBSET DOMAIN row :
        /\ Cardinality(S) = AtMost(k, Cardinality(DOMAIN row))
        /\ \A t \in S : \A u \in DOMAIN row \ S : row[u] <= row[t]}

\* Mutant: the last column for the first.
ArgmaxesLast(row, S) == {t \in S : \A u \in S : row[t] <= row[u]}

\* FILTER
Survive(row, S, delta) == {t \in S : row[t] >= delta}

\* Column 0 of the sorted top-K.
Argmaxes(row, S) == {t \in S : \A u \in S : row[u] <= row[t]}

\* EQUALIZE: the survivors get the same logit, every other token the lowest one.
Result(S, emptied) == [survivors |-> S, setSize |-> Cardinality(S), usedFallback |-> emptied]

\* What cuts_transform may return for an active row.
CutsTransform(row, p) ==
    UNION {LET passed == Survive(row, S, p.delta)
           IN  IF passed # {} THEN {Result(passed, FALSE)}
               ELSE IF p.fallback = "topk" THEN {Result(S, TRUE)}
               ELSE {Result({t}, TRUE) : t \in Argmaxes(row, S)} : S \in TopK(row, p.k)}

----------------------------------------------------------------------------
\* No token that is dropped is likelier than one that survives, and something survives.
LikeliestSurvive(row, p) ==
    \A r \in CutsTransform(row, p) :
        /\ r.survivors # {}
        /\ \A t \in r.survivors : \A u \in DOMAIN row \ r.survivors : row[u] <= row[t]

\* The statistics say of the whole row, whichever of equal tokens topk took, how many tokens
\* reach delta, up to k, and whether none does.
StatsAreOfTheRow(row, p) ==
    LET reach == Cardinality({t \in DOMAIN row : row[t] >= p.delta})
        k == AtMost(p.k, Cardinality(DOMAIN row))
    IN  \A r \in CutsTransform(row, p) :
            /\ r.usedFallback = (reach = 0)
            /\ r.setSize = IF reach > 0 THEN AtMost(reach, k)
                           ELSE IF p.fallback = "topk" THEN k ELSE 1
=============================================================================
