---------------------------- MODULE MicroBatches ----------------------------
(***************************************************************************)
(* mixed_cuts/microbatch_patch.py: sequences sorted by length and cut into *)
(* micro-batches that fit the token budget once padded to their longest,   *)
(* unless the patch steps aside and verl partitions them.                  *)
(***************************************************************************)
EXTENDS Naturals, Sequences, FiniteSets, SequencesExt

\* Mutant: the new sequence is not counted.
PlaceOneMore(parts, i, lengths, budget) ==
    IF parts # <<>> /\ lengths[i] * Len(Last(parts)) <= budget
      THEN Append(Front(parts), Append(Last(parts), i))
      ELSE Append(parts, <<i>>)

\* Indices by length, then by position: the n-th is the one with n - 1 before it.
Before(lengths, i, j) == lengths[i] < lengths[j] \/ (lengths[i] = lengths[j] /\ i < j)
Order(lengths) ==
    [n \in DOMAIN lengths |->
        CHOOSE i \in DOMAIN lengths : Cardinality({j \in DOMAIN lengths : Before(lengths, j, i)}) = n - 1]

\* i joins the current micro-batch, of which it is the longest, if that still fits.
Place(parts, i, lengths, budget) ==
    IF parts # <<>> /\ lengths[i] * (Len(Last(parts)) + 1) <= budget
      THEN Append(Front(parts), Append(Last(parts), i))
      ELSE Append(parts, <<i>>)

SortedPartitions(lengths, budget) ==
    Reverse(FoldLeft(LAMBDA parts, i : Place(parts, i, lengths, budget), <<>>, Order(lengths)))

\* Why verl's own partition is used.
StepsAside(args) ==
    \/ args.removePadding
    \/ args.groupSize # 1
    \/ args.fixedCount
    \/ args.ranks > 1

Applies(args, lengths, budget) ==
    ~StepsAside(args) /\ \A i \in DOMAIN lengths : lengths[i] <= budget

----------------------------------------------------------------------------
Longest(I, lengths) == CHOOSE n \in {lengths[i] : i \in I} : \A i \in I : lengths[i] <= n
Fits(I, lengths, budget) == Cardinality(I) * Longest(I, lengths) <= budget

\* Every sequence is in exactly one micro-batch, and every micro-batch fits the budget padded.
EachOnceAndFitting(args, lengths, budget) ==
    Applies(args, lengths, budget) =>
        LET parts == SortedPartitions(lengths, budget)
        IN  /\ \A i \in DOMAIN lengths :
                 Cardinality({p \in (DOMAIN parts) \X (DOMAIN lengths) :
                                p[2] \in DOMAIN parts[p[1]] /\ parts[p[1]][p[2]] = i}) = 1
            /\ \A m \in DOMAIN parts : Fits(ToSet(parts[m]), lengths, budget)

\* No way to distribute the sequences needs fewer micro-batches.
Fewest(args, lengths, budget) ==
    Applies(args, lengths, budget) =>
        LET fewer == Len(SortedPartitions(lengths, budget)) - 1
        IN  ~ \E into \in [DOMAIN lengths -> 1 .. fewer] :
                \A m \in {into[i] : i \in DOMAIN lengths} :
                    Fits({i \in DOMAIN lengths : into[i] = m}, lengths, budget)
=============================================================================
