---------------------------- MODULE EvalScoring ----------------------------
(***************************************************************************)
(* mc_eval/scoring.py: the metrics of one problem from its samples.  An    *)
(* answer is a model value or Blank; Norm gives its normal form, and equal *)
(* is the relation that math-verify answers, which need not be symmetric   *)
(* or transitive.                                                          *)
(***************************************************************************)
EXTENDS Naturals, Sequences, FiniteSets, FiniteSetsExt, SequencesExt

CONSTANTS
    Blank,   \* None, or nothing but white space
    Norm     \* normalize_answer_string: a function on the answers

----------------------------------------------------------------------------
\* 1 - prod (n - c - i) / (n - i), as a pair of numerator and denominator.
Falling(m, k) == FoldLeft(LAMBDA acc, i : acc * (m + 1 - i), 1, [i \in 1 .. k |-> i])

\* Mutant: draws with replacement.
PassAtKReplaced(n, c, k) ==
    LET all == FoldLeft(LAMBDA acc, i : acc * n, 1, [i \in 1 .. k |-> i])
    IN  <<all - FoldLeft(LAMBDA acc, i : acc * (n - c), 1, [i \in 1 .. k |-> i]), all>>

PassAtK(n, c, k) == IF n - c < k THEN <<1, 1>> ELSE <<Falling(n, k) - Falling(n - c, k), Falling(n, k)>>

----------------------------------------------------------------------------
\* Mutant: an answer also joins a blank one.
VotesAny(a, rep, equal) == rep = Blank \/ Norm[a] = Norm[rep] \/ <<rep, a>> \in equal

\* A cluster is the sequence of its samples; its first one stands for it.
Votes(a, rep, equal) == rep # Blank /\ (Norm[a] = Norm[rep] \/ <<rep, a>> \in equal)

\* Sample i joins the first cluster whose representative equals it.
PlaceAnswer(clusters, i, answers, equal) ==
    LET fit == {m \in DOMAIN clusters : Votes(answers[i], answers[clusters[m][1]], equal)}
    IN  IF answers[i] = Blank \/ fit = {}
          THEN Append(clusters, <<i>>)
          ELSE [clusters EXCEPT ![Min(fit)] = Append(@, i)]

ClusterAnswers(answers, equal) ==
    FoldLeft(LAMBDA clusters, i : PlaceAnswer(clusters, i, answers, equal), <<>>,
             [i \in DOMAIN answers |-> i])

\* The largest cluster, the earliest of equal ones.
Largest(clusters) ==
    CHOOSE m \in DOMAIN clusters : \A j \in DOMAIN clusters :
        Len(clusters[j]) < Len(clusters[m]) \/ (Len(clusters[j]) = Len(clusters[m]) /\ m <= j)

MajorityAnswer(answers, equal) ==
    LET clusters == ClusterAnswers(answers, equal)
        best == clusters[Largest(clusters)]
    IN  [answer |-> answers[best[1]], size |-> Len(best)]

----------------------------------------------------------------------------
\* pass@k is the share of the k-subsets of the samples that hold a correct one.
PassAtKCounts(n, c, k) ==
    LET draws == kSubset(k, 1 .. n)
        wins == {D \in draws : \E i \in D : i <= c}
        p == PassAtK(n, c, k)
    IN  p[1] * Cardinality(draws) = p[2] * Cardinality(wins)

\* Every sample votes once, and a blank one for nothing, whatever relation math-verify answers.
OneVoteEach(answers, equal) ==
    LET clusters == ClusterAnswers(answers, equal)
        voters == {p \in (DOMAIN clusters) \X (DOMAIN answers) : p[2] \in DOMAIN clusters[p[1]]}
    IN  /\ {clusters[v[1]][v[2]] : v \in voters} = DOMAIN answers
        /\ Cardinality(voters) = Len(answers)
        /\ \A m \in DOMAIN clusters :
             (\E n \in DOMAIN clusters[m] : answers[clusters[m][n]] = Blank) => Len(clusters[m]) = 1

\* Where equality is an equivalence the majority answer is one that no other answer outvotes,
\* and of those the one that was given first.
MajorityIsMostVoted(answers, equal) ==
    LET same(a, b) == Norm[a] = Norm[b] \/ <<a, b>> \in equal
        agree(i) == IF answers[i] = Blank THEN {i}
                    ELSE {j \in DOMAIN answers : answers[j] # Blank /\ same(answers[i], answers[j])}
        winners == {i \in DOMAIN answers : \A j \in DOMAIN answers :
                      Cardinality(agree(j)) <= Cardinality(agree(i))}
    IN  (\A i, j \in DOMAIN answers : j \in agree(i) => agree(i) = agree(j)) =>
            MajorityAnswer(answers, equal) =
                [answer |-> answers[Min(winners)], size |-> Cardinality(agree(Min(winners)))]
=============================================================================
