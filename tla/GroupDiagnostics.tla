-------------------------- MODULE GroupDiagnostics --------------------------
(***************************************************************************)
(* mixed_cuts/diagnostics.py: what the metrics say of the prompt groups of *)
(* one step.  rs is the sequence of its rollouts, [uid, kind, reward], the *)
(* reward in whole units of which One are a full reward.  Fractions are    *)
(* kept as numerators: a variance over n rollouts is n^2 times itself.     *)
(***************************************************************************)
EXTENDS Integers, Sequences, FiniteSets, FiniteSetsExt

CONSTANTS One
ASSUME DiagnosticsAssumption == One \in Nat \ {0}

Total(rs, I) == MapThenSumSet(LAMBDA i : rs[i].reward, I)
Squares(rs, I) == MapThenSumSet(LAMBDA i : rs[i].reward * rs[i].reward, I)

\* var(ddof=0), times |I|^2.
Variance(rs, I) == Cardinality(I) * Squares(rs, I) - Total(rs, I) * Total(rs, I)

IsCollapsed(rs, I) == I # {} /\ Variance(rs, I) = 0

Groups(rs) == {{i \in DOMAIN rs : rs[i].uid = u} : u \in {rs[i].uid : i \in DOMAIN rs}}
OfKind(rs, I, kind) == {i \in I : rs[i].kind = kind}

\* 0.25 (mu_std - mu_cuts)^2 times 4 |S|^2 |C|^2, and the residual times (|S|+|C|)^2 as well.
Between(rs, S, C) ==
    LET d == Total(rs, S) * Cardinality(C) - Total(rs, C) * Cardinality(S) IN d * d
IdentityResidual(rs, S, C) ==
    LET s == Cardinality(S) c == Cardinality(C)
    IN  4 * s * s * c * c * Variance(rs, S \cup C)
          - (s + c) * (s + c) * (2 * (Variance(rs, S) * c * c + Variance(rs, C) * s * s)
                                   + Between(rs, S, C))

\* Mutant: a group is saved when its standard rollouts or its CUTS rollouts collapsed.
SavedEither(rs, I) ==
    /\ IsCollapsed(rs, OfKind(rs, I, "std")) \/ IsCollapsed(rs, OfKind(rs, I, "cuts"))
    /\ ~IsCollapsed(rs, I)

\* The standard rollouts alone collapsed, but the mixed group did not.
Saved(rs, I) == IsCollapsed(rs, OfKind(rs, I, "std")) /\ ~IsCollapsed(rs, I)

\* The group-level counts of compute_group_diagnostics.
Diagnostics(rs) ==
    LET groups == Groups(rs)
        std(I) == OfKind(rs, I, "std")
        cuts(I) == OfKind(rs, I, "cuts")
        collapsed == {I \in groups : IsCollapsed(rs, I)}
        first(I) == rs[CHOOSE i \in I : \A j \in I : i <= j].reward
        both == {I \in groups : std(I) # {} /\ cuts(I) # {}}
    IN  [nGroups |-> Cardinality(groups),
         nCollapsed |-> Cardinality(collapsed),
         nAllCorrect |-> Cardinality({I \in collapsed : first(I) = One}),
         nAllWrong |-> Cardinality({I \in collapsed : first(I) = 0}),
         nStdCollapsed |-> Cardinality({I \in groups : IsCollapsed(rs, std(I))}),
         nCutsCollapsed |-> Cardinality({I \in groups : IsCollapsed(rs, cuts(I))}),
         nBoth |-> Cardinality(both),
         nSaved |-> Cardinality({I \in both : Saved(rs, I)}),
         nRolloutsInCollapsed |-> Cardinality(UNION collapsed),
         n |-> Len(rs)]

----------------------------------------------------------------------------
\* The D1 detector.  tokens are those of a batch: whether the rollout is CUTS, the place of the
\* token in the response, whether the mask has it, and its old log-prob: j for -log(j), else 0.

\* Mutant: the protected prefix is checked as well.
CheckedAll(tokens, tWarm) == {i \in DOMAIN tokens : tokens[i].cuts /\ tokens[i].mask}

\* CUTS was inactive in the first tWarm places.
Checked(tokens, tWarm) ==
    {i \in DOMAIN tokens : tokens[i].cuts /\ tokens[i].mask /\ tokens[i].at > tWarm}

Hits(tokens, tWarm, k, kMin) == {i \in Checked(tokens, tWarm) : tokens[i].lp \in kMin .. k}

\* _recomputed_logprob_check at the first step.
Alarm(tokens, tWarm, k) ==
    LET n == Cardinality(Checked(tokens, tWarm))
    IN  n > 0 /\ 2 * Cardinality(Hits(tokens, tWarm, k, 2)) > n

----------------------------------------------------------------------------
\* Eq. 5 holds exactly for an even split.
HalvesHaveNoResidual(rs) ==
    \A I \in Groups(rs) :
        LET S == OfKind(rs, I, "std") C == OfKind(rs, I, "cuts")
        IN  Cardinality(S) = Cardinality(C) => IdentityResidual(rs, S, C) = 0

\* frac_groups_saved_by_cuts counts the groups in which the standard rollouts agree and a CUTS
\* rollout differs from them.
SavedMeansCutsDiffers(rs) ==
    Diagnostics(rs).nSaved =
        Cardinality({I \in Groups(rs) :
            \E r \in 0 .. One :
                /\ OfKind(rs, I, "std") # {}
                /\ \A i \in OfKind(rs, I, "std") : rs[i].reward = r
                /\ \E i \in OfKind(rs, I, "cuts") : rs[i].reward # r})

\* With rewards 0 and 1 the two collapse modes are all there are, and the rollouts outside
\* collapsed groups are those with a non-zero advantage.
UtilizationIsGradient(rs) ==
    (\A i \in DOMAIN rs : rs[i].reward \in {0, One}) =>
        LET d == Diagnostics(rs)
        IN  /\ d.nCollapsed = d.nAllCorrect + d.nAllWrong
            /\ d.n - d.nRolloutsInCollapsed =
                 Cardinality({i \in DOMAIN rs : \E I \in Groups(rs) :
                                i \in I /\ rs[i].reward * Cardinality(I) # Total(rs, I)})

\* If the engine's log-probs leak, those of the tokens drawn by CUTS are -log of their set's size:
\* every one is counted with k_min 1, and the alarm is raised when most sets have two members.
LeakIsSeen(tokens, tWarm, k) ==
    (\A i \in DOMAIN tokens : tokens[i].lp # 0 <=> tokens[i].cuts /\ tokens[i].at > tWarm) =>
        LET drawn == {i \in DOMAIN tokens : tokens[i].mask /\ tokens[i].lp # 0}
        IN  /\ Hits(tokens, tWarm, k, 1) = drawn
            /\ Alarm(tokens, tWarm, k) <=>
                 Cardinality({i \in drawn : tokens[i].lp >= 2}) > Cardinality({i \in drawn : tokens[i].lp = 1})
=============================================================================
