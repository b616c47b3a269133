----------------------------- MODULE RolloutDump -----------------------------
(***************************************************************************)
(* The rollouts that are kept for reading: what the trainer dumps of a     *)
(* step's batch, and the pairs that the offline analyses make of a dump.   *)
(* rs is the batch, in the order in which verl balanced it over the ranks: *)
(* a sequence of [uid, kind, session, ...], session as in the batch key.   *)
(***************************************************************************)
EXTENDS Integers, Sequences, FiniteSets, SequencesExt, FiniteSetsExt

\* Mutant: the loop stops before it takes the last group.
ChosenBefore(rs, maxGroups) ==
    LET uids == [i \in DOMAIN rs |-> rs[i].uid]
        Choose(chosen, u) == IF Len(chosen) + 1 >= maxGroups \/ Contains(chosen, u) THEN chosen ELSE Append(chosen, u)
    IN  FoldLeft(Choose, <<>>, uids)

\* The uids in the order of the batch, until there are maxGroups of them; the first one is taken
\* before that is asked.
Chosen(rs, maxGroups) ==
    LET uids == [i \in DOMAIN rs |-> rs[i].uid]
        Choose(chosen, u) ==
            IF (chosen # <<>> /\ Len(chosen) >= maxGroups) \/ Contains(chosen, u) THEN chosen ELSE Append(chosen, u)
    IN  FoldLeft(Choose, <<>>, uids)

DumpRows(rs, chosen) == {i \in DOMAIN rs : Contains(chosen, rs[i].uid)}

\* sort_key, and the order of the batch where two rows have the same one: the sort is stable.
GroupOf(chosen, r) == CHOOSE g \in DOMAIN chosen : chosen[g] = r.uid
Half(r) == IF r.kind = "std" THEN 0 ELSE 1
Precedes(rs, chosen, i, j) ==
    LET g == GroupOf(chosen, rs[i]) h == GroupOf(chosen, rs[j])
    IN  \/ g < h
        \/ g = h /\ Half(rs[i]) < Half(rs[j])
        \/ g = h /\ Half(rs[i]) = Half(rs[j]) /\ rs[i].session < rs[j].session
        \/ g = h /\ Half(rs[i]) = Half(rs[j]) /\ rs[i].session = rs[j].session /\ i < j

\* The n-th of the rows is the one with n - 1 before it.
DumpOrder(rs, chosen) ==
    LET rows == DumpRows(rs, chosen)
    IN  [n \in 1 .. Cardinality(rows) |->
            CHOOSE i \in rows : Cardinality({j \in rows : Precedes(rs, chosen, j, i)}) = n - 1]

\* _dump_sampled_groups: every row of those groups, by group, the standard ones first, by session.
DumpSampledGroups(rs, maxGroups) ==
    LET order == DumpOrder(rs, Chosen(rs, maxGroups)) IN [n \in DOMAIN order |-> rs[order[n]]]

\* analyze_rollouts.compute: the pairs of a group by the kinds of their rollouts, the standard one
\* first.
PairsOfKinds(dump, uid, first, second) ==
    {p \in (DOMAIN dump) \X (DOMAIN dump) :
        /\ p[1] < p[2] /\ dump[p[1]].uid = uid /\ dump[p[2]].uid = uid
        /\ <<dump[p[1]].kind, dump[p[2]].kind>> \in {<<first, second>>, <<second, first>>}}

\* similarity.compare_rollout_outputs: every CUTS output with every standard one of its prompt.
CrossPairs(dump, uid) ==
    {p \in (DOMAIN dump) \X (DOMAIN dump) :
        dump[p[1]].uid = uid /\ dump[p[2]].uid = uid /\ dump[p[1]].kind = "cuts" /\ dump[p[2]].kind = "std"}

----------------------------------------------------------------------------
\* "Dump dump_samples_per_step whole groups (std + CUTS siblings)": in whatever order the batch is,
\* as many groups as asked for (one if none), with all of their rollouts, each once; a group's lines
\* stand together and its standard half first; and the two
\* analyses compare the same pairs across the halves, none of them across groups.
DumpHoldsWholeGroups(rs, maxGroups) ==
    LET dump == DumpSampledGroups(rs, maxGroups)
        uids == {rs[i].uid : i \in DOMAIN rs}
        dumped == {dump[i].uid : i \in DOMAIN dump}
        Count(s, r) == Cardinality({i \in DOMAIN s : s[i] = r})
        OfKind(uid, kind) == Cardinality({i \in DOMAIN rs : rs[i].uid = uid /\ rs[i].kind = kind})
        most == IF maxGroups = 0 THEN 1 ELSE maxGroups
    IN  /\ Cardinality(dumped) = Min({most, Cardinality(uids)})
        /\ \A r \in ToSet(rs) : Count(dump, r) = IF r.uid \in dumped THEN Count(rs, r) ELSE 0
        /\ \A i, j \in DOMAIN dump :
              (i < j /\ dump[i].uid = dump[j].uid) =>
                 /\ \A m \in i .. j : dump[m].uid = dump[i].uid
                 /\ dump[j].kind = "std" => dump[i].kind = "std"
        /\ \A uid \in dumped :
              /\ Cardinality(CrossPairs(dump, uid)) = OfKind(uid, "std") * OfKind(uid, "cuts")
              /\ {{p[1], p[2]} : p \in CrossPairs(dump, uid)}
                   = {{p[1], p[2]} : p \in PairsOfKinds(dump, uid, "std", "cuts")}
=============================================================================
