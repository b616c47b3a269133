--------------------------- MODULE BoundedWorkers ---------------------------
(***************************************************************************)
(* What _VerifyPool promises its callers (src/src/mixed_cuts/reward.py):   *)
(* each pool has a fixed number of workers, a job occupies one of them     *)
(* from the moment it is admitted until it is over, and a job is admitted  *)
(* only while a worker is free, so an admitted job never queues.           *)
(***************************************************************************)
EXTENDS Naturals, FiniteSets

CONSTANTS Jobs,     \* who may occupy a worker
          Pools,    \* the pools that may ever exist
          Workers   \* workers per pool

VARIABLE busy       \* busy[p]: the jobs that occupy a worker of pool p

Init == busy = [p \in Pools |-> {}]

Admit(p, j) ==
    /\ j \notin busy[p]
    /\ Cardinality(busy[p]) < Workers
    /\ busy' = [busy EXCEPT ![p] = @ \cup {j}]

Release(p, j) ==
    /\ j \in busy[p]
    /\ busy' = [busy EXCEPT ![p] = @ \ {j}]

Next == \E p \in Pools, j \in Jobs : Admit(p, j) \/ Release(p, j)

Spec == Init /\ [][Next]_busy
=============================================================================
