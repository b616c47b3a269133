-------------------------- MODULE VerifyPoolProofs --------------------------
(***************************************************************************)
(* Theorems about VerifyPool, for every number of threads, workers, pools, *)
(* calls and deaths.  The invariant is built in layers, each proved from   *)
(* the layers below it:                                                    *)
(*   TypeCore   the types, without the upper bound of the semaphores;      *)
(*   Places     which pool a thread may hold where it stands, and whose    *)
(*              comparisons may still run in which pool;                   *)
(*   Permits, replacements, refusals and scores, on top of those.          *)
(***************************************************************************)
EXTENDS VerifyPool, FiniteSetTheorems, TLAPS

\* From Acquire to the end of the attempt the thread holds a pool.
Holding == {"submit", "wait", "discard", "discard_stuck", "shutdown", "terminate"}

\* TypeOK without the bound on `idle`, which needs PermitsConserved; with the fact that
\* the pool a thread uses is not None.
TypeCore ==
    /\ pool \in {NoPool} \cup Pools /\ restarts \in Nat /\ closings \in Nat
    /\ lastPool \in {NoPool} \cup Pools
    /\ idle \in [Pools -> Nat]
    /\ future \in [Pools -> [Threads -> {"none"} \cup Answers \cup Done]]
    /\ dead \subseteq Pools /\ terminated \subseteq Pools
    /\ broken \subseteq Pools /\ closed \subseteq Pools /\ deaths \in Nat
    /\ pc \in [Threads -> Locations]
    /\ mine \in [Threads -> {NoPool} \cup Pools]
    /\ attempt \in [Threads -> {1, 2}]
    /\ answer \in [Threads -> Answers]
    /\ lost \in [Threads -> SUBSET Pools]
    /\ outcome \in [Threads -> [score : BOOLEAN, why : Reasons]]
    /\ calls \in Nat
    /\ \A t \in Threads : pc[t] \in Holding => mine[t] # NoPool

\* Where a thread holds a pool: never before GetPoolReturn, always after Acquire.
Holds(t) ==
    /\ mine[t] <= lastPool
    /\ pc[t] \in {"out", "check", "create", "return"} => mine[t] = NoPool
    /\ pc[t] \in {"shutdown", "terminate"} => mine[t] # pool

\* A running comparison belongs to the call its thread is in, or was abandoned in a pool
\* that has been replaced and that the thread will never hold again.
Belongs(p, t) ==
    Running(p, t) =>
        /\ p <= lastPool
        /\ \/ mine[t] = p /\ pc[t] \in {"wait", "discard_stuck", "terminate"}
           \/ mine[t] # p /\ p # pool

Places ==
    /\ pool <= lastPool
    /\ \A t \in Threads : Holds(t)
    /\ \A p \in Pools, t \in Threads : Belongs(p, t)

-----------------------------------------------------------------------------
LEMMA PoolFacts ==
    /\ NoPool \notin Pools
    /\ {NoPool} \cup Pools \subseteq Nat
    /\ \A p \in {NoPool} \cup Pools : p \in Nat /\ NoPool <= p
    /\ \A a \in Answers : a \notin {"none"} \cup Done
    /\ Answers # {}
BY AnswersAssumption, BoundsAssumption DEF Pools, NoPool, AllAnswers, Done

LEMMA TypeCoreInit == Init => TypeCore
<1> SUFFICES ASSUME Init PROVE TypeCore
    OBVIOUS
<1>1. (CHOOSE a \in Answers : TRUE) \in Answers
    BY PoolFacts
<1>2. outcome \in [Threads -> [score : BOOLEAN, why : Reasons]]
    BY DEF Init, Reasons
<1>3. /\ pc \in [Threads -> Locations]
      /\ idle \in [Pools -> Nat]
      /\ future \in [Pools -> [Threads -> {"none"} \cup Answers \cup Done]]
      /\ answer \in [Threads -> Answers]
    BY <1>1, WorkersAssumption DEF Init, Locations
<1>4. /\ mine \in [Threads -> {NoPool} \cup Pools]
      /\ attempt \in [Threads -> {1, 2}]
      /\ lost \in [Threads -> SUBSET Pools]
    BY DEF Init
<1>5. \A t \in Threads : pc[t] \in Holding => mine[t] # NoPool
    BY DEF Init, Holding
<1>. QED
    BY <1>2, <1>3, <1>4, <1>5 DEF Init, TypeCore, NoPool

LEMMA ReturnTypes ==
    ASSUME NEW t \in Threads, NEW s \in BOOLEAN, NEW w \in Reasons, TypeCore, Return(t, s, w)
    PROVE  /\ pc' \in [Threads -> Locations]
           /\ mine' \in [Threads -> {NoPool} \cup Pools]
           /\ outcome' \in [Threads -> [score : BOOLEAN, why : Reasons]]
           /\ \A u \in Threads : pc'[u] \in Holding => mine'[u] # NoPool
<1>1. [score |-> s, why |-> w] \in [score : BOOLEAN, why : Reasons]
    OBVIOUS
<1>. QED
    BY <1>1 DEF TypeCore, Return, GoTo, Locations, Holding

LEMMA NextAttemptTypes ==
    ASSUME NEW t \in Threads, TypeCore, NextAttempt(t), mine[t] # NoPool
    PROVE  /\ pc' \in [Threads -> Locations]
           /\ mine' \in [Threads -> {NoPool} \cup Pools]
           /\ outcome' \in [Threads -> [score : BOOLEAN, why : Reasons]]
           /\ attempt' \in [Threads -> {1, 2}]
           /\ lost' \in [Threads -> SUBSET Pools]
           /\ \A u \in Threads : pc'[u] \in Holding => mine'[u] # NoPool
<1>1. attempt' \in [Threads -> {1, 2}] /\ lost' \in [Threads -> SUBSET Pools]
    BY DEF TypeCore, NextAttempt
<1>2. CASE attempt[t] = 1
    BY <1>1, <1>2, ZenonT(60) DEF TypeCore, NextAttempt, GoTo, Locations, Holding
<1>3. CASE attempt[t] # 1
    <2>1. Return(t, FALSE, "died twice")
        BY <1>3 DEF NextAttempt
    <2>. QED
        BY <1>1, <2>1, ReturnTypes DEF Reasons
<1>. QED
    BY <1>2, <1>3

LEMMA TypeCoreStep == TypeCore /\ [Next]_vars => TypeCore'
<1> SUFFICES ASSUME TypeCore, [Next]_vars PROVE TypeCore'
    OBVIOUS
<1> USE DEF TypeCore, poolVars, execVars, callVars
<1>1. ASSUME NEW t \in Threads, Call(t) PROVE TypeCore'
    BY <1>1 DEF Call, GoTo, Locations, Holding
<1>2. ASSUME NEW t \in Threads, GetPoolCheck(t) PROVE TypeCore'
    BY <1>2 DEF GetPoolCheck, GoTo, Locations, Holding
<1>3. ASSUME NEW t \in Threads, GetPoolCreate(t) PROVE TypeCore'
    BY <1>3, BoundsAssumption DEF GetPoolCreate, GoTo, Locations, Holding, Pools, NoPool
<1>4. ASSUME NEW t \in Threads, GetPoolReturn(t) PROVE TypeCore'
    BY <1>4 DEF GetPoolReturn, GoTo, Locations, Holding
<1>5. ASSUME NEW t \in Threads, SubmitToNone(t) PROVE TypeCore'
    BY <1>5, ReturnTypes DEF SubmitToNone, Reasons
<1>6. ASSUME NEW t \in Threads, Acquire(t) PROVE TypeCore'
    BY <1>6 DEF Acquire, GoTo, Locations, Holding
<1>7. ASSUME NEW t \in Threads, SubmitAccepted(t) PROVE TypeCore'
    BY <1>7 DEF SubmitAccepted, GoTo, Locations, Holding
<1>8. ASSUME NEW t \in Threads, SubmitBroken(t) PROVE TypeCore'
    BY <1>8 DEF SubmitBroken, ReleasePermit, GoTo, Locations, Holding
<1>9. ASSUME NEW t \in Threads, SubmitRefused(t) PROVE TypeCore'
    <2>1. idle' \in [Pools -> Nat]
        BY <1>9 DEF SubmitRefused, ReleasePermit
    <2>. QED
        BY <1>9, <2>1, ReturnTypes DEF SubmitRefused, Reasons
<1>10. ASSUME NEW t \in Threads, FutureResult(t) PROVE TypeCore'
    BY <1>10, ReturnTypes DEF FutureResult, Reasons
<1>11. ASSUME NEW t \in Threads, FutureBroken(t) PROVE TypeCore'
    BY <1>11 DEF FutureBroken, GoTo, Locations, Holding
<1>12. ASSUME NEW t \in Threads, FutureTimeout(t) PROVE TypeCore'
    BY <1>12 DEF FutureTimeout, GoTo, Locations, Holding
<1>13. ASSUME NEW t \in Threads, DiscardBroken(t) PROVE TypeCore'
    <2>1. CASE Replace(mine[t]) /\ GoTo(t, "shutdown")
                 /\ UNCHANGED <<mine, attempt, lost, outcome>>
        BY <1>13, <2>1 DEF DiscardBroken, Replace, GoTo, Locations, Holding
    <2>2. CASE NextAttempt(t) /\ UNCHANGED <<pool, restarts>>
        BY <1>13, <2>2, NextAttemptTypes DEF DiscardBroken, Holding
    <2>. QED
        BY <1>13, <2>1, <2>2 DEF DiscardBroken
<1>14. ASSUME NEW t \in Threads, ShutdownBroken(t) PROVE TypeCore'
    BY <1>14, NextAttemptTypes DEF ShutdownBroken, Holding
<1>15. ASSUME NEW t \in Threads, DiscardStuck(t) PROVE TypeCore'
    <2>1. CASE Replace(mine[t]) /\ GoTo(t, "terminate") /\ UNCHANGED <<mine, outcome>>
        BY <1>15, <2>1 DEF DiscardStuck, Replace, GoTo, Locations, Holding
    <2>2. CASE Return(t, FALSE, "timeout") /\ UNCHANGED <<pool, restarts>>
        BY <1>15, <2>2, ReturnTypes DEF DiscardStuck, Reasons
    <2>. QED
        BY <1>15, <2>1, <2>2 DEF DiscardStuck
<1>16. ASSUME NEW t \in Threads, TerminateStuck(t) PROVE TypeCore'
    BY <1>16, ReturnTypes DEF TerminateStuck, StopStuckPool, Reasons, Holding
<1>17. ASSUME NEW p \in Pools, NEW t \in Threads, FinishComparison(p, t) PROVE TypeCore'
    BY <1>17, AnswersAssumption
    DEF FinishComparison, ReleasePermit, Verdict, Running, Done, AllAnswers
<1>18. ASSUME NEW p \in Pools, NEW t \in Threads, KillWorker(p, t) PROVE TypeCore'
    BY <1>18 DEF KillWorker
<1>19. ASSUME NEW p \in Pools, NEW t \in Threads, FailFuture(p, t) PROVE TypeCore'
    BY <1>19 DEF FailFuture, ReleasePermit, Done
<1>20. ASSUME NEW p \in Pools, WorkerDies(p) PROVE TypeCore'
    BY <1>20 DEF WorkerDies
<1>21. ASSUME NEW p \in Pools, MarkBroken(p) PROVE TypeCore'
    BY <1>21 DEF MarkBroken
<1>22. CASE ShutdownPool
    BY <1>22 DEF ShutdownPool
<1>23. CASE UNCHANGED vars
    BY <1>23 DEF vars
<1>. QED
    BY <1>1, <1>2, <1>3, <1>4, <1>5, <1>6, <1>7, <1>8, <1>9, <1>10, <1>11, <1>12,
       <1>13, <1>14, <1>15, <1>16, <1>17, <1>18, <1>19, <1>20, <1>21, <1>22, <1>23
    DEF Next, ThreadStep, SubmitRaises, ExecutorStep

THEOREM TypeCoreAlways == Spec => []TypeCore
BY TypeCoreInit, TypeCoreStep, PTL DEF Spec

-----------------------------------------------------------------------------
LEMMA PlacesInit == Init => Places
BY PoolFacts DEF Init, Places, Holds, Belongs, Running, Done, NoPool

\* Return forgets the pool: it must not leave a comparison running in the current one.
LEMMA ReturnPlaces ==
    ASSUME NEW t \in Threads, NEW s, NEW w, TypeCore, Places, Return(t, s, w),
           UNCHANGED <<poolVars, future>>,
           \A p \in Pools : Running(p, t) => p # pool
    PROVE  Places'
BY PoolFacts DEF TypeCore, Places, Holds, Belongs, Running, Return, GoTo, poolVars

LEMMA NextAttemptPlaces ==
    ASSUME NEW t \in Threads, TypeCore, Places, NextAttempt(t),
           UNCHANGED <<poolVars, future>>, mine[t] # pool,
           \A p \in Pools : Running(p, t) => p # pool
    PROVE  Places'
<1>1. CASE attempt[t] = 1
    <2>1. /\ pc' = [pc EXCEPT ![t] = "check"] /\ mine' = [mine EXCEPT ![t] = NoPool]
          /\ UNCHANGED <<future, pool, lastPool>>
        BY <1>1 DEF NextAttempt, GoTo, poolVars
    <2>2. pool \in Nat /\ lastPool \in Nat /\ NoPool <= lastPool /\ pool <= lastPool
        BY PoolFacts DEF TypeCore, Places
    <2>3. \A u \in Threads : Holds(u)'
        BY <2>1, <2>2 DEF TypeCore, Places, Holds
    <2>4. \A p \in Pools, u \in Threads : Belongs(p, u)'
        BY <2>1, PoolFacts DEF TypeCore, Places, Belongs, Running
    <2>. QED
        BY <2>1, <2>2, <2>3, <2>4 DEF Places
<1>2. CASE attempt[t] # 1
    BY <1>2, ReturnPlaces DEF NextAttempt
<1>. QED
    BY <1>1, <1>2

LEMMA PlacesStep == TypeCore /\ TypeCore' /\ Places /\ [Next]_vars => Places'
<1> SUFFICES ASSUME TypeCore, TypeCore', Places, [Next]_vars PROVE Places'
    OBVIOUS
<1> USE PoolFacts DEF poolVars, execVars, callVars, GoTo, TypeCore, Places, Holds, Belongs, Running
<1>1. ASSUME NEW t \in Threads, Call(t) PROVE Places'
    BY <1>1 DEF Call
<1>2. ASSUME NEW t \in Threads, GetPoolCheck(t) PROVE Places'
    BY <1>2 DEF GetPoolCheck
<1>3. ASSUME NEW t \in Threads, GetPoolCreate(t) PROVE Places'
    <2>1. CASE pool = NoPool
        <3>1. lastPool' = lastPool + 1 /\ pool' = lastPool + 1 /\ lastPool \in Nat
            BY <1>3, <2>1 DEF GetPoolCreate, NoPool
        <3>2. ASSUME NEW u \in Threads PROVE Holds(u)'
            <4>1. mine[u] \in Nat
                OBVIOUS
            <4>3. mine[u] <= lastPool /\ mine' = mine
                BY <1>3 DEF GetPoolCreate
            <4>2. pc'[u] = pc[u] \/ (pc'[u] = "return" /\ pc[u] = "create")
                BY <1>3 DEF GetPoolCreate
            <4>. QED
                BY <3>1, <4>1, <4>2, <4>3
        <3>3. \A p \in Pools, u \in Threads : Belongs(p, u)'
            BY <1>3, <3>1 DEF GetPoolCreate, NoPool
        <3>. QED
            BY <3>1, <3>2, <3>3
    <2>2. CASE pool # NoPool
        BY <1>3, <2>2 DEF GetPoolCreate
    <2>. QED
        BY <2>1, <2>2
<1>4. ASSUME NEW t \in Threads, GetPoolReturn(t) PROVE Places'
    BY <1>4 DEF GetPoolReturn
<1>5. ASSUME NEW t \in Threads, SubmitToNone(t) PROVE Places'
    BY <1>5, ReturnPlaces DEF SubmitToNone
<1>6. ASSUME NEW t \in Threads, Acquire(t) PROVE Places'
    BY <1>6 DEF Acquire
<1>7. ASSUME NEW t \in Threads, SubmitAccepted(t) PROVE Places'
    BY <1>7 DEF SubmitAccepted
<1>8. ASSUME NEW t \in Threads, SubmitBroken(t) PROVE Places'
    BY <1>8 DEF SubmitBroken
<1>9. ASSUME NEW t \in Threads, SubmitRefused(t) PROVE Places'
    BY <1>9, ReturnPlaces DEF SubmitRefused
<1>10. ASSUME NEW t \in Threads, FutureResult(t) PROVE Places'
    BY <1>10, ReturnPlaces DEF FutureResult, Done
<1>11. ASSUME NEW t \in Threads, FutureBroken(t) PROVE Places'
    BY <1>11 DEF FutureBroken, Done
<1>12. ASSUME NEW t \in Threads, FutureTimeout(t) PROVE Places'
    BY <1>12 DEF FutureTimeout
<1>13. ASSUME NEW t \in Threads, DiscardBroken(t) PROVE Places'
    <2>1. CASE Replace(mine[t]) /\ GoTo(t, "shutdown")
                 /\ UNCHANGED <<mine, attempt, lost, outcome>>
        BY <1>13, <2>1 DEF DiscardBroken, Replace, NoPool, Holding
    <2>2. CASE pool # mine[t] /\ NextAttempt(t) /\ UNCHANGED <<pool, restarts>>
        BY <1>13, <2>2, NextAttemptPlaces DEF DiscardBroken
    <2>. QED
        BY <1>13, <2>1, <2>2 DEF DiscardBroken
<1>14. ASSUME NEW t \in Threads, ShutdownBroken(t) PROVE Places'
    BY <1>14, NextAttemptPlaces DEF ShutdownBroken
<1>15. ASSUME NEW t \in Threads, DiscardStuck(t) PROVE Places'
    <2>1. CASE Replace(mine[t]) /\ GoTo(t, "terminate") /\ UNCHANGED <<mine, outcome>>
        BY <1>15, <2>1 DEF DiscardStuck, Replace, NoPool, Holding
    <2>2. CASE pool # mine[t] /\ Return(t, FALSE, "timeout") /\ UNCHANGED <<pool, restarts>>
        <3>1. \A p \in Pools : Running(p, t) => p # pool
            BY <1>15, <2>2 DEF DiscardStuck
        <3>2. UNCHANGED <<poolVars, future>>
            BY <1>15, <2>2 DEF DiscardStuck
        <3>. QED
            BY <2>2, <3>1, <3>2, ReturnPlaces
    <2>. QED
        BY <1>15, <2>1, <2>2 DEF DiscardStuck
<1>16. ASSUME NEW t \in Threads, TerminateStuck(t) PROVE Places'
    <2>1. \A p \in Pools : Running(p, t) => p # pool
        BY <1>16 DEF TerminateStuck
    <2>. QED
        BY <1>16, <2>1, ReturnPlaces DEF TerminateStuck
<1>17. ASSUME NEW p \in Pools, NEW t \in Threads, FinishComparison(p, t) PROVE Places'
    BY <1>17, AnswersAssumption DEF FinishComparison, Verdict, Done, AllAnswers
<1>18. ASSUME NEW p \in Pools, NEW t \in Threads, KillWorker(p, t) PROVE Places'
    BY <1>18 DEF KillWorker
<1>19. ASSUME NEW p \in Pools, NEW t \in Threads, FailFuture(p, t) PROVE Places'
    BY <1>19 DEF FailFuture, Done
<1>20. ASSUME NEW p \in Pools, WorkerDies(p) PROVE Places'
    BY <1>20 DEF WorkerDies
<1>21. ASSUME NEW p \in Pools, MarkBroken(p) PROVE Places'
    BY <1>21 DEF MarkBroken
<1>22. CASE ShutdownPool
    BY <1>22 DEF ShutdownPool, NoPool
<1>23. CASE UNCHANGED vars
    BY <1>23 DEF vars
<1>. QED
    BY <1>1, <1>2, <1>3, <1>4, <1>5, <1>6, <1>7, <1>8, <1>9, <1>10, <1>11, <1>12,
       <1>13, <1>14, <1>15, <1>16, <1>17, <1>18, <1>19, <1>20, <1>21, <1>22, <1>23
    DEF Next, ThreadStep, SubmitRaises, ExecutorStep

THEOREM PlacesAlways == Spec => [](TypeCore /\ Places)
<1>1. TypeCore /\ Places /\ [Next]_vars => (TypeCore /\ Places)'
    BY TypeCoreStep, PlacesStep
<1>. QED
    BY <1>1, TypeCoreInit, PlacesInit, PTL DEF Spec

-----------------------------------------------------------------------------
(* Permits: every step keeps the occupied workers, or one thread takes a   *)
(* permit and a worker, or one gives both back.                            *)

Keeps == idle' = idle /\ \A p \in Pools : Occupied(p)' = Occupied(p)

Takes(p, t) ==
    /\ idle[p] > 0 /\ idle' = [idle EXCEPT ![p] = @ - 1]
    /\ t \notin Occupied(p) /\ Occupied(p)' = Occupied(p) \cup {t}
    /\ \A q \in Pools \ {p} : Occupied(q)' = Occupied(q)

Gives(p, t) ==
    /\ idle' = [idle EXCEPT ![p] = @ + 1]
    /\ t \in Occupied(p) /\ Occupied(p)' = Occupied(p) \ {t}
    /\ \A q \in Pools \ {p} : Occupied(q)' = Occupied(q)

\* A thread that moves between two places outside `submit` changes no occupation.
LEMMA MoveKeeps ==
    ASSUME NEW t \in Threads, UNCHANGED <<idle, future>>, pc[t] # "submit",
           pc \in [Threads -> Locations], \E l \in Locations \ {"submit"} : GoTo(t, l),
           \A u \in Threads \ {t} : mine'[u] = mine[u]
    PROVE  Keeps
BY DEF Keeps, Occupied, Running, GoTo, Locations

LEMMA StepKinds ==
    TypeCore /\ Places /\ [Next]_vars =>
        Keeps \/ \E p \in Pools, t \in Threads : Takes(p, t) \/ Gives(p, t)
<1> SUFFICES ASSUME TypeCore, Places, [Next]_vars
             PROVE  Keeps \/ \E p \in Pools, t \in Threads : Takes(p, t) \/ Gives(p, t)
    OBVIOUS
<1> USE PoolFacts DEF poolVars, execVars, callVars
<1>0. /\ pc \in [Threads -> Locations] /\ mine \in [Threads -> {NoPool} \cup Pools]
      /\ idle \in [Pools -> Nat]
      /\ future \in [Pools -> [Threads -> {"none"} \cup Answers \cup Done]]
    BY DEF TypeCore
<1>1. ASSUME NEW t \in Threads, Call(t) PROVE Keeps
    BY <1>0, <1>1, MoveKeeps DEF Call, Locations
<1>2. ASSUME NEW t \in Threads, GetPoolCheck(t) PROVE Keeps
    BY <1>0, <1>2, MoveKeeps DEF GetPoolCheck, Locations
<1>3. ASSUME NEW t \in Threads, GetPoolCreate(t) PROVE Keeps
    BY <1>0, <1>3, MoveKeeps DEF GetPoolCreate, Locations
<1>4. ASSUME NEW t \in Threads, GetPoolReturn(t) PROVE Keeps
    BY <1>0, <1>4, MoveKeeps DEF GetPoolReturn, Locations
<1>5. ASSUME NEW t \in Threads, SubmitToNone(t) PROVE Keeps
    BY <1>0, <1>5, MoveKeeps DEF SubmitToNone, Return, Locations
<1>6. ASSUME NEW t \in Threads, Acquire(t) PROVE Takes(mine[t], t) /\ mine[t] \in Pools
    <2>1. mine[t] \in Pools /\ ~Running(mine[t], t)
        BY <1>0, <1>6 DEF Acquire, Places, Belongs
    <2>. QED
        BY <1>0, <1>6, <2>1 DEF Acquire, Takes, Occupied, Running, GoTo
<1>7. ASSUME NEW t \in Threads, SubmitAccepted(t) PROVE Keeps
    <2>1. mine[t] \in Pools /\ answer[t] \in Answers
        BY <1>0, <1>7 DEF SubmitAccepted, TypeCore, Holding
    <2>. QED
        BY <1>0, <1>7, <2>1 DEF SubmitAccepted, Keeps, Occupied, Running, GoTo
<1>8. ASSUME NEW t \in Threads, SubmitBroken(t) PROVE Gives(mine[t], t) /\ mine[t] \in Pools
    <2>1. mine[t] \in Pools /\ ~Running(mine[t], t)
        BY <1>0, <1>8, SMTT(30) DEF SubmitBroken, Places, Belongs, TypeCore, Holding
    <2>. QED
        BY <1>0, <1>8, <2>1 DEF SubmitBroken, ReleasePermit, Gives, Occupied, Running, GoTo
<1>9. ASSUME NEW t \in Threads, SubmitRefused(t) PROVE \E p \in Pools : Gives(p, t)
    <2>1. PICK p \in Pools : p = mine[t]
        BY <1>0, <1>9 DEF SubmitRefused, TypeCore, Holding
    <2>2. ~Running(p, t)
        BY <1>0, <1>9, <2>1 DEF SubmitRefused, Places, Belongs
    <2>3. Gives(p, t)
        BY <1>0, <1>9, <2>1, <2>2
        DEF SubmitRefused, ReleasePermit, Gives, Occupied, Running, Return, GoTo
    <2>. QED
        BY <2>3
<1>10. ASSUME NEW t \in Threads, FutureResult(t) PROVE Keeps
    BY <1>0, <1>10, MoveKeeps DEF FutureResult, Return, Locations
<1>11. ASSUME NEW t \in Threads, FutureBroken(t) PROVE Keeps
    BY <1>0, <1>11, MoveKeeps DEF FutureBroken, Locations
<1>12. ASSUME NEW t \in Threads, FutureTimeout(t) PROVE Keeps
    BY <1>0, <1>12, MoveKeeps DEF FutureTimeout, Locations
<1>13. ASSUME NEW t \in Threads, DiscardBroken(t) PROVE Keeps
    BY <1>0, <1>13, MoveKeeps DEF DiscardBroken, NextAttempt, Return, Locations
<1>14. ASSUME NEW t \in Threads, ShutdownBroken(t) PROVE Keeps
    BY <1>0, <1>14, MoveKeeps DEF ShutdownBroken, NextAttempt, Return, Locations
<1>15. ASSUME NEW t \in Threads, DiscardStuck(t) PROVE Keeps
    BY <1>0, <1>15, MoveKeeps DEF DiscardStuck, Return, Locations
<1>16. ASSUME NEW t \in Threads, TerminateStuck(t) PROVE Keeps
    BY <1>0, <1>16, MoveKeeps DEF TerminateStuck, Return, Locations
<1>17. ASSUME NEW p \in Pools, NEW t \in Threads, FinishComparison(p, t) PROVE Gives(p, t)
    <2>1. Verdict(future[p][t]) \in Done
        BY <1>17, AnswersAssumption DEF FinishComparison, Running, Verdict, AllAnswers, Done
    <2>2. ~(pc[t] = "submit" /\ mine[t] = p) /\ Running(p, t)
        BY <1>17 DEF FinishComparison, Places, Belongs
    <2>3. /\ future' = [future EXCEPT ![p][t] = Verdict(@)]
          /\ UNCHANGED <<pc, mine>> /\ idle' = [idle EXCEPT ![p] = @ + 1]
        BY <1>17 DEF FinishComparison, ReleasePermit
    <2>4. \A q \in Pools, u \in Threads :
             Running(q, u)' <=> (Running(q, u) /\ ~(q = p /\ u = t))
        BY <1>0, <2>1, <2>3 DEF Running
    <2>. QED
        BY <1>0, <2>2, <2>3, <2>4 DEF Gives, Occupied
<1>18. ASSUME NEW p \in Pools, NEW t \in Threads, KillWorker(p, t) PROVE Keeps
    BY <1>18 DEF KillWorker, Keeps, Occupied, Running
<1>19. ASSUME NEW p \in Pools, NEW t \in Threads, FailFuture(p, t) PROVE Gives(p, t)
    <2>2. ~(pc[t] = "submit" /\ mine[t] = p)
        BY <1>19 DEF FailFuture, Places, Belongs
    <2>. QED
        BY <1>0, <1>19, <2>2 DEF FailFuture, ReleasePermit, Gives, Occupied, Running, Done
<1>20. ASSUME NEW p \in Pools, WorkerDies(p) PROVE Keeps
    BY <1>20 DEF WorkerDies, Keeps, Occupied, Running
<1>21. ASSUME NEW p \in Pools, MarkBroken(p) PROVE Keeps
    BY <1>21 DEF MarkBroken, Keeps, Occupied, Running
<1>22. CASE ShutdownPool
    BY <1>22 DEF ShutdownPool, Keeps, Occupied, Running
<1>23. CASE UNCHANGED vars
    BY <1>23 DEF vars, Keeps, Occupied, Running
<1>. QED
    BY <1>1, <1>2, <1>3, <1>4, <1>5, <1>6, <1>7, <1>8, <1>9, <1>10, <1>11, <1>12,
       <1>13, <1>14, <1>15, <1>16, <1>17, <1>18, <1>19, <1>20, <1>21, <1>22, <1>23
    DEF Next, ThreadStep, SubmitRaises, ExecutorStep

LEMMA OccupiedFinite ==
    \A p \in Pools : IsFiniteSet(Occupied(p)) /\ Cardinality(Occupied(p)) \in Nat
BY ThreadsAssumption, FS_Subset, FS_CardinalityType DEF Occupied

LEMMA PermitsInit == Init => PermitsConserved
<1> SUFFICES ASSUME Init, NEW p \in Pools
             PROVE  idle[p] + Cardinality(Occupied(p)) = Workers
    BY DEF PermitsConserved
<1>1. Occupied(p) = {}
    BY PoolFacts DEF Init, Occupied, Running
<1>. QED
    BY <1>1, FS_EmptySet, WorkersAssumption DEF Init

LEMMA PermitsStep ==
    TypeCore /\ Places /\ PermitsConserved /\ [Next]_vars => PermitsConserved'
<1> SUFFICES ASSUME TypeCore, Places, PermitsConserved, [Next]_vars, NEW q \in Pools
             PROVE  idle'[q] + Cardinality(Occupied(q)') = Workers
    BY DEF PermitsConserved
<1>0. /\ idle \in [Pools -> Nat] /\ idle[q] + Cardinality(Occupied(q)) = Workers
      /\ IsFiniteSet(Occupied(q)) /\ Cardinality(Occupied(q)) \in Nat
    BY OccupiedFinite DEF TypeCore, PermitsConserved
<1>1. CASE Keeps
    BY <1>0, <1>1 DEF Keeps
<1>2. ASSUME NEW p \in Pools, NEW t \in Threads, Takes(p, t)
      PROVE  idle'[q] + Cardinality(Occupied(q)') = Workers
    <2>1. CASE q = p
        <3>1. Cardinality(Occupied(q)') = Cardinality(Occupied(q)) + 1
            BY <1>0, <1>2, <2>1, FS_AddElement DEF Takes
        <3>2. idle'[q] = idle[q] - 1 /\ idle[q] \in Nat
            BY <1>0, <1>2, <2>1 DEF Takes
        <3>. QED
            BY <1>0, <3>1, <3>2, WorkersAssumption
    <2>2. CASE q # p
        BY <1>0, <1>2, <2>2 DEF Takes
    <2>. QED
        BY <2>1, <2>2
<1>3. ASSUME NEW p \in Pools, NEW t \in Threads, Gives(p, t)
      PROVE  idle'[q] + Cardinality(Occupied(q)') = Workers
    <2>1. CASE q = p
        <3>1. Cardinality(Occupied(q)') = Cardinality(Occupied(q)) - 1
            BY <1>0, <1>3, <2>1, FS_RemoveElement DEF Gives
        <3>2. idle'[q] = idle[q] + 1 /\ idle[q] \in Nat
            BY <1>0, <1>3, <2>1 DEF Gives
        <3>. QED
            BY <1>0, <3>1, <3>2, WorkersAssumption
    <2>2. CASE q # p
        BY <1>0, <1>3, <2>2 DEF Gives
    <2>. QED
        BY <2>1, <2>2
<1>. QED
    BY <1>1, <1>2, <1>3, StepKinds

\* The semaphore of every pool counts its idle workers in every reachable state: no
\* failure, timeout or retry leaks a permit or returns one twice (reward.py 99-118).
THEOREM PermitsAlwaysConserved == Spec => []PermitsConserved
<1>1. TypeCore /\ Places /\ PermitsConserved /\ [Next]_vars => PermitsConserved'
    BY PermitsStep
<1>. QED
    BY <1>1, PermitsInit, PlacesAlways, PTL DEF Spec

\* Every variable keeps its type; the bound of `idle` (BoundedSemaphore never raises)
\* follows from the conservation of permits.
THEOREM TypesAlwaysHold == Spec => []TypeOK
<1>1. TypeCore /\ PermitsConserved => TypeOK
    <2> SUFFICES ASSUME TypeCore, PermitsConserved PROVE idle \in [Pools -> 0 .. Workers]
        BY DEF TypeCore, TypeOK
    <2>1. ASSUME NEW p \in Pools PROVE idle[p] \in 0 .. Workers
        BY OccupiedFinite, WorkersAssumption DEF TypeCore, PermitsConserved
    <2>. QED
        BY <2>1 DEF TypeCore
<1>. QED
    BY <1>1, TypeCoreAlways, PermitsAlwaysConserved, PTL

\* The pool implements bounded workers: a comparison is admitted only while one of the
\* pool's workers is free, so it never queues behind another (reward.py 99-102).
THEOREM AdmittedJobsNeverQueue == Spec => NeverQueues
<1>1. Init => BW!Init
    BY PoolFacts DEF Init, BW!Init, Occupied, Running
<1>2. TypeCore /\ Places /\ PermitsConserved /\ [Next]_vars
        => [BW!Next]_([p \in Pools |-> Occupied(p)])
    <2> SUFFICES ASSUME TypeCore, Places, PermitsConserved, [Next]_vars
                 PROVE  [BW!Next]_([p \in Pools |-> Occupied(p)])
        OBVIOUS
    <2> DEFINE busy == [p \in Pools |-> Occupied(p)]
    <2>1. CASE Keeps
        BY <2>1 DEF Keeps
    <2>2. ASSUME NEW p \in Pools, NEW t \in Threads, Takes(p, t) PROVE BW!Next
        <3>1. Cardinality(busy[p]) < Workers
            BY <2>2, OccupiedFinite, WorkersAssumption DEF Takes, TypeCore, PermitsConserved
        <3>2. busy' = [busy EXCEPT ![p] = @ \cup {t}] /\ t \notin busy[p]
            BY <2>2 DEF Takes
        <3>3. BW!Cardinality(busy[p]) < Workers
            BY <3>1 DEF BW!Cardinality, Cardinality
        <3>4. BW!Admit(p, t)
            BY <3>2, <3>3 DEF BW!Admit
        <3>. QED
            BY <3>4 DEF BW!Next
    <2>3. ASSUME NEW p \in Pools, NEW t \in Threads, Gives(p, t) PROVE BW!Next
        <3>1. busy' = [busy EXCEPT ![p] = @ \ {t}] /\ t \in busy[p]
            BY <2>3 DEF Gives
        <3>. QED
            BY <3>1 DEF BW!Next, BW!Release
    <2>. QED
        BY <2>1, <2>2, <2>3, StepKinds
<1>. QED
    BY <1>1, <1>2, PlacesAlways, PermitsAlwaysConserved, PTL DEF Spec, NeverQueues, BW!Spec

-----------------------------------------------------------------------------
(* Replacements: which pools were stopped, and what a late caller sees.    *)

Replacements ==
    /\ EachPoolReplacedOnce
    /\ \A p \in terminated \cup closed : p <= lastPool /\ p # pool
    /\ \A t \in Threads : mine[t] \in closed => mine[t] \in broken
    /\ \A t \in Threads : pc[t] \in {"discard", "shutdown"} => mine[t] \in broken
    /\ \A p \in Pools, t \in Threads : future[p][t] = "broken" => p \in broken
    /\ NeverRefused

\* What NextAttempt leaves behind, whether it retries or gives up.
LEMMA NextAttemptMoves ==
    ASSUME NEW t \in Threads, TypeCore, NextAttempt(t)
    PROVE  /\ mine' = [mine EXCEPT ![t] = NoPool]
           /\ \E l \in {"check", "out"} : pc' = [pc EXCEPT ![t] = l]
           /\ \A u \in Threads : outcome'[u].why \in {outcome[u].why, "died twice"}
<1>1. CASE attempt[t] = 1
    BY <1>1 DEF NextAttempt, GoTo
<1>2. CASE attempt[t] # 1
    <2>1. outcome' = [outcome EXCEPT ![t] = [score |-> FALSE, why |-> "died twice"]]
        BY <1>2 DEF NextAttempt, Return
    <2>2. \A u \in Threads : outcome'[u].why \in {outcome[u].why, "died twice"}
        BY <2>1 DEF TypeCore
    <2>. QED
        BY <1>2, <2>2 DEF NextAttempt, Return, GoTo
<1>. QED
    BY <1>1, <1>2

LEMMA ReplacementsInit == Init => Replacements
BY PoolFacts DEF Init, Replacements, EachPoolReplacedOnce, NeverRefused

LEMMA ReplacementsStep ==
    TypeCore /\ Places /\ Replacements /\ [Next]_vars => Replacements'
<1> SUFFICES ASSUME TypeCore, Places, Replacements, [Next]_vars PROVE Replacements'
    OBVIOUS
<1> USE PoolFacts DEF poolVars, execVars, callVars, GoTo, TypeCore, Places, Holds,
                      Replacements, EachPoolReplacedOnce, NeverRefused
<1>1. ASSUME NEW t \in Threads, Call(t) PROVE Replacements'
    BY <1>1 DEF Call
<1>2. ASSUME NEW t \in Threads, GetPoolCheck(t) PROVE Replacements'
    BY <1>2 DEF GetPoolCheck
<1>3. ASSUME NEW t \in Threads, GetPoolCreate(t) PROVE Replacements'
    <2>1. CASE pool = NoPool
        BY <1>3, <2>1 DEF GetPoolCreate
    <2>2. CASE pool # NoPool
        BY <1>3, <2>2 DEF GetPoolCreate
    <2>. QED
        BY <2>1, <2>2
<1>4. ASSUME NEW t \in Threads, GetPoolReturn(t) PROVE Replacements'
    BY <1>4 DEF GetPoolReturn
<1>5. ASSUME NEW t \in Threads, SubmitToNone(t) PROVE Replacements'
    BY <1>5 DEF SubmitToNone, Return
<1>6. ASSUME NEW t \in Threads, Acquire(t) PROVE Replacements'
    BY <1>6 DEF Acquire
<1>7. ASSUME NEW t \in Threads, SubmitAccepted(t) PROVE Replacements'
    BY <1>7 DEF SubmitAccepted, Done, Holding
<1>8. ASSUME NEW t \in Threads, SubmitBroken(t) PROVE Replacements'
    BY <1>8 DEF SubmitBroken
<1>9. ASSUME NEW t \in Threads, SubmitRefused(t) PROVE Replacements'
    BY <1>9 DEF SubmitRefused
<1>10. ASSUME NEW t \in Threads, FutureResult(t) PROVE Replacements'
    BY <1>10 DEF FutureResult, Return
<1>11. ASSUME NEW t \in Threads, FutureBroken(t) PROVE Replacements'
    BY <1>11 DEF FutureBroken, Holding
<1>12. ASSUME NEW t \in Threads, FutureTimeout(t) PROVE Replacements'
    BY <1>12 DEF FutureTimeout
<1>13. ASSUME NEW t \in Threads, DiscardBroken(t) PROVE Replacements'
    <2>1. CASE Replace(mine[t]) /\ GoTo(t, "shutdown")
                 /\ UNCHANGED <<mine, attempt, lost, outcome>>
        BY <1>13, <2>1 DEF DiscardBroken, Replace, Holding
    <2>2. CASE pool # mine[t] /\ NextAttempt(t) /\ UNCHANGED <<pool, restarts>>
        <3>1. /\ mine' = [mine EXCEPT ![t] = NoPool]
              /\ \E l \in {"check", "out"} : pc' = [pc EXCEPT ![t] = l]
              /\ \A u \in Threads : outcome'[u].why \in {outcome[u].why, "died twice"}
            BY <2>2, NextAttemptMoves
        <3>2. /\ pc[t] = "discard"
              /\ UNCHANGED <<poolVars, future, closed, broken, terminated>>
            BY <1>13, <2>2 DEF DiscardBroken
        <3>. QED
            BY <3>1, <3>2
    <2>. QED
        BY <1>13, <2>1, <2>2 DEF DiscardBroken
<1>14. ASSUME NEW t \in Threads, ShutdownBroken(t) PROVE Replacements'
    <2>1. /\ mine' = [mine EXCEPT ![t] = NoPool]
          /\ \E l \in {"check", "out"} : pc' = [pc EXCEPT ![t] = l]
          /\ \A u \in Threads : outcome'[u].why \in {outcome[u].why, "died twice"}
        BY <1>14, NextAttemptMoves DEF ShutdownBroken
    <2>2. /\ closed' = closed \cup {mine[t]} /\ pc[t] = "shutdown"
          /\ UNCHANGED <<poolVars, future, broken, terminated>>
        BY <1>14 DEF ShutdownBroken
    <2>3. mine[t] <= lastPool /\ mine[t] # pool /\ mine[t] \in broken
        BY <2>2
    <2>. QED
        BY <2>1, <2>2, <2>3
<1>15. ASSUME NEW t \in Threads, DiscardStuck(t) PROVE Replacements'
    <2>1. CASE Replace(mine[t]) /\ GoTo(t, "terminate") /\ UNCHANGED <<mine, outcome>>
        BY <1>15, <2>1 DEF DiscardStuck, Replace, Holding
    <2>2. CASE pool # mine[t] /\ Return(t, FALSE, "timeout") /\ UNCHANGED <<pool, restarts>>
        BY <1>15, <2>2 DEF DiscardStuck, Return
    <2>. QED
        BY <1>15, <2>1, <2>2 DEF DiscardStuck
<1>16. ASSUME NEW t \in Threads, TerminateStuck(t) PROVE Replacements'
    BY <1>16 DEF TerminateStuck, StopStuckPool, Return
<1>17. ASSUME NEW p \in Pools, NEW t \in Threads, FinishComparison(p, t) PROVE Replacements'
    BY <1>17, AnswersAssumption DEF FinishComparison, Running, Verdict, AllAnswers
<1>18. ASSUME NEW p \in Pools, NEW t \in Threads, KillWorker(p, t) PROVE Replacements'
    BY <1>18 DEF KillWorker
<1>19. ASSUME NEW p \in Pools, NEW t \in Threads, FailFuture(p, t) PROVE Replacements'
    BY <1>19 DEF FailFuture
<1>20. ASSUME NEW p \in Pools, WorkerDies(p) PROVE Replacements'
    BY <1>20 DEF WorkerDies
<1>21. ASSUME NEW p \in Pools, MarkBroken(p) PROVE Replacements'
    BY <1>21 DEF MarkBroken
<1>22. CASE ShutdownPool
    BY <1>22 DEF ShutdownPool
<1>23. CASE UNCHANGED vars
    BY <1>23 DEF vars
<1>. QED
    BY <1>1, <1>2, <1>3, <1>4, <1>5, <1>6, <1>7, <1>8, <1>9, <1>10, <1>11, <1>12,
       <1>13, <1>14, <1>15, <1>16, <1>17, <1>18, <1>19, <1>20, <1>21, <1>22, <1>23
    DEF Next, ThreadStep, SubmitRaises, ExecutorStep

\* Only the first caller of _discard_pool acts (148-163): every pool that is gone was
\* replaced or shut down exactly once.
THEOREM EachPoolIsReplacedOnce == Spec => []EachPoolReplacedOnce
<1>1. TypeCore /\ Places /\ Replacements /\ [Next]_vars => Replacements'
    BY ReplacementsStep
<1>2. Replacements => EachPoolReplacedOnce
    BY DEF Replacements
<1>. QED
    BY <1>1, <1>2, ReplacementsInit, PlacesAlways, PTL DEF Spec

\* A late caller of _discard_pool never stops the pool that took its pool's place.
THEOREM CurrentPoolIsNeverHarmed == Spec => []CurrentPoolUnharmed
<1>1. TypeCore /\ Places /\ Replacements /\ [Next]_vars => Replacements'
    BY ReplacementsStep
<1>2. Replacements => CurrentPoolUnharmed
    BY DEF Replacements, CurrentPoolUnharmed
<1>. QED
    BY <1>1, <1>2, ReplacementsInit, PlacesAlways, PTL DEF Spec

\* However many threads see one dead pool, it is replaced once, and none of them touches the
\* pool that took its place (148-163).
THEOREM EachPoolIsReplacedOnceUnharmed == Spec => []ReplacedOnceAndUnharmed
<1>1. EachPoolReplacedOnce /\ CurrentPoolUnharmed => ReplacedOnceAndUnharmed
    BY DEF ReplacedOnceAndUnharmed
<1>. QED
    BY <1>1, EachPoolIsReplacedOnce, CurrentPoolIsNeverHarmed, PTL

\* A thread that still holds a replaced pool gets BrokenProcessPool and retries; it never
\* meets the RuntimeError of a shut-down executor (158-160).
THEOREM NoSubmitIsRefused == Spec => []NeverRefused
<1>1. TypeCore /\ Places /\ Replacements /\ [Next]_vars => Replacements'
    BY ReplacementsStep
<1>2. Replacements => NeverRefused
    BY DEF Replacements
<1>. QED
    BY <1>1, <1>2, ReplacementsInit, PlacesAlways, PTL DEF Spec

-----------------------------------------------------------------------------
(* Scores: why a call of _verify_in_pool ended as it did.                  *)

\* The future a thread waits for is about its own answer.
OwnResult(t) ==
    /\ pc[t] = "wait" =>
          LET f == future[mine[t]][t]
          IN  /\ f \in Answers => f = answer[t]
              /\ f = "true" => answer[t] \in {"equal", "slow"}
              /\ f = "false" => answer[t] = "different"
              /\ f = "raised" => answer[t] = "raises"
    /\ pc[t] \in {"discard_stuck", "terminate"} => answer[t] = "slow"

\* The second attempt runs in another pool than the first one lost.
OtherPool(t) ==
    pc[t] # "out" =>
        /\ attempt[t] = 1 => lost[t] = {}
        /\ attempt[t] = 2 => \E q \in Pools : /\ lost[t] = {q} /\ mine[t] # q
                                              /\ q <= lastPool /\ q # pool

Earned(t) ==
    pc[t] = "out" =>
        /\ outcome[t].score => answer[t] \in {"equal", "slow"}
        /\ outcome[t].why = "died twice" => Cardinality(lost[t]) = 2
        /\ outcome[t].why # "none" /\ answer[t] = "equal" /\ ~outcome[t].score
             => outcome[t].why \in {"died twice", "no pool"}

Scores == \A t \in Threads : OwnResult(t) /\ OtherPool(t) /\ Earned(t)

LEMMA ScoresInit == Init => Scores
<1> SUFFICES ASSUME Init, NEW t \in Threads PROVE OwnResult(t) /\ OtherPool(t) /\ Earned(t)
    BY DEF Scores
<1>1. pc[t] = "out" /\ outcome[t] = [score |-> FALSE, why |-> "none"]
    BY DEF Init
<1>. QED
    BY <1>1 DEF OwnResult, OtherPool, Earned

\* A step of one thread leaves the others' scores alone, unless it makes their lost pool
\* the current one again.
LEMMA ScoresOfOthers ==
    ASSUME NEW t \in Threads, NEW u \in Threads, u # t, TypeCore, Places, Scores,
           pc'[u] = pc[u], mine'[u] = mine[u], attempt'[u] = attempt[u],
           answer'[u] = answer[u], lost'[u] = lost[u], outcome'[u] = outcome[u],
           \A p \in Pools : future'[p][u] = future[p][u],
           pool' = pool \/ pool' = NoPool \/ pool' = lastPool + 1,
           lastPool' \in {lastPool, lastPool + 1}
    PROVE  OwnResult(u)' /\ OtherPool(u)' /\ Earned(u)'
<1>1. OwnResult(u)'
    BY DEF Scores, OwnResult, TypeCore, Holding
<1>2. OtherPool(u)'
    <2>1. lastPool \in Nat
        BY PoolFacts DEF TypeCore
    <2>. QED
        BY <2>1, PoolFacts DEF Scores, OtherPool, TypeCore
<1>3. Earned(u)'
    BY DEF Scores, Earned
<1>. QED
    BY <1>1, <1>2, <1>3

LEMMA TwoPools ==
    ASSUME NEW p, NEW q, p # q
    PROVE  Cardinality({q} \cup {p}) = 2
<1>1. IsFiniteSet({q}) /\ Cardinality({q}) = 1
    BY FS_Singleton
<1>2. Cardinality({q} \cup {p}) = Cardinality({q}) + 1
    BY <1>1, FS_AddElement
<1>. QED
    BY <1>1, <1>2

LEMMA NextAttemptScores ==
    ASSUME NEW t \in Threads, TypeCore, Places, Scores, NextAttempt(t), pc[t] \in Holding,
           mine[t] # pool, UNCHANGED <<pool, lastPool, future, answer>>
    PROVE  Scores'
<1>0. mine[t] \in Pools /\ mine[t] <= lastPool /\ pc[t] # "out"
    BY DEF TypeCore, Places, Holds, Holding
<1>1. ASSUME NEW u \in Threads, u # t PROVE OwnResult(u)' /\ OtherPool(u)' /\ Earned(u)'
    <2>1. /\ pc'[u] = pc[u] /\ mine'[u] = mine[u] /\ attempt'[u] = attempt[u]
          /\ answer'[u] = answer[u] /\ lost'[u] = lost[u] /\ outcome'[u] = outcome[u]
          /\ \A p \in Pools : future'[p][u] = future[p][u]
        <3>1. CASE attempt[t] = 1
            BY <1>1, <3>1 DEF NextAttempt, GoTo, TypeCore
        <3>2. CASE attempt[t] # 1
            BY <1>1, <3>2 DEF NextAttempt, Return, GoTo, TypeCore
        <3>. QED
            BY <3>1, <3>2
    <2>. QED
        BY <1>1, <2>1, ScoresOfOthers
<1>2. CASE attempt[t] = 1
    <2>1. /\ pc'[t] = "check" /\ attempt'[t] = 2 /\ lost'[t] = {mine[t]}
          /\ mine'[t] = NoPool
        BY <1>0, <1>2 DEF NextAttempt, GoTo, TypeCore, Scores, OtherPool
    <2>2. OwnResult(t)' /\ OtherPool(t)' /\ Earned(t)'
        BY <1>0, <2>1, PoolFacts DEF OwnResult, OtherPool, Earned
    <2>. QED
        BY <1>1, <2>2 DEF Scores
<1>3. CASE attempt[t] = 2
    <2>1. PICK q \in Pools : lost[t] = {q} /\ mine[t] # q
        BY <1>0, <1>3 DEF Scores, OtherPool
    <2>2. Cardinality({q} \cup {mine[t]}) = 2
        BY <2>1, TwoPools
    <2>3. /\ pc' = [pc EXCEPT ![t] = "out"] /\ lost' = [lost EXCEPT ![t] = @ \cup {mine[t]}]
          /\ outcome' = [outcome EXCEPT ![t] = [score |-> FALSE, why |-> "died twice"]]
        <3>1. attempt[t] # 1
            BY <1>3
        <3>2. Return(t, FALSE, "died twice") /\ lost' = [lost EXCEPT ![t] = @ \cup {mine[t]}]
            BY <3>1 DEF NextAttempt
        <3>. QED
            BY <3>2 DEF Return, GoTo
    <2>4. pc'[t] = "out"
        BY <2>3 DEF TypeCore
    <2>9. lost'[t] = {q} \cup {mine[t]}
        <3>1. lost \in [Threads -> SUBSET Pools]
            BY DEF TypeCore
        <3>2. lost'[t] = lost[t] \cup {mine[t]}
            BY <2>3, <3>1
        <3>. QED
            BY <2>1, <3>2
    <2>5. /\ outcome'[t] = [score |-> FALSE, why |-> "died twice"]
          /\ ~outcome'[t].score /\ outcome'[t].why = "died twice"
        BY <2>3 DEF TypeCore
    <2>6. Cardinality(lost'[t]) = 2
        BY <2>2, <2>9
    <2>7. OwnResult(t)' /\ OtherPool(t)'
        BY <2>4 DEF OwnResult, OtherPool
    <2>8. Earned(t)'
        BY <2>5, <2>6 DEF Earned
    <2>. QED
        BY <1>1, <2>7, <2>8 DEF Scores
<1>. QED
    BY <1>2, <1>3 DEF TypeCore

LEMMA ScoresStep == TypeCore /\ TypeCore' /\ Places /\ Replacements /\ Scores /\ [Next]_vars => Scores'
<1> SUFFICES ASSUME TypeCore, TypeCore', Places, Replacements, Scores, [Next]_vars PROVE Scores'
    OBVIOUS
<1> USE DEF poolVars, execVars, callVars
<1>0. /\ pc \in [Threads -> Locations] /\ mine \in [Threads -> {NoPool} \cup Pools]
      /\ attempt \in [Threads -> {1, 2}] /\ answer \in [Threads -> Answers]
      /\ lost \in [Threads -> SUBSET Pools]
      /\ outcome \in [Threads -> [score : BOOLEAN, why : Reasons]]
      /\ future \in [Pools -> [Threads -> {"none"} \cup Answers \cup Done]]
    BY DEF TypeCore
<1>1. ASSUME NEW t \in Threads, Call(t) PROVE Scores'
    <2>0. pc'[t] = "check" /\ attempt'[t] = 1 /\ lost'[t] = {}
        BY <1>0, <1>1 DEF Call, GoTo
    <2>1. OwnResult(t)' /\ OtherPool(t)' /\ Earned(t)'
        BY <2>0 DEF OwnResult, OtherPool, Earned
    <2>2. ASSUME NEW u \in Threads, u # t
          PROVE  OwnResult(u)' /\ OtherPool(u)' /\ Earned(u)'
        BY <1>0, <1>1, <2>2, ScoresOfOthers DEF Call, GoTo
    <2>. QED
        BY <2>1, <2>2 DEF Scores
<1>2. ASSUME NEW t \in Threads, GetPoolCheck(t) PROVE Scores'
    <2>1. OwnResult(t)' /\ OtherPool(t)' /\ Earned(t)'
        BY <1>0, <1>2, PoolFacts
        DEF GetPoolCheck, GoTo, Scores, OwnResult, OtherPool, Earned, Holding, TypeCore
    <2>2. ASSUME NEW u \in Threads, u # t
          PROVE  OwnResult(u)' /\ OtherPool(u)' /\ Earned(u)'
        BY <1>0, <1>2, <2>2, ScoresOfOthers DEF GetPoolCheck, GoTo
    <2>. QED
        BY <2>1, <2>2 DEF Scores
<1>3. ASSUME NEW t \in Threads, GetPoolCreate(t) PROVE Scores'
    <2>0. /\ pc'[t] = "return" /\ pc[t] = "create" /\ pool' \in {pool, lastPool + 1}
          /\ lastPool' \in {lastPool, lastPool + 1} /\ UNCHANGED <<mine, attempt, lost>>
        BY <1>0, <1>3 DEF GetPoolCreate, GoTo
    <2>1. OwnResult(t)' /\ Earned(t)'
        BY <2>0 DEF OwnResult, Earned
    <2>3. lastPool \in Nat
        BY PoolFacts DEF TypeCore
    <2>4. ASSUME attempt[t] = 2 PROVE OtherPool(t)'
        <3>0. pc[t] # "out" /\ OtherPool(t)
            BY <2>0 DEF Scores
        <3>1. PICK q \in Pools : lost[t] = {q} /\ mine[t] # q /\ q <= lastPool /\ q # pool
            BY <2>4, <3>0 DEF OtherPool
        <3>2. q \in Nat
            BY PoolFacts
        <3>3. q # pool' /\ q <= lastPool'
            BY <2>0, <2>3, <3>1, <3>2
        <3>4. lost'[t] = {q} /\ mine'[t] # q /\ attempt'[t] = 2
            BY <2>0, <2>4, <3>1
        <3>. QED
            BY <3>3, <3>4 DEF OtherPool
    <2>5. ASSUME attempt[t] # 2 PROVE OtherPool(t)'
        <3>1. pc[t] # "out" /\ OtherPool(t) /\ attempt'[t] # 2
            BY <2>0, <2>5 DEF Scores
        <3>. QED
            BY <2>0, <3>1 DEF OtherPool
    <2>6. OtherPool(t)'
        BY <2>4, <2>5
    <2>2. ASSUME NEW u \in Threads, u # t
          PROVE  OwnResult(u)' /\ OtherPool(u)' /\ Earned(u)'
        BY <1>0, <1>3, <2>2, ScoresOfOthers DEF GetPoolCreate, GoTo
    <2>. QED
        BY <2>1, <2>6, <2>2 DEF Scores
<1>4. ASSUME NEW t \in Threads, GetPoolReturn(t) PROVE Scores'
    <2>1. OwnResult(t)' /\ OtherPool(t)' /\ Earned(t)'
        BY <1>0, <1>4, PoolFacts
        DEF GetPoolReturn, GoTo, Scores, OwnResult, OtherPool, Earned, Holding, TypeCore
    <2>2. ASSUME NEW u \in Threads, u # t
          PROVE  OwnResult(u)' /\ OtherPool(u)' /\ Earned(u)'
        BY <1>0, <1>4, <2>2, ScoresOfOthers DEF GetPoolReturn, GoTo
    <2>. QED
        BY <2>1, <2>2 DEF Scores
<1>5. ASSUME NEW t \in Threads, SubmitToNone(t) PROVE Scores'
    <2>1. OwnResult(t)' /\ OtherPool(t)' /\ Earned(t)'
        BY <1>0, <1>5, PoolFacts, ZenonT(60)
        DEF SubmitToNone, Return, GoTo, Scores, OwnResult, OtherPool, Earned, Holding, TypeCore
    <2>2. ASSUME NEW u \in Threads, u # t
          PROVE  OwnResult(u)' /\ OtherPool(u)' /\ Earned(u)'
        BY <1>0, <1>5, <2>2, ScoresOfOthers DEF SubmitToNone, Return, GoTo
    <2>. QED
        BY <2>1, <2>2 DEF Scores
<1>6. ASSUME NEW t \in Threads, Acquire(t) PROVE Scores'
    <2>1. OwnResult(t)' /\ OtherPool(t)' /\ Earned(t)'
        BY <1>0, <1>6, PoolFacts
        DEF Acquire, GoTo, Scores, OwnResult, OtherPool, Earned, Holding, TypeCore
    <2>2. ASSUME NEW u \in Threads, u # t
          PROVE  OwnResult(u)' /\ OtherPool(u)' /\ Earned(u)'
        BY <1>0, <1>6, <2>2, ScoresOfOthers DEF Acquire, GoTo
    <2>. QED
        BY <2>1, <2>2 DEF Scores
<1>7. ASSUME NEW t \in Threads, SubmitAccepted(t) PROVE Scores'
    <2>0. /\ pc'[t] = "wait" /\ pc[t] = "submit" /\ mine[t] \in Pools
          /\ future'[mine[t]][t] = answer[t]
          /\ UNCHANGED <<pool, lastPool, mine, attempt, lost, answer>>
        BY <1>0, <1>7 DEF SubmitAccepted, GoTo, TypeCore, Holding
    <2>3. answer[t] \in Answers
        BY <1>0
    <2>1. OwnResult(t)' /\ OtherPool(t)' /\ Earned(t)'
        BY <2>0, <2>3, PoolFacts DEF Scores, OwnResult, OtherPool, Earned, Done
    <2>2. ASSUME NEW u \in Threads, u # t
          PROVE  OwnResult(u)' /\ OtherPool(u)' /\ Earned(u)'
        BY <1>0, <1>7, <2>2, ScoresOfOthers DEF SubmitAccepted, GoTo
    <2>. QED
        BY <2>1, <2>2 DEF Scores
<1>8. ASSUME NEW t \in Threads, SubmitBroken(t) PROVE Scores'
    <2>1. OwnResult(t)' /\ OtherPool(t)' /\ Earned(t)'
        BY <1>0, <1>8, PoolFacts
        DEF SubmitBroken, GoTo, Scores, OwnResult, OtherPool, Earned, Holding, TypeCore
    <2>2. ASSUME NEW u \in Threads, u # t
          PROVE  OwnResult(u)' /\ OtherPool(u)' /\ Earned(u)'
        BY <1>0, <1>8, <2>2, ScoresOfOthers DEF SubmitBroken, GoTo
    <2>. QED
        BY <2>1, <2>2 DEF Scores
<1>9. ASSUME NEW t \in Threads, SubmitRefused(t) PROVE Scores'
    \* impossible: nobody holds a closed pool that is not broken
    <2>1. mine[t] \in closed /\ mine[t] \notin broken
        BY <1>9 DEF SubmitRefused
    <2>. QED
        BY <2>1 DEF Replacements
<1>10. ASSUME NEW t \in Threads, FutureResult(t) PROVE Scores'
    <2>1. OwnResult(t)' /\ OtherPool(t)' /\ Earned(t)'
        BY <1>0, <1>10, PoolFacts, ZenonT(60)
        DEF FutureResult, Return, GoTo, Scores, OwnResult, OtherPool, Earned, Holding, TypeCore
    <2>2. ASSUME NEW u \in Threads, u # t
          PROVE  OwnResult(u)' /\ OtherPool(u)' /\ Earned(u)'
        BY <1>0, <1>10, <2>2, ScoresOfOthers DEF FutureResult, Return, GoTo
    <2>. QED
        BY <2>1, <2>2 DEF Scores
<1>11. ASSUME NEW t \in Threads, FutureBroken(t) PROVE Scores'
    <2>1. OwnResult(t)' /\ OtherPool(t)' /\ Earned(t)'
        BY <1>0, <1>11, PoolFacts
        DEF FutureBroken, GoTo, Scores, OwnResult, OtherPool, Earned, Holding, TypeCore
    <2>2. ASSUME NEW u \in Threads, u # t
          PROVE  OwnResult(u)' /\ OtherPool(u)' /\ Earned(u)'
        BY <1>0, <1>11, <2>2, ScoresOfOthers DEF FutureBroken, GoTo
    <2>. QED
        BY <2>1, <2>2 DEF Scores
<1>12. ASSUME NEW t \in Threads, FutureTimeout(t) PROVE Scores'
    <2>0. /\ pc'[t] = "discard_stuck" /\ pc[t] = "wait" /\ future[mine[t]][t] = "slow"
          /\ UNCHANGED <<pool, lastPool, mine, attempt, lost, answer, outcome>>
        BY <1>0, <1>12 DEF FutureTimeout, GoTo
    <2>3. mine[t] \in Pools
        BY <1>0, <2>0 DEF TypeCore, Holding
    <2>4. future[mine[t]][t] \in {"none"} \cup Answers \cup Done
        BY <1>0, <2>3
    <2>5. answer[t] = "slow"
        BY <2>0, <2>4 DEF Scores, OwnResult, Done
    <2>1. OwnResult(t)' /\ OtherPool(t)' /\ Earned(t)'
        BY <2>0, <2>5 DEF Scores, OwnResult, OtherPool, Earned
    <2>2. ASSUME NEW u \in Threads, u # t
          PROVE  OwnResult(u)' /\ OtherPool(u)' /\ Earned(u)'
        BY <1>0, <1>12, <2>2, ScoresOfOthers DEF FutureTimeout, GoTo
    <2>. QED
        BY <2>1, <2>2 DEF Scores
<1>13. ASSUME NEW t \in Threads, DiscardBroken(t) PROVE Scores'
    <2>1. CASE Replace(mine[t]) /\ GoTo(t, "shutdown")
                 /\ UNCHANGED <<mine, attempt, lost, outcome>>
        <3>1. /\ pc' = [pc EXCEPT ![t] = "shutdown"] /\ pc[t] = "discard" /\ pool' = NoPool
              /\ UNCHANGED <<lastPool, future, mine, attempt, answer, lost, outcome>>
            BY <1>13, <2>1 DEF DiscardBroken, Replace, GoTo
        <3>2. OwnResult(t)' /\ OtherPool(t)' /\ Earned(t)'
            BY <1>0, <3>1, PoolFacts DEF Scores, OwnResult, OtherPool, Earned
        <3>3. ASSUME NEW u \in Threads, u # t
              PROVE  OwnResult(u)' /\ OtherPool(u)' /\ Earned(u)'
            BY <1>0, <3>1, <3>3, ScoresOfOthers
        <3>. QED
            BY <3>2, <3>3 DEF Scores
    <2>2. CASE pool # mine[t] /\ NextAttempt(t) /\ UNCHANGED <<pool, restarts>>
        BY <1>13, <2>2, NextAttemptScores DEF DiscardBroken, Holding
    <2>. QED
        BY <1>13, <2>1, <2>2 DEF DiscardBroken
<1>14. ASSUME NEW t \in Threads, ShutdownBroken(t) PROVE Scores'
    <2>1. mine[t] # pool /\ pc[t] = "shutdown"
        BY <1>14 DEF ShutdownBroken, Places, Holds
    <2>. QED
        BY <1>14, <2>1, NextAttemptScores DEF ShutdownBroken, Holding
<1>15. ASSUME NEW t \in Threads, DiscardStuck(t) PROVE Scores'
    <2>0. pc[t] = "discard_stuck" /\ answer[t] = "slow" /\ UNCHANGED <<lastPool, attempt, answer, lost>>
        BY <1>15 DEF DiscardStuck, Scores, OwnResult
    <2>3. ASSUME Replace(mine[t]), GoTo(t, "terminate"), UNCHANGED <<mine, outcome>>
          PROVE  OwnResult(t)' /\ OtherPool(t)' /\ Earned(t)'
        <3>1. pc'[t] = "terminate" /\ pool' = NoPool /\ UNCHANGED mine
            BY <1>0, <2>3 DEF GoTo, Replace
        <3>2. NoPool \notin Pools
            BY PoolFacts
        <3>. QED
            BY <2>0, <3>1, <3>2 DEF Scores, OwnResult, OtherPool, Earned
    <2>4. ASSUME Return(t, FALSE, "timeout")
          PROVE  OwnResult(t)' /\ OtherPool(t)' /\ Earned(t)'
        <3>1. pc'[t] = "out" /\ outcome'[t] = [score |-> FALSE, why |-> "timeout"]
            BY <1>0, <2>4 DEF Return, GoTo
        <3>2. ~outcome'[t].score /\ outcome'[t].why = "timeout" /\ answer'[t] = "slow"
            BY <2>0, <3>1
        <3>. QED
            BY <3>1, <3>2 DEF OwnResult, OtherPool, Earned
    <2>1. OwnResult(t)' /\ OtherPool(t)' /\ Earned(t)'
        BY <1>15, <2>3, <2>4 DEF DiscardStuck
    <2>2. ASSUME NEW u \in Threads, u # t
          PROVE  OwnResult(u)' /\ OtherPool(u)' /\ Earned(u)'
        BY <1>0, <1>15, <2>2, ScoresOfOthers DEF DiscardStuck, Replace, Return, GoTo
    <2>. QED
        BY <2>1, <2>2 DEF Scores
<1>16. ASSUME NEW t \in Threads, TerminateStuck(t) PROVE Scores'
    <2>1. OwnResult(t)' /\ OtherPool(t)' /\ Earned(t)'
        BY <1>0, <1>16, PoolFacts
        DEF TerminateStuck, Return, GoTo, Scores, OwnResult, OtherPool, Earned, Holding, TypeCore
    <2>2. ASSUME NEW u \in Threads, u # t
          PROVE  OwnResult(u)' /\ OtherPool(u)' /\ Earned(u)'
        BY <1>0, <1>16, <2>2, ScoresOfOthers DEF TerminateStuck, Return, GoTo
    <2>. QED
        BY <2>1, <2>2 DEF Scores
<1>17. ASSUME NEW p \in Pools, NEW t \in Threads, FinishComparison(p, t) PROVE Scores'
    <2>1. /\ future' = [future EXCEPT ![p][t] = Verdict(@)] /\ Running(p, t)
          /\ future[p][t] # "kills"
          /\ UNCHANGED <<pool, lastPool, pc, mine, attempt, answer, lost, outcome>>
        BY <1>17 DEF FinishComparison
    <2>2. OwnResult(t)'
        <3>1. CASE pc[t] = "wait" /\ mine[t] = p
            <4>1. future[p][t] = answer[t]
                BY <2>1, <3>1 DEF Scores, OwnResult, Running
            <4>2. future'[p][t] = Verdict(answer[t]) /\ answer[t] # "kills"
                BY <1>0, <2>1, <4>1
            <4>3. \/ answer[t] \in {"equal", "slow"} /\ Verdict(answer[t]) = "true"
                  \/ answer[t] = "different" /\ Verdict(answer[t]) = "false"
                  \/ answer[t] = "raises" /\ Verdict(answer[t]) = "raised"
                BY <1>0, <4>2, AnswersAssumption DEF Verdict, AllAnswers
            <4>. QED
                BY <1>0, <2>1, <3>1, <4>2, <4>3, PoolFacts DEF OwnResult, Done
        <3>2. CASE pc[t] = "wait" /\ mine[t] # p
            BY <1>0, <2>1, <3>2 DEF Scores, OwnResult, TypeCore, Holding
        <3>3. CASE pc[t] # "wait"
            BY <2>1, <3>3 DEF Scores, OwnResult
        <3>. QED
            BY <3>1, <3>2, <3>3
    <2>3. OtherPool(t)' /\ Earned(t)'
        BY <2>1 DEF Scores, OtherPool, Earned
    <2>4. ASSUME NEW u \in Threads, u # t
          PROVE  OwnResult(u)' /\ OtherPool(u)' /\ Earned(u)'
        BY <1>0, <2>1, <2>4, ScoresOfOthers
    <2>. QED
        BY <2>2, <2>3, <2>4 DEF Scores
<1>18. ASSUME NEW p \in Pools, NEW t \in Threads, KillWorker(p, t) PROVE Scores'
    BY <1>18 DEF KillWorker, Scores, OwnResult, OtherPool, Earned
<1>19. ASSUME NEW p \in Pools, NEW t \in Threads, FailFuture(p, t) PROVE Scores'
    <2>1. /\ future' = [future EXCEPT ![p][t] = "broken"]
          /\ UNCHANGED <<pool, lastPool, pc, mine, attempt, answer, lost, outcome>>
        BY <1>19 DEF FailFuture
    <2>2. OwnResult(t)'
        BY <1>0, <2>1, PoolFacts DEF Scores, OwnResult, TypeCore, Holding, Done
    <2>3. OtherPool(t)' /\ Earned(t)'
        BY <2>1 DEF Scores, OtherPool, Earned
    <2>4. ASSUME NEW u \in Threads, u # t
          PROVE  OwnResult(u)' /\ OtherPool(u)' /\ Earned(u)'
        BY <1>0, <2>1, <2>4, ScoresOfOthers
    <2>. QED
        BY <2>2, <2>3, <2>4 DEF Scores
<1>20. ASSUME NEW p \in Pools, WorkerDies(p) PROVE Scores'
    BY <1>20 DEF WorkerDies, Scores, OwnResult, OtherPool, Earned
<1>21. ASSUME NEW p \in Pools, MarkBroken(p) PROVE Scores'
    BY <1>21 DEF MarkBroken, Scores, OwnResult, OtherPool, Earned
<1>22. CASE ShutdownPool
    BY <1>22, PoolFacts DEF ShutdownPool, Scores, OwnResult, OtherPool, Earned
<1>23. CASE UNCHANGED vars
    BY <1>23 DEF vars, Scores, OwnResult, OtherPool, Earned
<1>. QED
    BY <1>1, <1>2, <1>3, <1>4, <1>5, <1>6, <1>7, <1>8, <1>9, <1>10, <1>11, <1>12,
       <1>13, <1>14, <1>15, <1>16, <1>17, <1>18, <1>19, <1>20, <1>21, <1>22, <1>23
    DEF Next, ThreadStep, SubmitRaises, ExecutorStep

\* A correct answer scores 0 only after two different pools died under it, or when
\* _get_pool returned None; a wrong answer never scores 1 (201-218).
THEOREM ScoresAreAlwaysEarned == Spec => []ScoresAreEarned
<1>1. TypeCore /\ Places /\ Replacements /\ [Next]_vars => Replacements'
    BY ReplacementsStep
<1>2. TypeCore /\ TypeCore' /\ Places /\ Replacements /\ Scores /\ [Next]_vars => Scores'
    BY ScoresStep
<1>3. Scores => ScoresAreEarned
    BY DEF Scores, Earned, ScoresAreEarned
<1>. QED
    BY <1>1, <1>2, <1>3, ReplacementsInit, ScoresInit, PlacesAlways, PTL DEF Spec
=============================================================================
