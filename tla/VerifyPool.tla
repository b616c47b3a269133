----------------------------- MODULE VerifyPool -----------------------------
(***************************************************************************)
(* The math-verify worker pool of the reward (src/src/mixed_cuts/reward.py *)
(* lines 96-218): threads that score answers share one pool of worker      *)
(* processes, replace it when a worker dies or a comparison is stuck, and  *)
(* retry once.  The global `_pool` is read twice by _get_pool without the  *)
(* lock; the locked sections are single actions, because inside them only  *)
(* `_pool` and `_pool_restarts` are written and nothing can be seen half   *)
(* done.  The executor (CPython's ProcessPoolExecutor) and its manager     *)
(* thread are external: they are the actions of the third section.         *)
(***************************************************************************)
EXTENDS Naturals, FiniteSets

CONSTANTS Threads,    \* reward threads of one process
          Workers,    \* MC_REWARD_WORKERS
          Answers,    \* what the answers under comparison do (a subset of AllAnswers)
          MaxPools,   \* bound: pools ever created
          MaxCalls,   \* bound: comparisons ever asked for
          MaxDeaths   \* bound: workers lost to causes outside the comparison (OOM killer)

AllAnswers == {"equal", "different", "raises", "slow", "kills"}

ASSUME ThreadsAssumption == IsFiniteSet(Threads)
ASSUME WorkersAssumption == Workers \in Nat \ {0}
ASSUME AnswersAssumption == Answers \subseteq AllAnswers /\ Answers # {}
ASSUME BoundsAssumption == MaxPools \in Nat /\ MaxCalls \in Nat /\ MaxDeaths \in Nat

VARIABLES
    pool,        \* the global _pool: the id of a pool, or NoPool for None
    restarts,    \* _pool_restarts
    closings,    \* pools taken away by shutdown_pool
    lastPool,    \* pools 1..lastPool have been created
    idle,        \* permits left in each pool's `idle` semaphore
    future,      \* future[p][t]: the newest future of thread t in pool p
    dead,        \* pools that lost a worker
    terminated,  \* pools whose workers terminate_workers killed
    broken,      \* pools whose executor has marked itself broken
    closed,      \* pools whose executor was shut down
    pc,          \* where each thread stands in _verify_in_pool
    mine,        \* the local `pool` of _verify_in_pool
    attempt,     \* the loop counter of _verify_in_pool, 1 or 2
    answer,      \* the answer under comparison
    lost,        \* history: pools that broke under the running call
    outcome,     \* history: how the thread's newest call ended
    calls,       \* comparisons asked for so far
    deaths       \* external worker deaths so far

poolVars == <<pool, restarts, closings, lastPool>>
execVars == <<dead, terminated, broken, closed, deaths>>
callVars == <<answer, lost, outcome, calls>>
vars == <<poolVars, idle, future, execVars, pc, mine, attempt, callVars>>

Pools == 1 .. MaxPools
NoPool == 0
Done == {"true", "false", "raised", "broken"}
Locations == {"out", "check", "create", "return", "acquire", "submit", "wait",
              "discard", "discard_stuck", "shutdown", "terminate"}
Reasons == {"none", "compared", "raised", "timeout", "died twice", "refused", "no pool"}

Running(p, t) == future[p][t] \in Answers
\* The threads that hold a permit of pool p: between acquire and submit, or running.
Occupied(p) == {t \in Threads : Running(p, t) \/ (pc[t] = "submit" /\ mine[t] = p)}

Init ==
    /\ pool = NoPool /\ restarts = 0 /\ closings = 0 /\ lastPool = 0
    /\ idle = [p \in Pools |-> Workers]
    /\ future = [p \in Pools |-> [t \in Threads |-> "none"]]
    /\ dead = {} /\ terminated = {} /\ broken = {} /\ closed = {} /\ deaths = 0
    /\ pc = [t \in Threads |-> "out"]
    /\ mine = [t \in Threads |-> NoPool]
    /\ attempt = [t \in Threads |-> 1]
    /\ answer = [t \in Threads |-> CHOOSE a \in Answers : TRUE]
    /\ lost = [t \in Threads |-> {}]
    /\ outcome = [t \in Threads |-> [score |-> FALSE, why |-> "none"]]
    /\ calls = 0

GoTo(t, l) == pc' = [pc EXCEPT ![t] = l]

\* _verify_in_pool returns: its local `pool` is gone.
Return(t, score, why) ==
    /\ GoTo(t, "out")
    /\ mine' = [mine EXCEPT ![t] = NoPool]
    /\ outcome' = [outcome EXCEPT ![t] = [score |-> score, why |-> why]]

-----------------------------------------------------------------------------
(* One call of _verify_in_pool, and _get_pool inside it. *)

Call(t) ==
    /\ pc[t] = "out"
    /\ calls < MaxCalls
    /\ calls' = calls + 1
    /\ \E a \in Answers : answer' = [answer EXCEPT ![t] = a]
    /\ attempt' = [attempt EXCEPT ![t] = 1]
    /\ lost' = [lost EXCEPT ![t] = {}]
    /\ GoTo(t, "check")
    /\ UNCHANGED <<poolVars, idle, future, execVars, mine, outcome>>

\* `if _pool is None`, read without the lock.
GetPoolCheck(t) ==
    /\ pc[t] = "check"
    /\ GoTo(t, IF pool = NoPool THEN "create" ELSE "return")
    /\ UNCHANGED <<poolVars, idle, future, execVars, mine, attempt, callVars>>

\* Mutant: the second `is None` check, inside the lock, is missing.
GetPoolCreateUnchecked(t) ==
    /\ pc[t] = "create"
    /\ lastPool < MaxPools
    /\ lastPool' = lastPool + 1
    /\ pool' = lastPool'
    /\ GoTo(t, "return")
    /\ UNCHANGED <<restarts, closings, idle, future, execVars, mine, attempt, callVars>>

\* The locked section: create the pool unless another thread just did.
GetPoolCreate(t) ==
    /\ pc[t] = "create"
    /\ IF pool = NoPool
       THEN /\ lastPool < MaxPools
            /\ lastPool' = lastPool + 1
            /\ pool' = lastPool'
       ELSE UNCHANGED <<pool, lastPool>>
    /\ GoTo(t, "return")
    /\ UNCHANGED <<restarts, closings, idle, future, execVars, mine, attempt, callVars>>

\* `return _pool`: a second read without the lock.
GetPoolReturn(t) ==
    /\ pc[t] = "return"
    /\ mine' = [mine EXCEPT ![t] = pool]
    /\ GoTo(t, "acquire")
    /\ UNCHANGED <<poolVars, idle, future, execVars, attempt, callVars>>

\* None.submit raises AttributeError, which `except Exception` scores 0.
SubmitToNone(t) ==
    /\ pc[t] = "acquire" /\ mine[t] = NoPool
    /\ Return(t, FALSE, "no pool")
    /\ UNCHANGED <<poolVars, idle, future, execVars, attempt, answer, lost, calls>>

\* Mutant: no semaphore, the executor's own queue takes every submit.
AcquireUnbounded(t) ==
    /\ pc[t] = "acquire" /\ mine[t] # NoPool
    /\ GoTo(t, "submit")
    /\ UNCHANGED <<poolVars, idle, future, execVars, mine, attempt, callVars>>

\* self.idle.acquire(): wait until a worker is idle.
Acquire(t) ==
    /\ pc[t] = "acquire" /\ mine[t] # NoPool
    /\ idle[mine[t]] > 0
    /\ idle' = [idle EXCEPT ![mine[t]] = @ - 1]
    /\ GoTo(t, "submit")
    /\ UNCHANGED <<poolVars, future, execVars, mine, attempt, callVars>>

\* self.idle.release(), by a failed submit or by the future's done callback.
ReleasePermit(p) == idle' = [idle EXCEPT ![p] = @ + 1]

\* executor.submit accepts the comparison.
SubmitAccepted(t) ==
    /\ pc[t] = "submit" /\ mine[t] \notin broken \cup closed
    /\ future' = [future EXCEPT ![mine[t]][t] = answer[t]]
    /\ GoTo(t, "wait")
    /\ UNCHANGED <<poolVars, idle, execVars, mine, attempt, callVars>>

\* Mutant: a submit that raises keeps its permit.
SubmitBrokenLeaks(t) ==
    /\ pc[t] = "submit" /\ mine[t] \in broken
    /\ GoTo(t, "discard")
    /\ UNCHANGED <<poolVars, idle, future, execVars, mine, attempt, callVars>>

\* executor.submit raises BrokenProcessPool: the permit goes back.
SubmitBroken(t) ==
    /\ pc[t] = "submit" /\ mine[t] \in broken
    /\ ReleasePermit(mine[t])
    /\ GoTo(t, "discard")
    /\ UNCHANGED <<poolVars, future, execVars, mine, attempt, callVars>>

\* executor.submit raises RuntimeError (shut down): scored 0 like any exception.
SubmitRefused(t) ==
    /\ pc[t] = "submit" /\ mine[t] \in closed \ broken
    /\ ReleasePermit(mine[t])
    /\ Return(t, FALSE, "refused")
    /\ UNCHANGED <<poolVars, future, execVars, attempt, answer, lost, calls>>

\* `except BaseException` of submit gives the permit back in either case.
SubmitRaises(t) == IF mine[t] \in broken THEN SubmitBroken(t) ELSE SubmitRefused(t)

\* future.result() returns, or raises what math-verify raised.
FutureResult(t) ==
    /\ pc[t] = "wait" /\ mine[t] # NoPool
    /\ LET f == future[mine[t]][t]
       IN  /\ f \in {"true", "false", "raised"}
           /\ Return(t, f = "true", IF f = "raised" THEN "raised" ELSE "compared")
    /\ UNCHANGED <<poolVars, idle, future, execVars, attempt, answer, lost, calls>>

\* future.result() raises BrokenProcessPool.
FutureBroken(t) ==
    /\ pc[t] = "wait" /\ future[mine[t]][t] = "broken"
    /\ GoTo(t, "discard")
    /\ UNCHANGED <<poolVars, idle, future, execVars, mine, attempt, callVars>>

\* future.result(timeout) gives up on a comparison that is still running.
FutureTimeout(t) ==
    /\ pc[t] = "wait" /\ future[mine[t]][t] = "slow"
    /\ GoTo(t, "discard_stuck")
    /\ UNCHANGED <<poolVars, idle, future, execVars, mine, attempt, callVars>>

-----------------------------------------------------------------------------
(* _discard_pool: its locked section, then what follows outside the lock. *)

\* Only the first caller acts; the rest find the pool replaced.
Replace(p) ==
    /\ pool = p
    /\ pool' = NoPool
    /\ restarts' = restarts + 1

\* Mutant: no retry.
NextAttemptNever(t) ==
    /\ lost' = [lost EXCEPT ![t] = @ \cup {mine[t]}]
    /\ Return(t, FALSE, "died twice")
    /\ UNCHANGED attempt

\* The end of an iteration of the retry loop after BrokenProcessPool.
NextAttempt(t) ==
    /\ attempt' = [attempt EXCEPT ![t] = 2]
    /\ lost' = [lost EXCEPT ![t] = @ \cup {mine[t]}]
    /\ IF attempt[t] = 1
       THEN /\ GoTo(t, "check")
            /\ mine' = [mine EXCEPT ![t] = NoPool]
            /\ UNCHANGED outcome
       ELSE Return(t, FALSE, "died twice")

DiscardBroken(t) ==
    /\ pc[t] = "discard"
    /\ \/ /\ Replace(mine[t])
          /\ GoTo(t, "shutdown")
          /\ UNCHANGED <<mine, attempt, lost, outcome>>
       \/ /\ pool # mine[t]
          /\ NextAttempt(t)
          /\ UNCHANGED <<pool, restarts>>
    /\ UNCHANGED <<closings, lastPool, idle, future, execVars, answer, calls>>

\* pool.executor.shutdown(wait=False, cancel_futures=True), then retry.
ShutdownBroken(t) ==
    /\ pc[t] = "shutdown"
    /\ closed' = closed \cup {mine[t]}
    /\ NextAttempt(t)
    /\ UNCHANGED <<poolVars, idle, future, dead, terminated, broken, deaths, answer, calls>>

DiscardStuck(t) ==
    /\ pc[t] = "discard_stuck"
    /\ \/ /\ Replace(mine[t])
          /\ GoTo(t, "terminate")
          /\ UNCHANGED <<mine, outcome>>
       \/ /\ pool # mine[t]
          /\ Return(t, FALSE, "timeout")
          /\ UNCHANGED <<pool, restarts>>
    /\ UNCHANGED <<closings, lastPool, idle, future, execVars, attempt, answer, lost, calls>>

\* Mutants: the pool of a stuck comparison is only shut down, or only forgotten.
StopStuckPoolByShutdown(p) ==
    /\ closed' = closed \cup {p}
    /\ UNCHANGED <<dead, terminated, broken, deaths>>
StopStuckPoolNot(p) == UNCHANGED execVars

\* What _discard_pool does to the pool of a stuck comparison: terminate_workers.
StopStuckPool(p) ==
    /\ terminated' = terminated \cup {p}
    /\ UNCHANGED <<dead, broken, closed, deaths>>

TerminateStuck(t) ==
    /\ pc[t] = "terminate"
    /\ StopStuckPool(mine[t])
    /\ Return(t, FALSE, "timeout")
    /\ UNCHANGED <<poolVars, idle, future, attempt, answer, lost, calls>>

\* shutdown_pool, which scripts/regrade_eval.py calls once its threads are done.
ShutdownPool ==
    /\ \A t \in Threads : pc[t] = "out"
    /\ pool # NoPool
    /\ pool' = NoPool
    /\ closings' = closings + 1
    /\ closed' = closed \cup {pool}
    /\ UNCHANGED <<restarts, lastPool, idle, future, dead, terminated, broken, deaths,
                   pc, mine, attempt, callVars>>

-----------------------------------------------------------------------------
(* ProcessPoolExecutor: workers and the manager thread. *)

Verdict(a) == CASE a \in {"equal", "slow"} -> "true"
                [] a = "different"         -> "false"
                [] a = "raises"            -> "raised"

\* A comparison ends and its done callback gives the permit back.
FinishComparison(p, t) ==
    /\ Running(p, t) /\ future[p][t] # "kills" /\ p \notin broken
    /\ future' = [future EXCEPT ![p][t] = Verdict(@)]
    /\ ReleasePermit(p)
    /\ UNCHANGED <<poolVars, execVars, pc, mine, attempt, callVars>>

\* The comparison takes its worker down (segfault, memory).
KillWorker(p, t) ==
    /\ future[p][t] = "kills" /\ p \notin dead
    /\ dead' = dead \cup {p}
    /\ UNCHANGED <<poolVars, idle, future, terminated, broken, closed, deaths,
                   pc, mine, attempt, callVars>>

\* A worker dies for a reason of its own.
WorkerDies(p) ==
    /\ p <= lastPool /\ p \notin dead \cup closed
    /\ deaths < MaxDeaths
    /\ deaths' = deaths + 1
    /\ dead' = dead \cup {p}
    /\ UNCHANGED <<poolVars, idle, future, terminated, broken, closed,
                   pc, mine, attempt, callVars>>

\* The manager thread sees a dead worker: submits fail from now on.
MarkBroken(p) ==
    /\ p \in (dead \cup terminated) \ broken
    /\ broken' = broken \cup {p}
    /\ UNCHANGED <<poolVars, idle, future, dead, terminated, closed, deaths,
                   pc, mine, attempt, callVars>>

\* Mutant: the done callback of a failed future is lost.
FailFutureKeepsPermit(p, t) ==
    /\ Running(p, t) /\ p \in broken
    /\ future' = [future EXCEPT ![p][t] = "broken"]
    /\ UNCHANGED <<poolVars, idle, execVars, pc, mine, attempt, callVars>>

\* ... and it fails the futures in flight one after the other.
FailFuture(p, t) ==
    /\ Running(p, t) /\ p \in broken
    /\ future' = [future EXCEPT ![p][t] = "broken"]
    /\ ReleasePermit(p)
    /\ UNCHANGED <<poolVars, execVars, pc, mine, attempt, callVars>>

-----------------------------------------------------------------------------
ThreadStep(t) ==
    \/ GetPoolCheck(t) \/ GetPoolCreate(t) \/ GetPoolReturn(t) \/ SubmitToNone(t)
    \/ Acquire(t) \/ SubmitAccepted(t) \/ SubmitRaises(t)
    \/ FutureResult(t) \/ FutureBroken(t) \/ FutureTimeout(t)
    \/ DiscardBroken(t) \/ ShutdownBroken(t) \/ DiscardStuck(t) \/ TerminateStuck(t)

ExecutorStep(p, t) == FinishComparison(p, t) \/ KillWorker(p, t) \/ FailFuture(p, t)

Next ==
    \/ \E t \in Threads : Call(t) \/ ThreadStep(t)
    \/ \E p \in Pools, t \in Threads : ExecutorStep(p, t)
    \/ \E p \in Pools : WorkerDies(p) \/ MarkBroken(p)
    \/ ShutdownPool

Spec == Init /\ [][Next]_vars

\* Threads are scheduled, workers compute, the manager thread runs.  Nothing makes a
\* slow comparison end: only the thread's own timeout, or its workers' death, does.
Fairness ==
    /\ \A t \in Threads : WF_vars(ThreadStep(t))
    /\ \A p \in Pools : WF_vars(MarkBroken(p))
    /\ \A p \in Pools, t \in Threads :
          /\ WF_vars(future[p][t] # "slow" /\ FinishComparison(p, t))
          /\ WF_vars(KillWorker(p, t))
          /\ WF_vars(FailFuture(p, t))

FairSpec == Spec /\ Fairness

-----------------------------------------------------------------------------
(* Properties *)

\* Every variable keeps its type.
TypeOK ==
    /\ pool \in {NoPool} \cup Pools /\ restarts \in Nat /\ closings \in Nat
    /\ lastPool \in {NoPool} \cup Pools
    /\ idle \in [Pools -> 0 .. Workers]
    /\ future \in [Pools -> [Threads -> {"none"} \cup Answers \cup Done]]
    /\ dead \subseteq Pools /\ terminated \subseteq Pools
    /\ broken \subseteq Pools /\ closed \subseteq Pools /\ deaths \in Nat
    /\ pc \in [Threads -> Locations]
    /\ mine \in [Threads -> {NoPool} \cup Pools]
    /\ attempt \in [Threads -> {1, 2}]
    /\ answer \in [Threads -> Answers]
    /\ lost \in [Threads -> SUBSET Pools]
    /\ outcome \in [Threads -> [score : BOOLEAN, why : Reasons]]
    /\ calls \in Nat

\* _VerifyPool: one permit per worker that is not running a comparison, whatever failed,
\* was abandoned or was retried (reward.py 99-102, 110-118).
PermitsConserved == \A p \in Pools : idle[p] + Cardinality(Occupied(p)) = Workers

\* _discard_pool: only the first caller acts (148-163).  Each pool that is gone was
\* replaced or shut down exactly once ...
EachPoolReplacedOnce ==
    lastPool = restarts + closings + (IF pool = NoPool THEN 0 ELSE 1)

\* ... and no late caller ever stops the pool that took its place.
CurrentPoolUnharmed == pool \notin terminated \cup closed

\* However many threads see one dead pool, it is replaced once, and a late one does not touch
\* the pool that replaced it.
ReplacedOnceAndUnharmed == EachPoolReplacedOnce /\ CurrentPoolUnharmed

\* The comment at 158-160: a thread still holding a replaced pool gets BrokenProcessPool
\* and retries, never the RuntimeError that would score its answer 0.
NeverRefused == \A t \in Threads : outcome[t].why # "refused"

\* A correct answer scores 0 only after two different pools died under it, or when
\* _get_pool handed out None; a wrong answer never scores 1 (201-218).
ScoresAreEarned ==
    \A t \in Threads : pc[t] = "out" =>
        /\ outcome[t].score => answer[t] \in {"equal", "slow"}
        /\ outcome[t].why = "died twice" => Cardinality(lost[t]) = 2
        /\ outcome[t].why # "none" /\ answer[t] = "equal" /\ ~outcome[t].score
             => outcome[t].why \in {"died twice", "no pool"}

\* The module docstring (49-56) lists every way to score 0: the comparison, a pool dead
\* twice, a timeout, an exception from math-verify.  _get_pool returning None is none.
ZeroOnlyForAListedReason ==
    \A t \in Threads :
        outcome[t].why \in {"none", "compared", "raised", "timeout", "died twice"}

\* Every call returns: no thread waits forever for a permit or a result.
EveryCallReturns == \A t \in Threads : pc[t] # "out" ~> pc[t] = "out"

\* A replaced pool stops running comparisons: stuck workers are really terminated.
ReplacedPoolsDrain ==
    \A p \in Pools : (p <= lastPool /\ p # pool) ~> (\A t \in Threads : ~Running(p, t))

\* Each pool is a set of bounded workers: an admitted comparison never queues.
BW == INSTANCE BoundedWorkers WITH
          Jobs <- Threads, busy <- [p \in Pools |-> Occupied(p)]
NeverQueues == BW!Spec
=============================================================================
