----------------------------- MODULE AgentLoop -----------------------------
(***************************************************************************)
(* How a prompt becomes a GRPO group (src/src/mixed_cuts/agent_loop.py and *)
(* scheduler.py): the coroutine _run_prompt plans n sessions, spawns one   *)
(* task for each, waits until all have settled and publishes the group's   *)
(* status in TransferQueue.  Coroutines of different prompts and session   *)
(* tasks interleave at every await; a session may fail before or after it  *)
(* has written its sample; TransferQueue may refuse a put.  The sessions   *)
(* (_run_agent_loop), TransferQueue and the ReplayBuffer, which takes a    *)
(* finished group and clears a failed one, are verl's and external.        *)
(***************************************************************************)
EXTENDS Naturals, FiniteSets

CONSTANTS Prompts,
          NStd, NCuts,  \* mixed_cuts.n_std, mixed_cuts.n_cuts
          Enabled,      \* mixed_cuts.enabled
          Mode,         \* Mode[p]: "train", "greedy" (do_sample=False) or "validate"
          Asked,        \* Asked[p]: rollouts wanted, __rollout_n__ or the configured n
          MaxFaults     \* bound: puts that TransferQueue refuses

ASSUME GroupAssumption == NStd \in Nat /\ NCuts \in Nat /\ NStd + NCuts > 0
ASSUME PromptAssumption ==
    /\ Enabled \in BOOLEAN /\ MaxFaults \in Nat
    /\ Mode \in [Prompts -> {"train", "greedy", "validate"}]
    /\ Asked \in [Prompts -> Nat \ {0}]

\* group_size: D4 makes it the sum of the two parts.
GroupSize == NStd + NCuts
Active == Enabled /\ NCuts > 0

VARIABLES
    at,       \* where each _run_prompt stands
    plan,     \* plan[p]: the kind of each session that was spawned, by session_id
    session,  \* session[p]: the state of each of these tasks
    status,   \* TransferQueue: the status tag of each prompt
    samples,  \* TransferQueue: the sessions whose sample is stored
    taken,    \* ReplayBuffer: what it took for training, a set of sessions or "nothing"
    faults    \* puts refused so far

loopVars == <<at, plan, session, status, samples, taken, faults>>

NoSessions == <<>>
Settled(p) == \A i \in DOMAIN session[p] : session[p][i] \in {"ok", "error"}

LoopInit ==
    /\ at = [p \in Prompts |-> "start"]
    /\ plan = [p \in Prompts |-> NoSessions]
    /\ session = [p \in Prompts |-> NoSessions]
    /\ status = [p \in Prompts |-> "none"]
    /\ samples = [p \in Prompts |-> {}]
    /\ taken = [p \in Prompts |-> "undecided"]
    /\ faults = 0

-----------------------------------------------------------------------------
(* plan_group *)

ForceStandard(p) == Mode[p] # "train"
Refused(p) == ~ForceStandard(p) /\ Active /\ Asked[p] # GroupSize

\* Mutant: greedy prompts get CUTS sessions too.
KindsAlways(p) ==
    [i \in 0 .. Asked[p] - 1 |->
        IF Active /\ i >= NStd THEN "cuts" ELSE "std"]

\* Standard sessions first, CUTS sessions last.
Kinds(p) ==
    [i \in 0 .. Asked[p] - 1 |->
        IF ~ForceStandard(p) /\ Active /\ i >= NStd THEN "cuts" ELSE "std"]

-----------------------------------------------------------------------------
(* _run_prompt, from one await to the next *)

GoTo(p, l) == at' = [at EXCEPT ![p] = l]

\* A put of the status tag; or one that raises at the await, whether it has landed or not.
Put(p, tag) ==
    /\ status' = [status EXCEPT ![p] = tag]
    /\ UNCHANGED faults
PutRaises(p, tag) ==
    /\ faults < MaxFaults
    /\ faults' = faults + 1
    /\ status' \in {status, [status EXCEPT ![p] = tag]}

\* The first put is outside the try: when it raises, the coroutine is over.
Announce(p) ==
    /\ at[p] = "start"
    /\ \/ Put(p, "running") /\ GoTo(p, "plan")
       \/ PutRaises(p, "running") /\ GoTo(p, "raised")
    /\ UNCHANGED <<plan, session, samples, taken>>

\* Plan the group and create every task, without an await in between.
Spawn(p) ==
    /\ at[p] = "plan" /\ ~Refused(p)
    /\ plan' = [plan EXCEPT ![p] = Kinds(p)]
    /\ session' = [session EXCEPT ![p] = [i \in 0 .. Asked[p] - 1 |-> "running"]]
    /\ GoTo(p, "settle")
    /\ UNCHANGED <<status, samples, taken, faults>>

\* plan_group raises ValueError: no task exists yet.
RefusePlan(p) ==
    /\ at[p] = "plan" /\ Refused(p)
    /\ GoTo(p, "fail")
    /\ UNCHANGED <<plan, session, status, samples, taken, faults>>

\* Mutant: the first error is enough to publish the failure.
SettleEarly(p) ==
    /\ at[p] = "settle"
    /\ \/ Settled(p) \/ \E i \in DOMAIN session[p] : session[p][i] = "error"
    /\ GoTo(p, IF \E i \in DOMAIN session[p] : session[p][i] = "error"
               THEN "publish_failure" ELSE "publish_finished")
    /\ UNCHANGED <<plan, session, status, samples, taken, faults>>

\* _settle_session_tasks returns the errors once every task is done.
Settle(p) ==
    /\ at[p] = "settle" /\ Settled(p)
    /\ GoTo(p, IF \E i \in DOMAIN session[p] : session[p][i] = "error"
               THEN "publish_failure" ELSE "publish_finished")
    /\ UNCHANGED <<plan, session, status, samples, taken, faults>>

\* The put of the terminal status; when it raises, the except branch tries "failure".
Publish(p) ==
    /\ at[p] \in {"publish_finished", "publish_failure"}
    /\ LET tag == IF at[p] = "publish_finished" THEN "finished" ELSE "failure"
       IN  \/ Put(p, tag) /\ GoTo(p, "done")
           \/ PutRaises(p, tag) /\ GoTo(p, "fail")
    /\ UNCHANGED <<plan, session, samples, taken>>

\* Mutant: the except branch only logs.
FailSilently(p) ==
    /\ at[p] = "fail" /\ Settled(p)
    /\ GoTo(p, "done")
    /\ UNCHANGED <<plan, session, samples, taken, status, faults>>

\* except: settle whatever was spawned, then publish the failure; a second raise ends it.
Fail(p) ==
    /\ at[p] = "fail" /\ Settled(p)
    /\ \/ Put(p, "failure") /\ GoTo(p, "done")
       \/ PutRaises(p, "failure") /\ GoTo(p, "raised")
    /\ UNCHANGED <<plan, session, samples, taken>>

-----------------------------------------------------------------------------
(* A session task: one write of its sample, then its end. *)

Store(p, i) ==
    /\ i \in DOMAIN session[p] /\ session[p][i] = "running"
    /\ session' = [session EXCEPT ![p][i] = "stored"]
    /\ samples' = [samples EXCEPT ![p] = @ \cup {i}]
    /\ UNCHANGED <<at, plan, status, taken, faults>>

EndSession(p, i) ==
    /\ i \in DOMAIN session[p]
    /\ \/ /\ session[p][i] = "stored"
          /\ session' = [session EXCEPT ![p][i] = "ok"]
       \/ /\ session[p][i] \in {"running", "stored"}
          /\ session' = [session EXCEPT ![p][i] = "error"]
    /\ UNCHANGED <<at, plan, status, samples, taken, faults>>

-----------------------------------------------------------------------------
(* ReplayBuffer *)

TakeGroup(p) ==
    /\ status[p] = "finished" /\ taken[p] = "undecided"
    /\ taken' = [taken EXCEPT ![p] = "group"]
    /\ UNCHANGED <<at, plan, session, status, samples, faults>>

ClearGroup(p) ==
    /\ status[p] = "failure" /\ taken[p] = "undecided"
    /\ taken' = [taken EXCEPT ![p] = "nothing"]
    /\ samples' = [samples EXCEPT ![p] = {}]
    /\ UNCHANGED <<at, plan, session, status, faults>>

-----------------------------------------------------------------------------
PromptStep(p) ==
    \/ Announce(p) \/ Spawn(p) \/ RefusePlan(p) \/ Settle(p) \/ Publish(p) \/ Fail(p)
    \/ TakeGroup(p) \/ ClearGroup(p)
SessionStep(p) == \E i \in 0 .. Asked[p] - 1 : Store(p, i) \/ EndSession(p, i)

LoopNext == \E p \in Prompts : PromptStep(p) \/ SessionStep(p)

LoopSpec == LoopInit /\ [][LoopNext]_loopVars

\* The event loop runs every ready coroutine and task; a generation ends (max_tokens).
LoopFairness == \A p \in Prompts : WF_loopVars(PromptStep(p)) /\ WF_loopVars(SessionStep(p))
LoopFairSpec == LoopSpec /\ LoopFairness

-----------------------------------------------------------------------------
(* Properties *)

\* Every variable keeps its type, and what is stored or taken belongs to a spawned session.
LoopTypeOK ==
    /\ at \in [Prompts -> {"start", "plan", "settle", "publish_finished", "publish_failure",
                           "fail", "done", "raised"}]
    /\ \A p \in Prompts :
          /\ DOMAIN plan[p] = DOMAIN session[p]
          /\ \A i \in DOMAIN plan[p] : /\ plan[p][i] \in {"std", "cuts"}
                                       /\ session[p][i] \in {"running", "stored", "ok", "error"}
          /\ samples[p] \subseteq DOMAIN session[p]
    /\ status \in [Prompts -> {"none", "running", "finished", "failure"}]
    /\ taken \in [Prompts -> {"undecided", "group", "nothing"}]
    /\ faults \in 0 .. MaxFaults

\* agent_loop.py 119-120: "Publish a terminal status only after every session settles, so no
\* sibling can write after ReplayBuffer clears a failed group."
NothingWrittenAfterClear ==
    \A p \in Prompts : taken[p] = "nothing" => samples[p] = {}

\* What the trainer takes is the whole group, with the configured split: the first n_std
\* sessions standard and the other n_cuts CUTS, or all standard for a validation or greedy
\* prompt and when CUTS is off (scheduler.py 116-163).
TakenGroupsAreWhole ==
    \A p \in Prompts : taken[p] = "group" =>
        /\ samples[p] = 0 .. Asked[p] - 1
        /\ {i \in DOMAIN plan[p] : plan[p][i] = "cuts"} =
               IF Mode[p] = "train" /\ Enabled THEN NStd .. NStd + NCuts - 1 ELSE {}

\* Without a refused put, every prompt ends with a status, and a failed group is empty.
EveryPromptEnds ==
    \A p \in Prompts : <>(\/ taken[p] = "group"
                          \/ taken[p] = "nothing" /\ samples[p] = {}
                          \/ at[p] = "raised")
=============================================================================
