------------------------------- MODULE Resubmit -------------------------------
(***************************************************************************)
(* One run name in the SLURM queue: slurm/common.sh's bad-node exit, which *)
(* resubmits a training job elsewhere and keeps it ahead of the twins that *)
(* wait behind it.  SLURM itself is external: singleton waits for every    *)
(* unfinished job of the name with a lower id, afterany for one job's end. *)
(***************************************************************************)
EXTENDS Naturals, FiniteSets, FiniteSetsExt

CONSTANTS
    Jobs,        \* job ids, 1 .. n: SLURM numbers submissions in order
    MaxTries,    \* MC_RESUBMIT_MAX
    MaxUser,     \* bound: submissions of make sbatch-train
    MaxCancels,  \* bound: pending jobs that the user cancels
    MaxFaults,   \* bound: SLURM commands that fail, jobs killed in the exit
    Hurried      \* TRUE: the user may submit and cancel in the middle of a bad-node exit

ASSUME ResubmitAssumption ==
    /\ Jobs \subseteq Nat \ {0} /\ IsFiniteSet(Jobs)
    /\ {MaxTries, MaxUser, MaxCancels, MaxFaults} \subseteq Nat /\ Hurried \in BOOLEAN

VARIABLES
    state,    \* the job in SLURM, and where its bad-node exit is
    single,   \* it has Dependency=singleton
    after,    \* it has Dependency=afterany:<job>, 0 for none
    tries,    \* MC_RESUBMIT_ATTEMPT
    others,   \* the pending same-name jobs its bad-node exit listed
    todo,     \* those not re-pointed yet
    new,      \* the job it submitted, 0 for none
    user,     \* submissions by the user so far
    cancels, faults

deps == <<single, after>>
exit == <<others, todo, new>>
bounds == <<user, cancels, faults>>
vars == <<state, deps, tries, exit, bounds>>

Pending == {"pending", "held"}                        \* squeue -t PD lists both
Exiting == {"list", "submit", "repoint", "quit"}      \* landed on a bad node
Free == {j \in Jobs : state[j] = "none"}
Resubmitting == \E j \in Jobs : state[j] \in {"submit", "repoint"}

Init ==
    /\ state = [j \in Jobs |-> "none"]
    /\ single = [j \in Jobs |-> FALSE] /\ after = [j \in Jobs |-> 0]
    /\ tries = [j \in Jobs |-> 0]
    /\ others = [j \in Jobs |-> {}] /\ todo = [j \in Jobs |-> {}] /\ new = [j \in Jobs |-> 0]
    /\ user = 0 /\ cancels = 0 /\ faults = 0

----------------------------------------------------------------------------
\* SLURM and its user

\* make sbatch-train: every submission by hand is a singleton.
Submit ==
    /\ Free # {} /\ user < MaxUser /\ user' = user + 1
    /\ Hurried \/ ~Resubmitting
    /\ state' = [state EXCEPT ![Min(Free)] = "pending"]
    /\ single' = [single EXCEPT ![Min(Free)] = TRUE]
    /\ UNCHANGED <<after, tries, exit, cancels, faults>>

Cancel(j) ==
    /\ state[j] \in Pending /\ cancels < MaxCancels /\ cancels' = cancels + 1
    /\ Hurried \/ ~Resubmitting
    /\ state' = [state EXCEPT ![j] = "ended"]
    /\ UNCHANGED <<deps, tries, exit, user, faults>>

Done(j) == state[j] = "ended"

Ready(j) ==
    /\ state[j] = "pending"
    /\ single[j] => \A i \in Jobs : i < j => Done(i)
    /\ after[j] # 0 => Done(after[j])

\* A job starts, on a node that passes the probes or on one that does not.
Start(j) ==
    /\ Ready(j)
    /\ \E s \in {"training", "list"} : state' = [state EXCEPT ![j] = s]
    /\ UNCHANGED <<deps, tries, exit, bounds>>

\* A training job ends, or a job has exited with code 6.
End(j) ==
    /\ state[j] \in {"training", "quit"}
    /\ state' = [state EXCEPT ![j] = "ended"]
    /\ UNCHANGED <<deps, tries, exit, bounds>>

\* A job is killed inside its bad-node exit.
Die(j) ==
    /\ state[j] \in Exiting /\ faults < MaxFaults /\ faults' = faults + 1
    /\ state' = [state EXCEPT ![j] = "ended"]
    /\ UNCHANGED <<deps, tries, exit, user, cancels>>

----------------------------------------------------------------------------
\* mc_resubmit_elsewhere, run by job j

UsedUp(j) ==
    /\ state[j] = "list" /\ tries[j] >= MaxTries
    /\ state' = [state EXCEPT ![j] = "quit"]
    /\ UNCHANGED <<deps, tries, exit, bounds>>

\* The pending jobs of the name; an error of squeue leaves the list empty.
List(j) ==
    /\ state[j] = "list" /\ tries[j] < MaxTries
    /\ state' = [state EXCEPT ![j] = "submit"]
    /\ \E failed \in BOOLEAN :
          LET pd == IF failed THEN {} ELSE {i \in Jobs : state[i] \in Pending}
          IN  /\ failed => faults < MaxFaults
              /\ faults' = IF failed THEN faults + 1 ELSE faults
              /\ others' = [others EXCEPT ![j] = pd]
              /\ todo' = [todo EXCEPT ![j] = pd]
    /\ UNCHANGED <<deps, tries, new, user, cancels>>

\* Mutant: the new job is not held while the twins are re-pointed.
SbatchNotHeld(j) ==
    /\ state[j] = "submit" /\ Free # {}
    /\ LET n == Min(Free)
       IN  /\ state' = [state EXCEPT ![n] = "pending", ![j] = "repoint"]
           /\ single' = [single EXCEPT ![n] = others[j] = {}]
           /\ tries' = [tries EXCEPT ![n] = tries[j] + 1]
           /\ new' = [new EXCEPT ![j] = n]
    /\ UNCHANGED <<after, others, todo, bounds>>

\* Mutant: the new job is a singleton also when twins wait.
SbatchSingleton(j) ==
    /\ state[j] = "submit" /\ Free # {}
    /\ LET n == Min(Free)
       IN  /\ state' = [state EXCEPT ![n] = IF others[j] = {} THEN "pending" ELSE "held",
                                     ![j] = "repoint"]
           /\ single' = [single EXCEPT ![n] = TRUE]
           /\ tries' = [tries EXCEPT ![n] = tries[j] + 1]
           /\ new' = [new EXCEPT ![j] = n]
    /\ UNCHANGED <<after, others, todo, bounds>>

\* Without twins the new job is a singleton, with twins it is held and has no dependency.
Sbatch(j) ==
    /\ state[j] = "submit" /\ Free # {}
    /\ LET n == Min(Free)
       IN  /\ state' = [state EXCEPT ![n] = IF others[j] = {} THEN "pending" ELSE "held",
                                     ![j] = "repoint"]
           /\ single' = [single EXCEPT ![n] = others[j] = {}]
           /\ tries' = [tries EXCEPT ![n] = tries[j] + 1]
           /\ new' = [new EXCEPT ![j] = n]
    /\ UNCHANGED <<after, others, todo, bounds>>

SbatchFails(j) ==
    /\ state[j] = "submit" /\ faults < MaxFaults /\ faults' = faults + 1
    /\ state' = [state EXCEPT ![j] = "quit"]
    /\ UNCHANGED <<deps, tries, exit, user, cancels>>

\* Mutant: the new dependency replaces the singleton of the twin.
RepointAfterOnly(j, t) ==
    /\ state[j] = "repoint" /\ t \in todo[j] /\ state[t] \in Pending
    /\ after' = [after EXCEPT ![t] = new[j]] /\ single' = [single EXCEPT ![t] = FALSE]
    /\ todo' = [todo EXCEPT ![j] = @ \ {t}]
    /\ UNCHANGED <<state, tries, others, new, bounds>>

\* Mutant: the twin stays a singleton and does not wait for the new job.
RepointNotAfter(j, t) ==
    /\ state[j] = "repoint" /\ t \in todo[j] /\ state[t] \in Pending
    /\ todo' = [todo EXCEPT ![j] = @ \ {t}]
    /\ UNCHANGED <<state, deps, tries, others, new, bounds>>

Repoint(j, t) ==
    /\ state[j] = "repoint" /\ t \in todo[j] /\ state[t] \in Pending
    /\ after' = [after EXCEPT ![t] = new[j]] /\ single' = [single EXCEPT ![t] = TRUE]
    /\ todo' = [todo EXCEPT ![j] = @ \ {t}]
    /\ UNCHANGED <<state, tries, others, new, bounds>>

\* A twin that is no longer pending, or a failing scontrol: the new job is cancelled, unless
\* scancel fails too, which leaves it held.
RepointFails(j, t) ==
    /\ state[j] = "repoint" /\ t \in todo[j]
    /\ \E update, scancel \in 0 .. 1 :      \* 1 for a command that SLURM refuses
          /\ update = 0 => state[t] \notin Pending
          /\ faults + update + scancel <= MaxFaults
          /\ faults' = faults + update + scancel
          /\ state' = [state EXCEPT ![j] = "quit",
                                    ![new[j]] = IF scancel = 1 THEN @ ELSE "ended"]
    /\ UNCHANGED <<deps, tries, exit, user, cancels>>

\* scontrol release: only for a job that was submitted held.
Release(j) ==
    /\ state[j] = "repoint" /\ todo[j] = {}
    /\ state' = [state EXCEPT ![j] = "quit",
                              ![new[j]] = IF @ = "held" THEN "pending" ELSE @]
    /\ UNCHANGED <<deps, tries, exit, bounds>>

\* "release it by hand": the new job stays held.
ReleaseFails(j) ==
    /\ state[j] = "repoint" /\ todo[j] = {} /\ others[j] # {}
    /\ faults < MaxFaults /\ faults' = faults + 1
    /\ state' = [state EXCEPT ![j] = "quit"]
    /\ UNCHANGED <<deps, tries, exit, user, cancels>>

Script(j) ==
    \/ UsedUp(j) \/ List(j) \/ Sbatch(j) \/ SbatchFails(j)
    \/ \E t \in Jobs : Repoint(j, t) \/ RepointFails(j, t)
    \/ Release(j) \/ ReleaseFails(j)

JobStep(j) == Start(j) \/ End(j) \/ Script(j)

Next == Submit \/ \E j \in Jobs : JobStep(j) \/ Cancel(j) \/ Die(j)

Spec == Init /\ [][Next]_vars

\* SLURM starts what may start, a running job goes on and ends (wall time).
FairSpec == Spec /\ \A j \in Jobs : WF_vars(JobStep(j))

----------------------------------------------------------------------------
TypeOK ==
    /\ state \in [Jobs -> {"none", "training", "ended"} \cup Pending \cup Exiting]
    /\ single \in [Jobs -> BOOLEAN] /\ after \in [Jobs -> Jobs \cup {0}]
    /\ tries \in [Jobs -> 0 .. MaxTries]
    /\ others \in [Jobs -> SUBSET Jobs] /\ todo \in [Jobs -> SUBSET Jobs]
    /\ new \in [Jobs -> Jobs \cup {0}]
    /\ user \in 0 .. MaxUser /\ cancels \in 0 .. MaxCancels /\ faults \in 0 .. MaxFaults

\* "two live jobs on one run dir would corrupt it": at most one job of the name trains,
\* whatever the bad-node exits of several jobs, failing commands, kills and users do to the
\* queue, as long as the user leaves the queue alone between squeue and release.
OneWriter == Cardinality({j \in Jobs : state[j] = "training"}) <= 1

\* "keeps the run's queue order": no twin that a bad-node exit found pending trains while the
\* resubmission is released and still waits for its start; and the queue is well-typed.
NotOvertaken ==
    /\ TypeOK
    /\ \A j \in Jobs : \A t \in others[j] :
        ~(state[t] = "training" /\ new[j] # 0 /\ state[new[j]] = "pending")

\* Unless a command fails or a job is killed in its exit, the queue drains: the dependencies
\* never wait on each other in a circle and no job stays held.
QueueDrains == \A j \in Jobs : state[j] = "pending" ~> Done(j) \/ faults > 0
===============================================================================
