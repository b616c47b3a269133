---------------------------- MODULE Checkpoints ----------------------------
(***************************************************************************)
(* The checkpoint directory of a run over several jobs: verl saves every   *)
(* step and deletes old ones, the mirror loop and the stage-out of the job *)
(* shell (slurm/common.sh) keep some of them in checkpoints_kept/ as hard  *)
(* links and prune the rest, signals and node failures end a job anywhere, *)
(* and the next job resumes from the step the tracker file names.          *)
(* latest_checkpointed_iteration.txt is "tracker", 0 while it is missing.  *)
(* A directory is the set of its files, "." standing for the directory.    *)
(***************************************************************************)
EXTENDS Naturals, FiniteSets

CONSTANTS
    LastStep,     \* trainer.total_training_steps; save_freq is 1
    ToKeep,       \* trainer.max_actor_ckpt_to_keep
    Every,        \* MC_KEEP_EVERY
    Keep,         \* MC_KEEP_CHECKPOINTS
    MaxLives,     \* bound: jobs submitted for this run
    MaxSignals,   \* bound: signals (USR1, TERM) that reach one job's shell
    Timely        \* TRUE: the mirror loop sees every step before verl deletes it

ASSUME CheckpointsAssumption ==
    /\ LastStep \in Nat /\ ToKeep \in Nat /\ ToKeep >= 2
    /\ Every \in Nat \ {0} /\ Keep \in Nat
    /\ MaxLives \in Nat /\ MaxSignals \in Nat /\ Timely \in BOOLEAN

VARIABLES
    tracker,   \* latest_checkpointed_iteration.txt
    ckpt,      \* checkpoints/global_step_N
    paths,     \* the steps verl remembers having saved in this job
    phase,     \* the training process: training, writing a file, committing, or off
    step,      \* the step it is at
    kept,      \* checkpoints_kept/global_step_N
    partial,   \* checkpoints_kept/.global_step_N.partial
    pc,        \* mc_keep_checkpoints as the mirror loop and as the shell run it
    latest,    \* the tracker it has read
    todo,      \* the names of its glob that are still to be looked at
    at,        \* the step it is keeping
    files,     \* the files of that step that find has still to hand to ln
    passed,    \* the tracker the last finished pass of the mirror loop read
    raced,     \* history: the steps that both keepers were at at once
    shell,     \* the job shell: mc_run_with_traps and mc_stage_out
    exiting,   \* it runs the EXIT trap
    outs,      \* stage-outs it has finished
    signals,   \* signals it has had
    lives      \* jobs so far

disk == <<tracker, ckpt, paths>>
store == <<kept, partial>>
keeper == <<pc, latest, todo, at, files, passed, raced>>
job == <<shell, exiting, outs, signals, lives>>
vars == <<disk, phase, step, store, keeper, job>>

Steps == 1 .. LastStep
Files == {"model", "optim", "data"}
Actor == {"model", "optim"}           \* what verl deletes of an old step
Keepers == {"loop", "shell"}
Working == {"clear", "make", "enter", "dirs", "link"}   \* a keeper is at a step
Writing == {"model", "optim", "data", "commit"}
None == [s \in Steps |-> {}]
All(v) == [k \in Keepers |-> v]

Init ==
    /\ tracker = 0 /\ ckpt = None /\ paths = {}
    /\ phase = "train" /\ step = 0
    /\ kept = None /\ partial = None
    /\ pc = All("rest") /\ latest = All(0) /\ todo = All({}) /\ at = All(0)
    /\ files = All({}) /\ passed = 0 /\ raced = {}
    /\ shell = "wait" /\ exiting = FALSE /\ outs = 0 /\ signals = 0 /\ lives = 1

Exists(s) == "." \in ckpt[s]
Resumable(s) == Files \subseteq ckpt[s]

----------------------------------------------------------------------------
\* verl's trainer

Outdated ==
    IF Cardinality(paths) >= ToKeep THEN {s \in paths : \A t \in paths : s <= t} ELSE {}

\* A save first makes room: the actor files of the oldest step go.
BeginSave ==
    /\ phase = "train" /\ step < LastStep
    /\ Timely => \A s \in Outdated : s <= passed
    /\ phase' = "model" /\ step' = step + 1
    /\ ckpt' = [s \in Steps |-> IF s \in Outdated THEN ckpt[s] \ Actor
                                ELSE IF s = step + 1 THEN ckpt[s] \cup {"."} ELSE ckpt[s]]
    /\ paths' = paths \ Outdated
    /\ UNCHANGED <<tracker, store, keeper, job>>

WriteFile ==
    /\ phase \in Files
    /\ ckpt' = [ckpt EXCEPT ![step] = @ \cup {phase}]
    /\ phase' = CASE phase = "model" -> "optim" [] phase = "optim" -> "data"
                  [] phase = "data" -> "commit"
    /\ UNCHANGED <<tracker, paths, step, store, keeper, job>>

Commit ==
    /\ phase = "commit"
    /\ tracker' = step /\ paths' = paths \cup {step} /\ phase' = "train"
    /\ UNCHANGED <<ckpt, step, store, keeper, job>>

----------------------------------------------------------------------------
\* mc_keep_checkpoints

\* Mutants: an uncommitted step is kept too; the newest step is left out.
CandidatesAny == {s \in Steps : Exists(s) /\ s % Every = 0}
CandidatesOlder == {s \in Steps : Exists(s) /\ s < tracker /\ s % Every = 0}

\* The directory is listed once and the tracker read once: of the names, the committed
\* multiples of MC_KEEP_EVERY.
Candidates == {s \in Steps : Exists(s) /\ s <= tracker /\ s % Every = 0}

KeepBegin(k) ==
    /\ pc[k] = "rest" /\ (k = "shell" => shell = "keep")
    /\ pc' = [pc EXCEPT ![k] = "scan"]
    /\ latest' = [latest EXCEPT ![k] = tracker]
    /\ todo' = [todo EXCEPT ![k] = Candidates]
    /\ UNCHANGED <<disk, phase, step, store, at, files, passed, raced, job>>

\* Mutant: what is kept is linked again at every pass.
EligibleAgain(s) == "model" \in ckpt[s]

\* When its turn comes: not kept yet, and the weights still there.
Eligible(s) == kept[s] = {} /\ "model" \in ckpt[s]

KeepSkip(k, s) ==
    /\ pc[k] = "scan" /\ s \in todo[k] /\ ~Eligible(s)
    /\ todo' = [todo EXCEPT ![k] = @ \ {s}]
    /\ UNCHANGED <<disk, phase, step, store, pc, latest, at, files, passed, raced, job>>

KeepChoose(k, s) ==
    /\ pc[k] = "scan" /\ s \in todo[k] /\ Eligible(s)
    /\ todo' = [todo EXCEPT ![k] = @ \ {s}]
    /\ at' = [at EXCEPT ![k] = s]
    /\ pc' = [pc EXCEPT ![k] = "clear"]
    /\ raced' = IF \E j \in Keepers \ {k} : pc[j] \in Working /\ at[j] = s
                   THEN raced \cup {s} ELSE raced
    /\ UNCHANGED <<disk, phase, step, store, latest, files, passed, job>>

\* rm -rf of what an earlier keeper left; the other one may be in the same .partial.
KeepClear(k) ==
    /\ pc[k] = "clear" /\ pc' = [pc EXCEPT ![k] = "make"]
    /\ partial' = [partial EXCEPT ![at[k]] = {}]
    /\ UNCHANGED <<disk, phase, step, kept, latest, todo, at, files, passed, raced, job>>

KeepMake(k) ==
    /\ pc[k] = "make" /\ pc' = [pc EXCEPT ![k] = "enter"]
    /\ partial' = [partial EXCEPT ![at[k]] = @ \cup {"."}]
    /\ UNCHANGED <<disk, phase, step, kept, latest, todo, at, files, passed, raced, job>>

\* cd, and find's mkdir -p of the top directory; without a step to enter, give up.
KeepEnter(k) ==
    /\ pc[k] = "enter"
    /\ pc' = [pc EXCEPT ![k] = IF Exists(at[k]) THEN "dirs" ELSE "scan"]
    /\ partial' = [partial EXCEPT ![at[k]] = IF Exists(at[k]) THEN @ \cup {"."} ELSE {}]
    /\ UNCHANGED <<disk, phase, step, kept, latest, todo, at, files, passed, raced, job>>

Linkable(s) == ckpt[s] \ {"optim", "."}

\* find's mkdir -p of actor/ when that is still there, and the list of the second find.
KeepDirs(k) ==
    /\ pc[k] = "dirs" /\ pc' = [pc EXCEPT ![k] = "link"]
    /\ partial' = [partial EXCEPT ![at[k]] =
                       IF "model" \in ckpt[at[k]] THEN @ \cup {".", "actor"} ELSE @]
    /\ files' = [files EXCEPT ![k] = Linkable(at[k])]
    /\ UNCHANGED <<disk, phase, step, kept, latest, todo, at, passed, raced, job>>

Parent(f) == IF f = "model" THEN "actor" ELSE "."

\* An ln that fails does not fail find -exec ... \;.
KeepLink(k, f) ==
    /\ pc[k] = "link" /\ f \in files[k]
    /\ files' = [files EXCEPT ![k] = @ \ {f}]
    /\ partial' = IF f \in ckpt[at[k]] /\ Parent(f) \in partial[at[k]]
                    THEN [partial EXCEPT ![at[k]] = @ \cup {f}] ELSE partial
    /\ UNCHANGED <<disk, phase, step, kept, pc, latest, todo, at, passed, raced, job>>

\* find itself fails when actor/ is gone before it gets there.
KeepFail(k) ==
    /\ pc[k] = "dirs" \/ (pc[k] = "link" /\ "model" \in files[k])
    /\ "model" \notin ckpt[at[k]]
    /\ partial' = [partial EXCEPT ![at[k]] = {}]
    /\ files' = [files EXCEPT ![k] = {}]
    /\ pc' = [pc EXCEPT ![k] = "scan"]
    /\ UNCHANGED <<disk, phase, step, kept, latest, todo, at, passed, raced, job>>

\* mv: into the kept directory when that exists by now, and nothing when the other keeper
\* has already moved the .partial away.
KeepPlace(k) ==
    /\ pc[k] = "link" /\ files[k] = {}
    /\ kept' = [kept EXCEPT ![at[k]] = IF partial[at[k]] = {} THEN @
                                       ELSE IF @ = {} THEN partial[at[k]]
                                       ELSE @ \cup {"nested"}]
    /\ partial' = [partial EXCEPT ![at[k]] = {}]
    /\ pc' = [pc EXCEPT ![k] = "scan"]
    /\ UNCHANGED <<disk, phase, step, latest, todo, at, files, passed, raced, job>>

KeepEnd(k) ==
    /\ pc[k] = "scan" /\ todo[k] = {}
    /\ pc' = [pc EXCEPT ![k] = "rest"]
    /\ passed' = IF k = "loop" THEN latest[k] ELSE passed
    /\ shell' = IF k = "shell" THEN "prune" ELSE shell
    /\ UNCHANGED <<disk, phase, step, store, latest, todo, at, files, raced, exiting, outs,
                   signals, lives>>

----------------------------------------------------------------------------
\* mc_stage_out and the traps

\* Mutant: pruning by age alone.
StaleAndTracker ==
    {s \in Steps : Exists(s) /\ Cardinality({t \in Steps : Exists(t) /\ t > s}) >= Keep}

\* Everything but the Keep newest directories, never the tracked one.
Stale ==
    {s \in Steps : /\ Exists(s) /\ s # tracker
                   /\ Cardinality({t \in Steps : Exists(t) /\ t > s}) >= Keep}

Prune ==
    /\ shell = "prune" /\ shell' = "stop"
    /\ ckpt' = [s \in Steps |-> IF s \in Stale THEN {} ELSE ckpt[s]]
    /\ UNCHANGED <<tracker, paths, phase, step, store, keeper, exiting, outs, signals, lives>>

\* The mirror loop is killed; after a signal the EXIT trap stages out once more.
StageOutEnds ==
    /\ shell = "stop" /\ shell' = IF exiting THEN "gone" ELSE "keep"
    /\ exiting' = TRUE /\ outs' = outs + 1
    /\ pc' = [pc EXCEPT !["loop"] = "dead"]
    /\ UNCHANGED <<disk, phase, step, store, latest, todo, at, files, passed, raced, signals,
                   lives>>

\* The training process ends, finished or failed: the EXIT trap.
ChildEnds ==
    /\ shell = "wait" /\ shell' = "keep" /\ exiting' = TRUE
    /\ phase' = "off"
    /\ UNCHANGED <<disk, step, store, keeper, outs, signals, lives>>

\* _mc_on_signal: the child is killed and the stage-out starts, or starts over.
Signal ==
    /\ shell # "gone" /\ signals < MaxSignals
    /\ signals' = signals + 1 /\ shell' = "keep" /\ phase' = "off"
    /\ pc' = [pc EXCEPT !["shell"] = "rest"]
    /\ UNCHANGED <<disk, step, store, latest, todo, at, files, passed, raced, exiting, outs,
                   lives>>

\* The node fails or the grace period is over: everything stops at once.
Vanish ==
    /\ shell # "gone" /\ shell' = "gone" /\ phase' = "off"
    /\ pc' = All("dead")
    /\ UNCHANGED <<disk, step, store, latest, todo, at, files, passed, raced, exiting, outs,
                   signals, lives>>

\* The next job resumes after the tracked step (trainer.resume_mode auto).
NextJob ==
    /\ shell = "gone" /\ lives < MaxLives
    /\ tracker \in Steps => Resumable(tracker)
    /\ lives' = lives + 1 /\ shell' = "wait" /\ exiting' = FALSE /\ outs' = 0 /\ signals' = 0
    /\ phase' = "train" /\ step' = tracker /\ paths' = {}
    /\ pc' = All("rest") /\ todo' = All({}) /\ files' = All({}) /\ at' = All(0)
    /\ latest' = All(0) /\ passed' = 0
    /\ UNCHANGED <<tracker, ckpt, store, raced>>

TrainerStep == BeginSave \/ WriteFile \/ Commit

KeeperStep(k) ==
    \/ KeepBegin(k) \/ KeepClear(k) \/ KeepMake(k) \/ KeepEnter(k) \/ KeepDirs(k)
    \/ KeepFail(k) \/ KeepPlace(k) \/ KeepEnd(k)
    \/ \E s \in Steps : KeepSkip(k, s) \/ KeepChoose(k, s)
    \/ \E f \in Files : KeepLink(k, f)

ShellStep == Prune \/ StageOutEnds \/ ChildEnds \/ Signal \/ Vanish \/ NextJob

Next == TrainerStep \/ ShellStep \/ \E k \in Keepers : KeeperStep(k)

Spec == Init /\ [][Next]_vars

----------------------------------------------------------------------------
\* Types; kept checkpoints never hold the optimizer (common.sh 301).
TypeOK ==
    /\ tracker \in 0 .. LastStep /\ paths \subseteq Steps
    /\ ckpt \in [Steps -> SUBSET (Files \cup {"."})]
    /\ phase \in Writing \cup {"train", "off"} /\ step \in 0 .. LastStep
    /\ kept \in [Steps -> SUBSET {"model", "data", "actor", ".", "nested"}]
    /\ partial \in [Steps -> SUBSET {"model", "data", "actor", "."}]
    /\ pc \in [Keepers -> Working \cup {"rest", "scan", "dead"}]
    /\ latest \in [Keepers -> 0 .. LastStep] /\ todo \in [Keepers -> SUBSET Steps]
    /\ at \in [Keepers -> 0 .. LastStep] /\ files \in [Keepers -> SUBSET {"model", "data"}]
    /\ passed \in 0 .. LastStep /\ raced \subseteq Steps
    /\ shell \in {"wait", "keep", "prune", "stop", "gone"} /\ exiting \in BOOLEAN
    /\ outs \in Nat /\ signals \in Nat /\ lives \in Nat

\* Whatever is saved, deleted, pruned or killed, the step the tracker names has all its
\* files: the next job can always resume.
TrackerIsResumable == tracker \in Steps => Resumable(tracker)

\* A step that is being written, for the first time or again after a kill, has no hard
\* links: a kept checkpoint never changes under its name (common.sh 314, "completed").
KeptStepsAreNotRewritten == phase \in Writing => kept[step] = {} /\ partial[step] = {}

Whole(s) == {"model", "data"} \subseteq kept[s]

\* With a mirror pass between two saves, no Every-th committed step loses its weights before
\* all of it is kept (decision 016: the last good one was gone when a diverged run was
\* stopped), unless the loop and the stage-out were at that step at once (common.sh 420).
NoLandmarkLost ==
    \A s \in Steps \ raced :
       s <= tracker /\ s % Every = 0 /\ "model" \notin ckpt[s] => Whole(s)

\* mc_stage_out, "Idempotent": after a finished stage-out another one of the same job
\* changes no checkpoint, and no kept one that the mirror loop was not at as well.
StageOutIsIdempotent ==
    [][outs > 0 /\ outs' >= outs =>
          UNCHANGED <<ckpt, tracker>> /\ \A s \in Steps \ raced : kept'[s] = kept[s]]_vars

\* mc_keep_checkpoints, "model weights, configs and dataloader state": a kept step has them.
KeptAreWhole == \A s \in Steps : kept[s] # {} => Whole(s)
=============================================================================
