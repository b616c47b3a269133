---------------------------- MODULE Submissions ----------------------------
(***************************************************************************)
(* What one submission after another may do to a run directory: the gates  *)
(* of mc_job_init and mc_train_main (the node pin, the preflight, the      *)
(* recipe check), the trainer's saves, a Kaggle session that begins with a *)
(* pull; and check_resume.py's verdict on a kill and its resumption.       *)
(* A run is a record of                                                    *)
(*   dirs     for each home of a run directory (a node, if checkpoints are *)
(*            on its scratch, else "shared") the configurations its jobs   *)
(*            saved, oldest first, and the step and configuration of every *)
(*            checkpoint of the lineage the tracker names;                 *)
(*   nodes    what node.txt lists;                                         *)
(*   job      the running job [home, config, step], or NoJob;              *)
(*   agreed, moved   the configurations and nodes that a user allowed.     *)
(***************************************************************************)
EXTENDS Integers, Sequences, FiniteSets, SequencesExt

NoJob == [home |-> "none"]
Fresh == [configs |-> <<>>, lineage |-> <<>>, pulled |-> {}]
NewRun(nodes) ==
    [dirs |-> [h \in nodes \cup {"shared"} |-> Fresh], nodes |-> <<>>, job |-> NoJob, agreed |-> {}, moved |-> FALSE]

Home(scratch, node) == IF scratch THEN node ELSE "shared"
Tracked(dir) == dir.lineage # <<>>

----------------------------------------------------------------------------
\* check_recipe.recipe: the length of the schedule counts only when the rate is not constant.
Recipe(config) ==
    [keys |-> config.keys, schedule |-> config.schedule,
     length |-> IF config.schedule = "constant" THEN 0 ELSE config.length]

\* Mutant: the oldest configuration decides.
DiffersFromOldest(dir, config) ==
    Tracked(dir) /\ dir.configs # <<>> /\ Recipe(dir.configs[1]) # Recipe(config)

\* differences: nothing without a checkpoint or an earlier configuration, else the newest one decides.
Differs(dir, config) ==
    Tracked(dir) /\ dir.configs # <<>> /\ Recipe(Last(dir.configs)) # Recipe(config)

\* mc_check_node_pin: checkpoints on scratch only resume on the node that wrote them.
Misplaced(run, scratch, node) ==
    scratch /\ run.nodes # <<>> /\ Last(run.nodes) # node /\ ~Tracked(run.dirs[Home(scratch, node)])

\* A job [node, config, allowNode, allowRecipe, passes] starts: the pin, then node.txt, then the
\* preflight (passes or not), then the recipe check, then the trainer, whose Hydra saves the
\* configuration before anything else.
Submit(run, scratch, job) ==
    LET home == Home(scratch, job.node)
        dir == run.dirs[home]
        refused == Misplaced(run, scratch, job.node) /\ ~job.allowNode
        listed == [run EXCEPT !.nodes = Append(@, job.node),
                              !.moved = @ \/ Misplaced(run, scratch, job.node)]
    IN  IF refused THEN run
        ELSE IF ~job.passes \/ (Differs(dir, job.config) /\ ~job.allowRecipe) THEN listed
        ELSE [listed EXCEPT
                !.dirs[home].configs = Append(@, job.config),
                !.job = [home |-> home, config |-> job.config, step |-> Len(dir.lineage)],
                !.agreed = IF Differs(dir, job.config) THEN @ \cup {Recipe(job.config)} ELSE @]

\* The trainer resumes from the tracker (resume_mode auto) and saves the next step.
Save(run) == [run EXCEPT !.dirs[run.job.home].lineage = Append(@, run.job.config), !.job.step = @ + 1]
End(run) == [run EXCEPT !.job = NoJob]

\* A new Kaggle session: hub_sync.pull brings the newest checkpoint and the log, but no jobs/.
Session(run) ==
    [run EXCEPT !.dirs["shared"].configs = <<>>,
                !.dirs["shared"].pulled = @ \cup {Len(run.dirs["shared"].lineage)}]

----------------------------------------------------------------------------
\* "a run dir is never resumed under another recipe": two neighbouring steps were trained under one
\* recipe, unless a user once allowed the later one in this run, or a pull lies between them, after
\* which the check finds nothing to compare with.
OneRecipe(run) ==
    \A h \in DOMAIN run.dirs :
        LET l == run.dirs[h].lineage
        IN  \A i \in 1 .. Len(l) - 1 :
              Recipe(l[i]) = Recipe(l[i + 1]) \/ Recipe(l[i + 1]) \in run.agreed
                \/ \E p \in run.dirs[h].pulled : p <= i

\* Checkpoints of one run are on one node until a user allows to start over on another.
OneNode(run) ==
    run.moved \/ Cardinality({h \in DOMAIN run.dirs : Tracked(run.dirs[h])}) <= 1

----------------------------------------------------------------------------
\* check_resume.py.  rows are [step, time], starts the time of the second submission (0: not known).
Backwards(rows) == {i \in 2 .. Len(rows) : rows[i].step <= rows[i - 1].step}
Least(S) == CHOOSE i \in S : \A j \in S : i <= j
FindRestart(rows, second) ==
    LET late == {i \in DOMAIN rows : rows[i].time >= second}
    IN  IF Backwards(rows) # {} THEN Least(Backwards(rows))
        ELSE IF second = 0 \/ late = {} \/ Least(late) = 1 THEN 0
        ELSE Least(late)

LastCheckpoint(killedAt, saveFreq) == (killedAt \div saveFreq) * saveFreq

ResumeVerdict(rows, second, tracker, args) ==
    LET Problem(name, holds) == IF holds THEN {name} ELSE {}
        restart == FindRestart(rows, second)
    IN  (IF rows = <<>> THEN {"no steps"}
         ELSE IF restart = 0 THEN {"no restart"}
         ELSE Problem("stopped early", rows[restart - 1].step < args.killedAt)
              \cup Problem("started elsewhere", rows[restart].step # LastCheckpoint(args.killedAt, args.saveFreq) + 1)
              \cup Problem("ended early", Last(rows).step # args.finalStep))
        \cup Problem("tracker", tracker # args.finalStep)
        \cup Problem("two jobs", second = 0)

\* A first job that logged 1 .. stopped, a second one that logged from .. finalStep.
Resumed(stopped, from, args) ==
    [i \in 1 .. stopped + (args.finalStep - from + 1) |->
        [step |-> IF i <= stopped THEN i ELSE from + (i - stopped - 1), time |-> i]]

\* A job that was killed before it saved another checkpoint, and resumed: the verdict is OK exactly
\* when the second job started at the step after the last checkpoint, whether it logged steps again
\* or went on without a seam.
ResumeIsJudged(stopped, from, args) ==
    (/\ args.killedAt <= stopped
     /\ stopped < LastCheckpoint(args.killedAt, args.saveFreq) + args.saveFreq) =>
        (ResumeVerdict(Resumed(stopped, from, args), stopped + 1, args.finalStep, args) = {}
            <=> from = LastCheckpoint(args.killedAt, args.saveFreq) + 1)
=============================================================================
