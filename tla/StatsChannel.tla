---------------------------- MODULE StatsChannel ----------------------------
(***************************************************************************)
(* How the |S_t| statistics of CUTS rollouts travel from the engines to    *)
(* the trainer (src/src/cuts/stats.py, vllm_logits_processor.py and        *)
(* src/src/mixed_cuts/trainer.py): append-only files named by training     *)
(* step and writer, a record flushed by the engine's next forward pass,    *)
(* and a trainer that summarises step N while it ends step N+1 and ignores *)
(* the files it found at start-up.  The job may be killed at any moment    *)
(* and then resumes from its last checkpoint with new engine processes.    *)
(* verl's training loop and vLLM's scheduling are external.  A rollout     *)
(* that is evicted and resumed is not modelled here: see CutsBatch.        *)
(***************************************************************************)
EXTENDS Naturals, FiniteSets

CONSTANTS Engines,   \* vLLM replicas
          Ranks,     \* tensor-parallel ranks of a replica, 0 among them
          Ids,       \* CUTS rollouts of one training step
          LastStep,  \* trainer.total_training_steps
          MaxLives   \* bound: how often the job is started

ASSUME RanksAssumption == Ranks \subseteq Nat /\ 0 \in Ranks
ASSUME StepsAssumption == LastStep \in Nat \ {0} /\ MaxLives \in Nat \ {0}

VARIABLES
    life,       \* the incarnation of the run: it makes every writer_id new
    first,      \* global_steps at which this incarnation started
    step,       \* global_steps
    stage,      \* where the trainer stands in its step
    running,    \* running[e]: CUTS rollouts that engine e is decoding
    ended,      \* ended[e]: rollouts returned to the trainer, still in e's table
    served,     \* engines that have run a forward pass in this stage
    lines,      \* the stats directory: every line of every file
    stale,      \* _stale_stats_files
    checkpoint, \* the newest checkpoint's step, or 0
    summaries   \* history: what each _compute_metrics read

engineVars == <<running, ended, served>>
vars == <<life, first, step, stage, engineVars, lines, stale, checkpoint, summaries>>

Rollout(s, l, i) == [step |-> s, life |-> l, id |-> i]
Issued(s, l) == {Rollout(s, l, i) : i \in Ids}

\* Mutant: the writer id is the pid alone, which repeats across incarnations.
WriterIdPid(e, r) == <<0, e, r>>

\* writer_id: pid and a random suffix, new for every processor instance.
WriterId(e, r) == <<life, e, r>>

FileName(s, w) == [step |-> s, writer |-> w]

\* Every rank runs the processor; only rank 0 owns a writer.
OwnsWriter(r) == r = 0

\* The CUTS rollouts of a step, spread over the engines by the agent loops.
Spread(s, l) ==
    {[e \in Engines |-> {x \in Issued(s, l) : route[x.id] = e}] : route \in [Ids -> Engines]}

Init ==
    /\ life = 1 /\ first = 1 /\ step = 1
    /\ stage = "generate"
    /\ running \in Spread(1, 1)
    /\ ended = [e \in Engines |-> {}] /\ served = {}
    /\ lines = {} /\ stale = {} /\ checkpoint = 0 /\ summaries = {}

-----------------------------------------------------------------------------
(* Engines *)

\* Mutant: a request that ended is dropped from the table without a record.
ForwardPassDrops(e) ==
    /\ stage \in {"generate", "validate"}
    /\ \E over \in SUBSET running[e] :
          /\ running' = [running EXCEPT ![e] = @ \ over]
          /\ ended' = [ended EXCEPT ![e] = over]
    /\ served' = served \cup {e}
    /\ UNCHANGED <<life, first, step, stage, lines, stale, checkpoint, summaries>>

\* One forward pass of engine e: the update emits the rollouts that ended since the last
\* one, then some of the running ones end.  Standard and validation requests need no
\* record, so a pass needs no running CUTS rollout.
ForwardPass(e) ==
    /\ stage \in {"generate", "validate"}
    /\ lines' = lines \cup {[file |-> FileName(x.step, WriterId(e, r)), rollout |-> x] :
                                x \in ended[e], r \in {q \in Ranks : OwnsWriter(q)}}
    /\ \E over \in SUBSET running[e] :
          /\ running' = [running EXCEPT ![e] = @ \ over]
          /\ ended' = [ended EXCEPT ![e] = over]
    /\ served' = served \cup {e}
    /\ UNCHANGED <<life, first, step, stage, stale, checkpoint, summaries>>

-----------------------------------------------------------------------------
(* The trainer's step *)

\* Every rollout has come back and every engine had a share of the prompts.
GenerationEnds ==
    /\ stage = "generate"
    /\ served = Engines /\ \A e \in Engines : running[e] = {}
    /\ stage' = "update"
    /\ UNCHANGED <<life, first, step, engineVars, lines, stale, checkpoint, summaries>>

\* Mutant: the run ends without a validation.
UpdateEndsRun ==
    /\ stage = "update"
    /\ checkpoint' \in {checkpoint, step}
    /\ stage' \in {"metrics", "validate"}
    /\ served' = {}
    /\ UNCHANGED <<life, first, step, running, ended, lines, stale, summaries>>

\* Log-probs, update, perhaps a checkpoint, perhaps a validation; always one at the end.
Update ==
    /\ stage = "update"
    /\ checkpoint' \in {checkpoint, step}
    /\ \/ stage' = "metrics" /\ step < LastStep
       \/ stage' = "validate"
    /\ served' = {}
    /\ UNCHANGED <<life, first, step, running, ended, lines, stale, summaries>>

ValidationEnds ==
    /\ stage = "validate" /\ served = Engines
    /\ stage' = "metrics"
    /\ UNCHANGED <<life, first, step, engineVars, lines, stale, checkpoint, summaries>>

\* read_cuts_stats(step=s, ignore=self._stale_stats_files).
ReadStats(s) == {l \in lines : l.file.step = s /\ l.file \notin stale}

\* The step whose statistics are summarised now.
StatsStep == step - 1

\* _compute_metrics, then the next step's rollouts go out, or the run is over.
ComputeMetrics ==
    /\ stage = "metrics"
    /\ summaries' = IF StatsStep >= 1
                    THEN summaries \cup {[life |-> life, first |-> first, step |-> StatsStep,
                                          read |-> ReadStats(StatsStep)]}
                    ELSE summaries
    /\ IF step < LastStep
       THEN /\ step' = step + 1
            /\ stage' = "generate"
            /\ running' \in Spread(step + 1, life)
       ELSE stage' = "done" /\ UNCHANGED <<step, running>>
    /\ served' = {}
    /\ UNCHANGED <<life, first, ended, lines, stale, checkpoint>>

\* Mutant: the snapshot of the stats directory is not taken.
SnapshotNothing == {}

\* list_stats_files, in the trainer's __init__, before the engines start.
Snapshot == {l.file : l \in lines}

\* The job is killed and started again from its newest checkpoint: every process is new.
Restart ==
    /\ stage # "done" /\ life < MaxLives /\ checkpoint < LastStep
    /\ life' = life + 1 /\ first' = checkpoint + 1 /\ step' = checkpoint + 1
    /\ stage' = "generate"
    /\ running' \in Spread(checkpoint + 1, life + 1)
    /\ ended' = [e \in Engines |-> {}] /\ served' = {}
    /\ stale' = Snapshot
    /\ UNCHANGED <<lines, checkpoint, summaries>>

Next ==
    \/ \E e \in Engines : ForwardPass(e)
    \/ GenerationEnds \/ Update \/ ValidationEnds \/ ComputeMetrics \/ Restart

Spec == Init /\ [][Next]_vars

\* The trainer's loop runs, engines make progress with what they run, a validation ends.
Fairness ==
    /\ \A e \in Engines : WF_vars(ForwardPass(e) /\ (e \in served => running'[e] # running[e]))
    /\ WF_vars(GenerationEnds) /\ WF_vars(Update) /\ WF_vars(ValidationEnds)
    /\ WF_vars(ComputeMetrics)

FairSpec == Spec /\ Fairness

-----------------------------------------------------------------------------
(* Properties *)

Rollouts == [step : 1 .. LastStep, life : 1 .. MaxLives, id : Ids]
Files == [step : 1 .. LastStep, writer : (0 .. MaxLives) \X Engines \X Ranks]
Lines == [file : Files, rollout : Rollouts]

\* Every variable keeps its type, and only rank 0 writes.
TypeOK ==
    /\ life \in 1 .. MaxLives /\ first \in 1 .. LastStep /\ step \in first .. LastStep
    /\ stage \in {"generate", "update", "validate", "metrics", "done"}
    /\ running \in [Engines -> SUBSET Rollouts] /\ ended \in [Engines -> SUBSET Rollouts]
    /\ served \subseteq Engines
    /\ lines \subseteq Lines /\ \A l \in lines : l.file.writer[3] = 0
    /\ stale \subseteq Files
    /\ checkpoint \in 0 .. LastStep
    /\ \A m \in summaries : m.read \subseteq Lines

\* "The trainer therefore summarises step N when it reaches step N+1": what it reads then is
\* one line for every CUTS rollout this incarnation issued for step N, and nothing of a
\* killed one; of a step that a killed incarnation generated it reads nothing (stats.py
\* 12-19, trainer.py 112-113, 256-262).
SummariesAreExact ==
    \A m \in summaries :
        LET told == {l.rollout : l \in m.read}
        IN  /\ told = IF m.step >= m.first THEN Issued(m.step, m.life) ELSE {}
            /\ \A k, l \in m.read : k.rollout = l.rollout => k = l

\* Decision 007: "The last step of a run is flushed by the final validation": when the run
\* ends, no record of this incarnation is still in an engine.
NothingLeftInEngines ==
    stage = "done" =>
        \A s \in first .. LastStep : \A x \in Issued(s, life) : \E l \in lines : l.rollout = x

\* Two incarnations never write to the same file, so a torn last line of a killed one is
\* never continued (stats.py 51-53).
FilesHaveOneLife ==
    \A k, l \in lines : k.file = l.file => k.rollout.life = l.rollout.life

\* A rollout that came back to the trainer is recorded, unless the job is killed first.
EveryRolloutRecorded ==
    \A e \in Engines : \A x \in Rollouts :
        x \in ended[e] ~> (life # x.life \/ \E l \in lines : l.rollout = x)
=============================================================================
