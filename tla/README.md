# Mixed-CUTS: specification, model checking and proofs

Mixed-CUTS trains language models with GRPO. Each prompt gets a group of rollouts: some sampled
normally, some with CUTS (a logits processor that flattens the distribution over the top-k tokens).
The repository is a layer on verl and vLLM: an agent loop that plans groups, a logits processor, a
reward, a trainer subclass with diagnostics and a stop rule, and shell scripts that carry a run over
crashes, SLURM time limits and bad nodes.

This directory holds TLA+ modules of the parts with concurrency, failure or ordering in them and of
the pure algorithms between them, TLC configurations for small instances, and TLAPS proofs for all
values of the constants. Paths below
are those of the repository with its root written `src/`. PROJECT.json maps each definition to the
lines it stands for.

## 1. Inventory

### Components

| Component | State it keeps | Operations | Correct when | Module |
|---|---|---|---|---|
| Math-verify pool (`mixed_cuts/reward.py` 96-218) | global `_pool`, `_pool_restarts`; per pool an executor and an `idle` semaphore | `_get_pool`, `submit`, `_verify_in_pool`, `_discard_pool`, `shutdown_pool` | no permit lost or doubled; a dead pool replaced once, the live one never; score 0 only for a listed reason; every call returns | VerifyPool, BoundedWorkers |
| CUTS batch table (`cuts/state.py`, `cuts/config.py`) | `_entries`: row -> request, live output list, step count | `apply_batch_update`, `apply`, `clear` | the table follows vLLM's batch; each token is drawn as its request asks; one record per stay | CutsBatch |
| CUTS statistics channel (`cuts/stats.py`, `cuts/vllm_logits_processor.py`, `trainer.py` 112-113, 250-270) | JSONL files named by step and writer; the stale-file snapshot | write on finish, flush on the next forward pass, read one step late | the summary of step N is of step N's rollouts of this incarnation, once each | StatsChannel |
| Agent loop and planning (`agent_loop.py`, `scheduler.py`) | a coroutine per prompt, tasks per session; TransferQueue tags | `_run_prompt`, `plan_group` | only whole groups are taken; nothing written after a clear; every prompt ends | AgentLoop |
| Checkpoint keeping (`slurm/common.sh` 290-472) | `checkpoints/`, `checkpoints_kept/`, the tracker file | keep, prune, stage-out, mirror loop, traps | the tracked step can be resumed; a kept step is whole and never rewritten; landmarks survive (but for the race of section 4) | Checkpoints |
| Run across attempts (`trainer.py`, `stability.py`, `jsonl_logger.py`, `diagnostics.py` RunningMean, `jarvis/train.sh`) | `metrics.jsonl`, ACR_100's window, drift streak, entropy minimum, attempt counter | `_compute_metrics`, `check`, `log`, `rebuild`, the attempt loop | log, checkpoints and rebuilt values agree after any restart; a sustained drift stops the job | TrainingRun |
| Bad-node resubmission (`slurm/common.sh` 62-141) | SLURM job states and dependencies | list twins, sbatch held, re-point, release | one job of a run name trains at a time; queue order; no circular wait | Resubmit |
| Kaggle sessions and the Hub (`kaggle/train.sh`, `scripts/hub_sync.py`) | Hub repository, session disk, the script's `pushed`, `seen`, `stopping` | pull, train, push, stop in time, last push | the Hub's progress never goes back; sessions continue one run; the last words are true | KaggleSession |
| CUTS operator (`cuts/operator.py`) | none | `cuts_transform` on a row of logits | the likeliest tokens survive, never none; statistics independent of ties | CutsOperator |
| Micro-batch patch (`microbatch_patch.py`) | none | `sorted_partitions`, and when it steps aside | every sequence once, within the budget, fewest batches | MicroBatches |
| Group diagnostics, log-prob check (`diagnostics.py`, `trainer.py` 182-206) | none | pure functions of a batch | the numbers count what their names say | GroupDiagnostics |
| Stability watch (`stability.py`, `trainer.py` 115-122, 230) | grad-norm history, step-1 entropy, lowest entropy, drift streak | `check`, `rebuild` | a resumed run raises the alerts of an unbroken one | Stability, TrainingRun |
| Rollout dump (`trainer.py` 277-322) and the analyses' pairs (`analysis/`) | `rollouts/` | dump, compare | whole groups; the pairs are of one prompt | RolloutDump |
| Socket patch (`zmq_socket_patch.py`, `worker_hooks.py`) | `sys.meta_path`, wrapped classes | hook, one-shot finders | both sides of a weight sync use their run's own socket | WorkerPatches |
| Phase log and memory profile (`phases.py`, `profile_memory.py`) | `phases.jsonl`, the sidecar's samples | begin, end, sample, report | a sample counts for the phase it was taken in | MemoryProfile |
| Preflight (`compose_config.py`, `check_env.py`, `common.sh` 474-512) | none | check a configuration and a machine | what passes can run; a site's own passes | Preflight |
| Training configurations (`configs/train`, `configs/*.env.sh`) | YAML layers, environment | Hydra's merge | - | TrainingConfigs |
| Recipe, node and resume checks (`check_recipe.py`, `check_resume.py`, `common.sh` 259-272) | `jobs/*/hydra`, `node.txt`, the tracker | refuse a resume | a run goes on under its recipe, on its node, at its checkpoint | Submissions |
| Evaluation metrics (`mc_eval/scoring.py`) | none | pass@k, clusters, majority | unbiased; one vote each; ties to the earliest | EvalScoring |
| Evaluation files (`mc_eval/runner.py`, `regrade_eval.py`, `compare_runs.py`) | samples, results, summary per checkpoint | run (not resumed), regrade, compare | the published numbers are of the samples beside them | Evaluation |
| Data preparation (`mc_data/`, `scripts/prepare_data.py`) | parquet files, manifest | make, deduplicate, filter | manifest describes the files; each problem once | DataPrep |
| Answer extraction (`boxed.py`) | none | last balanced box | the content is balanced text | Boxed |
| Other scoring (`gpqa.py`, normalisation in `reward.py`, `thinking.py`) | none | regular expressions | - | - |
| Other patches (`lora_sync_patch.py`, `sdpa_patch.py`) | none | replace one call of verl each | - | - |
| Rest of the SLURM plumbing, launchers, plots, downloads, benchmarks | directories | sequential, one-shot | - | - |

### How they interact

The agent loop decides for every session whether it is CUTS and passes that with the request; vLLM hands it
to the logits processor (CutsBatch), which leaves a record per request in the statistics files
(StatsChannel), which the trainer reads one step later. Every finished session is scored by reward threads
that share the pool (VerifyPool). The trainer's step (TrainingRun) is: generate, update, save, compute
metrics, log; the save is verl's and comes before the metrics. The directory the save writes is worked on by
the job's shell at the same time (Checkpoints). The job itself is started, and started again, by
`jarvis/train.sh` (TrainingRun), SLURM (Resubmit) or a notebook (KaggleSession). The pure algorithms are
steps inside these: the logits processor calls the CUTS operator, the update cuts its batch into
micro-batches, `_compute_metrics` calls the diagnostics. Around the run stand the tools that meet it only
through files: the gates before it (Preflight, Submissions), the parquets it reads (DataPrep), the logs,
dumps and phase windows it leaves (Stability, RolloutDump, MemoryProfile), and the evaluations of its
checkpoints (Evaluation). Each is repeated by hand or by a launcher over what the killed call before it
left. A component's model treats the others as an environment with the same interface: StatsChannel's
`Restart` and TrainingRun's `Kill` are one event, `checkpoint` and `tracker` are one file. The interfaces
between these components are files and tags written in one atomic step, so no module composes all of them.
KaggleSession is itself a composition: session script, trainer, disk and Hub. The one component with an
abstract specification is the pool: `VerifyPool` implements `BoundedWorkers`.

### What is hard here

Threads that read `_pool` without its lock; a manager thread that fails futures one by one; rows that are
refilled without a removal notice; a record that only the next forward pass flushes; a kill between the save
and the log line, or inside a save; two shells in one `.partial` directory; a signal handler that runs what
the EXIT trap runs again; a retry loop around a job that stopped on purpose; SLURM starting a twin between
two commands; an upload of files that the trainer replaces; tools that are killed between two files and run
again over them; a watch whose memory is rebuilt from a log with abandoned attempts in it. The "hazards" of
PROJECT.json list each at its line with the properties aimed at it.

## 2. Modules and code

**VerifyPool.** `pc[t]` is where thread t stands in `_verify_in_pool`; `mine`, `attempt` are its locals.
`GetPoolCheck/Create/Return` are the two unlocked reads of `_pool` and the locked creation;
`Acquire`, `Submit*` are `_VerifyPool.submit`; `Future*` the outcomes of `future.result(timeout)`;
`Discard*`, `Shutdown*`, `TerminateStuck` are `_discard_pool`. A locked section is one action. The
executor and its manager thread (`FinishComparison`, `KillWorker`, `WorkerDies`, `MarkBroken`,
`FailFuture`) are external and modelled from how the reward uses them. An answer is what it does to
a worker: equal, different, raises, slow (never ends by itself), kills.

**CutsBatch.** The engine (external) lets requests join, leave, move and swap rows and notes it in a
BatchUpdate; `UpdateState` replays the whole update in `apply_batch_update`'s order: the loops over removed
and added rows, which name a row once, row by row, the `moved` loop as a fold; `Forward` applies the table to
the rows. A request's settings are an opaque signature; logits are abstracted to which
signature a token was drawn under.

**StatsChannel.** A line of a file is a record of file and rollout. `ForwardPass` is `update_state`
plus the writes it causes, on every rank, rank 0 writing; `ComputeMetrics` reads the files of the step
before, without the snapshot of the start. Rollouts are not evicted here; CutsBatch is about that.

**AgentLoop.** `at[p]` is where `_run_prompt` stands, one action per await. Sessions may store and then
succeed or fail; `TakeGroup` and `ClearGroup` are verl's ReplayBuffer.

**Checkpoints.** A directory is the set of its files. verl's save is `BeginSave`, `WriteFile`, `Commit`,
external. `mc_keep_checkpoints` is run by two keepers, the mirror loop and the stage-out, one action
per glob name and per command on `.partial`: `rm -rf` (`KeepClear`), `mkdir` (`KeepMake`), `cd` and the
directories of the first `find` (`KeepEnter`, `KeepDirs`), each `ln` (`KeepLink`), `mv` or the `rm` after a
failure (`KeepPlace`, `KeepFail`). So the commands of the two interleave: one moves away what the other has
made, finds no directory to link into, or has nothing to move. The history `raced` has the steps that both
were at at once. `Signal` starts a stage-out over, `Vanish` is a node failure.

**TrainingRun.** One job's step is `Update`, `Save`, `Metrics`, `Write`. A measured value is the attempt
(`life`) that measured it, so "which run is this number of" can be asked. Entropy is low, high
or NaN. `Attempt` is the start of a job with all it rebuilds from the log. A kill or a failing write
during `log` may leave half a line (`torn`), and the next record is then appended to it and lost too
(`glued`). The diagnostics of a step may raise, which is swallowed (`trainer.py:221`): the line then has no
ACR, or one that is NaN, and the running mean keeps what it had for that step (`Diagnose`). The history
`blind` has these steps with their attempts.

**Resubmit.** `state[j]` is the SLURM state of job j, and inside the bad-node exit the line it is at.
SLURM's dependencies are external: singleton waits for every unfinished job of the name with a lower
id (decision 011 observed that pending ones count), afterany for one job's end. A refusal before
`sbatch` (pinned job, missing script, scontrol failing) has the effect of `SbatchFails`.

**KaggleSession.** `sh` is the line of `kaggle/train.sh`, `job` the background trainer, `disk` and
`hub` the checkpoints by step. A push is two steps, as in `hub_sync.push`: `Read` takes the tracker and
lists the Hub, `Commit` uploads what is there by then; the trainer saves, logs and ends in between.
A checkpoint and a log line carry the session that last began at step 0, so "are these of one run" can
be asked. `SessionEnds` may come anywhere and takes the disk. That the next step would not fit
before the limit is a choice at every newly logged step. The trainer is an environment here: of
its saves, log lines and pruning only the order matters.

**CutsOperator, MicroBatches, GroupDiagnostics, EvalScoring, Boxed.** Pure functions as operators, each
next to reference definitions that say what the result is without computing it the same way.
Probabilities and rewards are whole units and fractions are compared by cross-multiplying. Ties are
sets of outcomes, since `torch.topk` may take either token.

**Preflight, TrainingConfigs.** A check is the set of problems it names, over a record of the leaves it
reads and a record of the machine. TrainingConfigs merges the layers as Hydra does and gives each site's
configuration and machine. The property sets what the checks accept against what the launch needs of the
pair (`RunsHere`, `StartsWith`, `EverySequenceFits`), said of the machine and not of the checks.

**Submissions.** `Submit` is a job's way through its gates in their order: node pin, `node.txt`, preflight
(passing or not), recipe check, trainer. A checkpoint carries the configuration that trained it, so "under
which recipe" can be asked of any lineage. `Session` is a pull on a fresh Kaggle disk. `FindRestart` and
`ResumeVerdict` are check_resume.py.

**Evaluation.** A call of `run_eval` is a sequence of steps (`Steps`): open, one line per sample, results,
summary; `RunAll` is the directory after a call that was killed after any of them. A line carries the call
that wrote it. `Regrade` and `RegradeMain` are regrade_eval.py, `LatestEval` and `TrainSummary`
compare_runs.py.

**DataPrep.** `Prepare` is one call of prepare_data.py over a directory, killed after any file. A raw
example is its index, prompt and answer.

**Stability.** `Check` is a step, `Rebuild` a resume, `Step` and `ResumeAt` the run around them: the step
that raises leaves no line. `Unbroken` runs `check` once over the steps the run stands on; the two are
compared.

**WorkerPatches.** One Ray worker: the hook, imports that succeed or raise, and the paths made afterwards,
in any order.

**RolloutDump.** `DumpSampledGroups` and the pairs that the two analyses form of a dump.

**MemoryProfile.** A trace of begins, ends, exceptions, kills and samples; the report joins windows and samples
afterwards. Two ghosts remember in which phase a sample was really taken.

**MCAlgorithms** takes, per behaviour, one input of a pure function, or one of these little state machines
(evaluation calls, data calls, submissions, a worker, a watched run, a profile), whose steps are its further
actions.

## 3. What is checked

Every run allows the system to stop (`CHECK_DEADLOCK FALSE`): calls, steps, lives and submissions are
bounded, and a finished run has no next step. Whether something is stuck is what the liveness
properties say.

| Run | Instance | Shows |
|---|---|---|
| verify_pool_live | 2 threads, 1 worker, 5 pools, 2 calls, 1 outside death, all answers | permits, replacement exactly once with the current pool unharmed, scores are earned, no refusal, BoundedWorkers is implemented; calls return, replaced pools drain |
| verify_pool_lost_pool | 2 threads, 2 workers | disagreement 1 |
| cuts_batch | 3 rows, 2 CUTS requests and a plain one, T_warm 1, 3 tokens, 2 stays | types and mirror, sampling, complete records |
| stats_channel | 2 engines, 2 ranks, 2 rollouts per step, 2 steps, 2 lives | summaries exact, a file has one life, every rollout recorded |
| agent_loop | a mixed group of 3, a refused prompt, a greedy group of 2, 2 refused puts | whole groups, nothing after a clear, every prompt ends |
| checkpoints | 4 steps, 2 jobs, a signal each, keep every 2nd, prune to 1 | resumable, no rewriting; landmarks and idempotent stage-out for steps without the race of disagreement 2 |
| checkpoints_torn | keep every step, one job | disagreement 2 |
| training_run | 3 steps, save every 2, 2 launches of 2 attempts, 1 failed write, 1 step whose diagnostics raise | log against checkpoints, rebuilt values, drift rule, success |
| resubmit | 3 submissions, 2 resubmissions each (9 ids), 1 cancelled, 2 faults | one writer, types and queue order, the queue drains |
| kaggle_session | 3 steps, 3 sessions lost anywhere, the Hub keeps 1, 2 failing pulls, pushes or trainers | the Hub never goes back and is one run (types, one life, a log that fits), the last words, the session ends |
| kaggle_session_pushed | 3 steps, one undisturbed session | disagreement 3 |
| algorithms | 4 tokens of 0-3 units, k up to 5; 5 sequences of length 1-4; 4 rollouts in 2 groups; 2 tokens with log-probs; 5 samples; texts up to 7 pieces; each site and arm with up to two leaves and a fact of the machine changed; 2 calls over one evaluation or data directory, killed anywhere; logs of 4 lines; 3 submissions and 3 saves on 2 nodes; 4 checked steps with a resume after any; a worker and run names of 3 characters; 6 events of a profile | one property per subject: CutsTakesTheLikeliest (operator), PatchesHold (micro-batches, sockets), GroupMetricsAreRight (diagnostics, D1 detector, dump), ScoringIsRight (boxes, votes, pass@k), PreflightIsRight, TablesAgree (evaluation files, tables, memory profile), DataAreRight, RunsAreContinued (recipe, node, resume), WatchSurvivesResumes |

Why the bounds are enough: in the pool, two threads are one that breaks it and one that still holds the old
one, and 5 pools are more than their calls can use up with the retries; that more threads and workers change
nothing is proved (section 5), liveness excepted. Three rows and a move, a swap and a refill in one round
cover every order of `apply_batch_update`, two stays an eviction and a return. Two incarnations are what a
stale value needs. In TrainingRun four attempts in two launches allow a step to be measured, abandoned,
measured and abandoned again, and a save every two steps makes the log run ahead of the checkpoint; one
step without ACR is enough to leave an abandoned value in the mean. Nine ids
let each of three submissions use all its resubmissions. Checkpoints prunes to 1, the setting under which
pruning can hurt most: only the exemption of the tracked step is left. Three sessions are one that leaves
something on the Hub, one that fails to pull it, and one that has to choose between the two; a Hub that
keeps 1 prunes on every push. For the algorithms: k beyond the vocabulary, all ties of four tokens, an
uneven split, a group of one, more samples than clusters, nested and unclosed boxes all occur below the
bounds. Two calls are one that leaves files and one over them; two changed leaves are one wrong and one that
might excuse it. Three submissions are the recipe, another one, and one that has to be judged against the
right one of the two. Four checked steps with resumes let the history overflow (3), an attempt be abandoned
and repeated, and a streak of 2 end across a resume. Counts that are large in the code are scaled: the
watch's history of 20 is 3, the 5 values its median needs are 2, the 40 characters of a run tag are 2.

Every property of a passing run has a mutant, a plausible slip in the code as an operator next to the
definition it would replace (marked "Mutant"); under it TLC finds the property violated. The properties of
`algorithms` have several parts, and most parts have a mutant in their module; PROJECT.json names one per
property.

**Refinement.** `NeverQueues` (VerifyPool) is `BW!Spec` with `busy[p]` mapped to the threads that hold a
permit of pool p, from acquire to release: a permit in the hands of a thread between `acquire` and
`submit` counts as an admitted job.

**Fairness.** VerifyPool: threads, the executor's manager thread and workers are scheduled by the OS; a slow
comparison gets no fairness, only its caller's timeout. StatsChannel: the trainer's loop and engines that
hold work run. AgentLoop: the event loop runs every ready task, and a generation ends because of max_tokens.
KaggleSession: while the session lasts the trainer and the script go on, one weak fairness each; nothing
says that a session lasts. TrainingRun and Checkpoints state safety only, without fairness. Resubmit: SLURM
starts what may start, and jobs end at their wall time. No fairness is assumed of faults, kills, signals or
users.

## 4. Disagreements found

Shown by a run:

1. `_get_pool` can return None (`reward.py:145` reads the global again without the lock): a correct
   answer scores 0, for a reason the docstring does not list.
2. The stage-out keeps checkpoints while the mirror loop may be inside the same function
   (`common.sh:420`, the loop is killed at 422): a kept step can be left without its weights. The same race
   can keep nothing at all: the shell's `mv` falls between the loop's `rm -rf` and `mkdir` (318) and fails.
   Then the pruning deletes the step and the loop has nothing to enter, so a landmark is lost; or, if the step
   is the tracked one, the second stage-out keeps it, although `mc_stage_out` calls itself idempotent (414).
   Without the exception for `raced` TLC finds both, in `NoLandmarkLost` and `StageOutIsIdempotent`.
3. After a push `kaggle/train.sh:77` takes the tracker of that moment for pushed, and not the step
   that was: a checkpoint saved during an upload stays off the Hub until the next one or the end of the trainer.

Met while modelling, without a run of their own:

* Pruning counts incomplete directories (`common.sh:405`), so the complete previous checkpoint, which the
  comment at 396 promises, may be deleted; the tracked one never is.
* The ACR of an abandoned attempt stays in `ACR_100` when the step is trained again and its diagnostics raise
  or give NaN (`trainer.py:221` swallows the error, and `RunningMean` skips the step). Without the exception
  for `blind` TLC finds it in `AcrIsOfTheKeptRun`.
* A log write cut short loses two records, because the next is appended to the half line
  (`jsonl_logger.py:42`; line 5 promises one line per step).
* A rollout that is evicted and resumed leaves two records (`state.py:165`; `stats.py:14` says one).
* A run stopped by the drift rule is restarted by `jarvis/train.sh`, which ignores the exit code.
* A twin that the user submits between `squeue` and `sbatch` (`common.sh:113`) is not re-pointed, and once
  the one before it is cancelled two training jobs can run (MCResubmit.cfg with `Hurried = TRUE`). The
  window is a few SLURM commands long.
* A pull does not restore `jobs/`, so on Kaggle `check_recipe.py:76` finds nothing to compare with and a run
  can be continued under another recipe (`OneRecipe` excepts steps after a pull).
* The one-GPU layouts of `configs/ada.env.sh` (lines 147 and 153) set `MC_SLURM_GPUS=1`, but their
  `MC_TRAIN_OVERRIDES` names no layout, so that base_grpo's four-GPU one is composed and the preflight
  always refuses the job (`SitesAreDecided`); `ada.env.sh:130` and decision 012 call it the one-GPU
  fallback.
* The preflight composes `MC_TRAIN_OVERRIDES` only: overrides given to the job itself and `MC_TOTAL_STEPS`
  are checked by nobody but the recipe check (`common.sh:482-499`).
* `node.txt` is appended before the preflight, so a job that is refused moves the pin; and the newest
  configuration may be that of a job that was allowed another recipe and saved nothing: the next one under
  the old recipe is asked again.
* `check_resume.py` raises a false alarm when the killed job reached the next checkpoint before it stopped.
* An evaluation's directory is named after its checkpoint. A killed second call leaves new samples beside
  old results, which regrading flags only through pass@1; and samples cut off at a line's end can pass
  unflagged (`EvalFilesAgree` asks for `Whole`). A `summary.json` holds the benchmarks of the last call
  only; regrading with `--write-results` gives an unfinished evaluation a summary.
* `compare_runs.py` counts a re-logged step once in its hours, as its comment says, but twice in its means.
* `prepare_data.py:156` returns without a manifest, so an old one stays beside newer files, and
  `check_staged` asks only whether it exists; `DataAreRight` is about what a finished call leaves.
* The step that raises StabilityAbort has no line: after a resume from its checkpoint its entropy, perhaps
  the lowest, is missing, and a rise against it is not seen. Lines of abandoned attempts stay in the
  grad-norm median. A step with a NaN is no drift and ends the streak.
* An import of verl's module that fails uses up the one-shot finder (`zmq_socket_patch.py:112-114`), and the
  patch is lost until the hook runs again. Run names that agree in their first 40 characters share a socket.
* `dump_samples_per_step` 0 dumps one group. `analysis/stats.py` counts the records of abandoned attempts,
  which the trainer leaves out.
* A phase that a kill cuts short has no window: its peak, often that of the out-of-memory error one looks
  for, is in no phase's row of the memory profile, only in "whole job".
* `kaggle/eval.sh:30-32` pulls into the run's directory: next to a training run on the same disk it rewrites
  tracker and metrics.
* The D1 docstring says a leak makes the fraction about 1.0 (`diagnostics.py:264-269`); with `k_min=2` the
  tokens whose set is a singleton do not count, so it is the share of larger sets. `LeakRaisesTheAlarm`
  states it so.
* `sorted_partitions` promises the "longest micro-batch first"; the first has the longest sequence, not
  always the largest padded size.

## 5. What is proved

TLAPS checks, for all values of the constants that satisfy the named assumptions:

* **VerifyPoolProofs** - types, `PermitsConserved`, the refinement `AdmittedJobsNeverQueue`,
  `ReplacedOnceAndUnharmed`, `NeverRefused`, `ScoresAreEarned`. `PermitsConserved` needs to know where
  permits are: `Places` ties each pc to the state of the thread's future and pool. Then every step is one of
  three kinds for a pool: take, give back, or neither. `Replacements` says which pools are old, broken or
  terminated, and that a thread at a discard holds one of them; `Scores` adds which pools died under the
  running call.
* **RolloutProofs**, the channel - `ChannelInv` = `Shape`, `Filed` (lines are in the file of their step and life),
  `InEngines` (what runs is of this step and life), `Once` (in one place at a time) and `Covered` (every
  issued rollout is in an engine or a file); from it the types, `SummariesAreExact`, `FilesHaveOneLife` and
  `NothingLeftInEngines` (a run that ends has flushed every record).
* **RolloutProofs**, the agent loop - `GroupInv` ties each prompt's pc, tasks and samples; steps of other prompts leave it
  alone; from it the types, `NothingWrittenAfterClear`, `TakenGroupsAreWhole`.
* **RolloutProofs**, the batch table - `TableMirrorsTheBatch`, `TokensAreDrawnAsAsked`, `EveryStayIsAccountedFor`, for
  any number of rows, requests, stays and tokens. First the fold: replaying a longer list of moves is one move
  more (`ReplayAppend`, by a least counterexample, since induction over the list is out of reach); then what
  each loop of `apply_batch_update` does to the entries and to the books of a request (`MoveIs`, `FinishIs`,
  `AddIs`). The books say that each record and the live entry count the tokens after T_warm since the record
  before. `BatchInv`: a request runs on exactly one row (`Seated`); the update's added requests run and are not
  in the table (`Incoming`); in the forward pass the table is the batch's (`Mirrored`); replaying the moves
  noted so far puts the table where the batch is now (`Followed`) and loses or repeats nothing (`Replayable`);
  each stay is in a record, in the table or in the update (`Booked`); tokens are drawn as asked, one per pass
  (`Drawn`). `Followed` and `Replayable` quantify over every table and not only the present one: a row that is
  refilled may be missing from `removed`, and what the moves find in a free row must not matter.
* **CheckpointsProofs** - `DirInv`: `Positions` (what the keepers have read is not after the tracker),
  `LinksBehind` (links exist only of steps up to the tracker), `Written` (a save's directory is after the
  tracker), and `TrackerIsResumable`; with it the types, among them that no kept step ever holds the
  optimizer. It needs `ToKeep >= 2`: with 1 verl deletes the tracked step's weights before it commits the
  next.
  On top, `PassInv` says what the keepers' passes have settled: a checkpoint with weights has a directory
  (`Housed`); two keepers at one step make it a raced one (`Alone`); who is at a step that is not raced has its
  `.partial` to itself, made and filled as far as its pc says (`Moved`, and `HeldInv`: what is linked and what
  is still on the list of `find` are together all of the step, so that what is moved is whole); a pass has
  settled every landmark up to the tracker it read that is not raced, on its list or in its hands
  (`Passes`), a finished pass all of them (`Passed`); the shell prunes only after its pass and a second
  stage-out finds nothing to do (`Swept`, `Still`, `After`). From it `LandmarksAreKept` - no landmark loses its
  weights before all of it is kept - if a mirror pass fits between two saves (`Timely`; without it a slow
  mirror loop can lose one), and `StageOutAgainChangesNothing`; both but for raced steps.
* **TrainingRunProofs** - `RunInv` (the policy in memory is that of the current step; a saved tracker has a
  saved policy) for `DoneMeansTrained`; with it `LogBehind` (a due step is saved before its line is written)
  for `LoggedIsCheckpointed`. The types are proved in three parts (`Counters`, `Records`, `Mean`): the
  rebuilt running mean takes the last line of a step, which exists by `LastIndex`, a consequence of the
  library's theorem that < is well-founded on the naturals. `DriftIsNeverSustained` needs to know whose the
  lines at the end of the log are (`Owners`) and that the streak in memory covers them (`Streaks`, which speaks
  of every tail of the log, because a longer tail is what the next line makes). `LossesAreCounted`: each missing
  or doubled line is paid for by one fault. `LogIsAlwaysOfTheKeptRun`: `Lineage` (a job works on from the saved
  policies), `LogTells` and `MeanOfTheRun` (the newest line of a step with an ACR, and the mean, are of the update that
  the checkpoint holds; beyond the tracker of the one in memory), as long as no write has failed, and but for
  the steps whose own diagnostics raised in that update (`Blind`).
* **ResubmitProofs** - `OneJobWrites` and `TwinsNeverOvertake` for any number of jobs, cancellations and
  failing commands. A job is live if it writes the run directory, or is a released resubmission that waits for
  nothing in the queue. `QueueInv`: ids are handed out in order (`Order`); one job is live (`OneLive`); every
  pending job with a lower id waits for the live one, or for the job it has submitted (`Waits`); where a
  bad-node exit is with its list, its held job and its re-pointing (`Exits`); a job submits one other
  (`Submitted`). Both theorems assume `Hurried = FALSE`, that the user leaves the queue alone in the few
  commands of an exit: without it `OneWriter` is false (section 4).
* **KaggleSessionProofs** - the types in three parts (`Positions`, `Logs`, `Notes`) with `Shape` (a trainer
  runs only under the loop and goes on from the tracked step). `PushInv` for `ProgressIsKept` (the Hub's newest
  step never goes back) and `FinishedMeansCarried`: a push under way prunes the Hub's newest step only if it
  uploads a newer one, and never the last step (`Pushing`); what is known between the last push and the last
  words (`Saying`). `HubInv` for `OneRunIsCarried`: unless a pull failed, all that is on the Hub has one life
  and, while a session works, all on its disk has it too (`Lineage`); the session's own log is as complete as
  the Hub's has to be (`Lines`).
* **AlgorithmProofs**, the CUTS operator - for any finite vocabulary, row and setting: `TheLikeliestSurvive`
  (never the empty set, never a likelier token dropped), `SetSizeIsBetweenOneAndK` and `StatsTellTheRow`,
  through `Selection` (what top-K takes) and `Outcomes` (the three ways a result arises); together they are
  `CutsAlwaysTakesTheLikeliest`.
* **AlgorithmProofs**, the gates - `RunsAreContinuedAlways`, for any nodes and configurations and any number
  of submissions, saves and pulls. `RecipeInv`: in every directory the newest configuration agrees with what
  its last checkpoint was trained under, and the running job's configuration is the newest of its own.
  `NodeInv`: on scratch all checkpoints and the running job are on the last node of `node.txt`, until a user
  has moved the run. `TheVerdictIsAboutTheSeam` is the part on
  check_resume: a log is accepted exactly if it goes on at its last checkpoint.
* **AlgorithmProofs**, the patches - `PatchesAlwaysHold`. Of the worker, `WorkerInv`: no class is wrapped
  twice; while the hook is in, a target that no failing import has lost is wrapped if it is loaded and has a
  finder waiting for it if not; and a wrapped one makes only paths of its own run. Of the micro-batches: the
  order is a permutation that sorts
  (`OrderSorts`: the rank of an index grows along the order), the fold places one index after the other
  (`PartitionsAreACut`: after k of them the micro-batches cut the first k places of the order into pieces that
  each fit and could not take the next index), hence each sequence is once in a micro-batch that fits
  (`MicroBatchesFit`). That no partition needs fewer is a pigeonhole (`OneMoreIsNeeded`): of any k places
  of the order, one is late enough that its micro-batch holds no more than the greedy one did.
* **AlgorithmProofs**, the batch - `GroupMetricsAlwaysRight`, for any number of rollouts and any `One`. A sum
  over a set is unfolded part by part (`SumsExist`, `TotalsAdd`); a variance is 0 exactly where the rewards are
  the same (`VarianceTells`, by induction over the parts of a group). On these rest `HalvesAreExact` (Eq. 5),
  `SavedDiffer`, `UtilizationHolds` and `LeaksAreSeen`. The dump is `DumpAlwaysWhole`, for any batch and number
  of groups asked for: the loop over the uids keeps `IsChoice` (`ChoiceGoesOn`), an order by ranks lists a set
  along any strict order (`RanksList`), and what `sort_key` compares is one (`RowsHaveKeys`, `DumpIsListed`).
* **AlgorithmProofs**, the scores - `ScoringIsAlwaysRight`, for texts of any length, any number of samples and
  any relation that math-verify may answer. `PassAtKAlwaysCounts` counts the k-subsets of a set by adding one
  member to draw from (`DrawsAreCounted`). `ContentIsAlwaysBalanced`: the depth at a place is one more than
  what is opened and not closed behind the box (`DepthCounts`), so it is first back at 0 exactly at a brace
  that ends a balanced text (`FirstZeroEnds`). The loop over the samples keeps `IsClustering`: the first k
  are each in one place of one cluster, the first of a cluster is its earliest and agrees with the others, and
  a later cluster begins later with one that did not agree (`BeginsACluster`, `JoinsACluster`). From this
  follow `EachAlwaysVotesOnce` and, where equality is an equivalence, `MajorityIsAlwaysMostVoted`.
* **AlgorithmProofs**, the preflight - `PreflightIsAlwaysRight`. `LayersDecide` says which layer a leaf is
  from, so that what is composed for a site is known leaf by leaf (`ComposedIsOfSite`), and every group of
  checks can be decided (`SitesAreAlwaysDecided`, four sites and three arms). `AcceptedRunsAnywhere` is about
  every configuration and machine, not only those the run enumerates. Its conditions are counts of
  rollouts that are not negative and a rollout.n above 0: compose_config.py compares them and asks for no
  size, so that -1 and 17 rollouts of a group of 16, or a group of 0, would pass and only fail at the
  trainer's start (scheduler.py:67-70). No configuration of the repository, nor one the run enumerates, has
  such values.
* **AlgorithmProofs**, the stability watch - `WatchAlwaysSurvivesResumes`. Its lemmas (`WatchStarts`,
  `StepsKnow`, `ResumesKnow`) are about any metrics, any number of steps and resumes from any of them, and
  any configuration that does not abort at the first bad step (`abort_on_nan` off, patience at least 2, as
  the defaults); the theorem is of the run's. That the alerts agree is not inductive: `WatchRunInv`
  adds what a running watch knows (`KnowsRun`): the lowest entropy of every attempt, abandoned ones included,
  hence not above that of an unbroken run whose steps are logged; the entropy of the step 1 the run stands
  on, if it had one; the grad norms of an unbroken run if nothing was abandoned; and that the last line is of
  the last step if the drift streak is above 0. `Rebuild` is a fold over the lines by step (`LinesInOrder`),
  the last line of step 1 is that of the run (`FirstIsLogged`), so that it gives what the steps gave
  (`RebuildKnows`); `ChecksAgree` compares the alerts of two watches that know this. An entropy of exactly 0
  is left out: as a minimum it switches the rise of the entropy off (`> 0` in `_policy_drift`), so that an
  abandoned attempt that logged it can hide a drift that the unbroken run shows.
* **DataProofs** - `DataAreAlwaysRight`, by `FinishedCallsAreListed`, which is about one call with raw datasets
  of any number of rows over any directory. `Only` keeps the elements at some places in their order
  (`OnlyIsPart`, from `RanksList`); after k rows of the loop of `deduplicate` there is one row of each problem,
  and the first of each is among them (`NextIsUnited`, `FirstsAreKept`). No two datasets write one file
  (`FilesAreMadeOnce`), so that each file has the rows of the one parquet written there, whatever an earlier
  call left (`AllIsWritten`), and a file of the manifest is of a dataset that was fetched (`ListedAreMade`).

The invariants were checked with TLC before they were proved. A `TypeOK` that is proved for all values of
the constants is not a property of a run of its own; those of CutsBatch, Resubmit and KaggleSession are
conjuncts of `MirrorsBatch`, `NotOvertaken` and `HubIsOneRun`. So every safety property of the runs on the
state machines is proved, and of `algorithms` those above. Only model-checked are its
`TablesAgree` (files of a killed evaluation, compared tables, profile windows): most of what its modules
compute is built of folds over files and of sorts. Where a fold is unfolded at all it is by an induction
over sets of numbers (`NaturalSteps`, `FoldsExist`), as the library's induction theorems cannot be
instantiated. And the liveness properties
(`EveryCallReturns`, `ReplacedPoolsDrain`, `EveryRolloutRecorded`, `EveryPromptEnds`, `QueueDrains`,
`SessionComesToAnEnd`), which it cannot reason about.

Assumed of the environment: verl saves before it computes a step's metrics and commits the tracker last;
when the child of the job shell ends its workers are gone; `MC_KEEP_EVERY` > 0; a mirror pass fits between
two saves (`Timely`, only for `NoLandmarkLost`); `abort_on_divergence` is on; `AcrIsOfTheKeptRun` holds
unless a log write failed or was appended to half a line; each checkpoint is saved (`save_freq` 1) and
`MC_HUB_REPO` is set in KaggleSession, and one notebook works on a run at a time; in Resubmit the user
neither submits nor cancels while a bad-node exit is between `squeue` and its release (`Hurried = FALSE`).

## 6. What is not modelled

The components with "-" above. Downloads, plots, package installation, merging of weights, W&B
synchronisation and benchmarks keep no state another part reads. Of the modelled tools these parts are left
out: errors while Hydra composes, the warnings of check_env, the token scan of the non-thinking check,
bootstrap intervals, the formatting of tables, the memory profile's host and process columns, W&B ids in
check_resume, and the measures of the offline analyses. Regular expressions (answer lines, letters, normal
forms) are an opaque function. Bad-node jobs other than training ones are submitted without a dependency and
have no twin. Rsync mirroring and stage-in are left out of Checkpoints: one writer, no state of their own; an
`rm -rf` is one step there, also next to a command of the other keeper that makes it fail.
An operator who releases a held job by hand is outside Resubmit. Batching, dtypes and the mask value are
left out of the algorithms, and floating point is: what is shown of variances and pass@k is their exact
arithmetic.

## 7. Plan

Done, in this order: VerifyPool with BoundedWorkers and proofs; CutsBatch; StatsChannel with proofs;
AgentLoop with proofs; Checkpoints with proofs; TrainingRun with proofs; Resubmit; KaggleSession; the
algorithms with the proofs of CutsOperator; Preflight with TrainingConfigs; Evaluation; DataPrep;
Submissions; Stability; WorkerPatches; RolloutDump; MemoryProfile; the proofs of Resubmit, KaggleSession,
the checkpoints' landmarks, the run's drift and lineage, and the CUTS table; of the algorithms those of the
operator, the gates, the patches, the group metrics, the dump, the scores, the preflight, the watch and the
data preparation.

Next, most important first:

1. The remaining proofs about the algorithms: the memory profile, and what a killed evaluation leaves.
2. Submissions with Resubmit's resubmissions and KaggleSession's sessions as its submitters, instead of
   arbitrary ones.
3. Stage-in, mirroring and the container fallback around Checkpoints; the SLURM time limit.
4. The benchmark of rollout settings and the launchers' logs, as far as they decide anything.
