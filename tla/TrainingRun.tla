---------------------------- MODULE TrainingRun ----------------------------
(***************************************************************************)
(* One run across its attempts: jarvis/train.sh restarts the training job  *)
(* until the last step is checkpointed; a job saves a step before it       *)
(* computes and logs its metrics; the stability watch may stop it between  *)
(* the two; a job that resumes rebuilds ACR_100 and the watch from         *)
(* metrics.jsonl.  A metric value is the attempt that measured it.         *)
(***************************************************************************)
EXTENDS Naturals, Sequences, FiniteSets

CONSTANTS
    Total,         \* trainer.total_training_steps (within ACR_100's window)
    SaveFreq,      \* trainer.save_freq
    Patience,      \* stability.divergence_patience; abort_on_divergence is true
    RiseAfter,     \* stability.entropy_rise_after
    MaxAttempts,   \* MC_MAX_ATTEMPTS
    MaxReruns,     \* bound: times the launcher itself is lost and started again
    MaxErrors,     \* bound: writes of metrics.jsonl that raise
    MaxBlind       \* bound: steps whose Mixed-CUTS diagnostics raise

ASSUME TrainingRunAssumption ==
    /\ Total \in Nat \ {0} /\ SaveFreq \in Nat \ {0} /\ Patience \in Nat \ {0}
    /\ RiseAfter \in Nat /\ MaxAttempts \in Nat \ {0} /\ MaxReruns \in Nat
    /\ MaxErrors \in Nat /\ MaxBlind \in Nat

VARIABLES
    tracker,    \* latest_checkpointed_iteration.txt
    saved,      \* by step, the attempt whose update the checkpoint holds
    policy,     \* the same for the policy in memory
    step,       \* global_steps
    phase,      \* where the job is in verl's step
    seen,       \* RunningMean._seen: by step, the attempt that measured it
    low,        \* StabilityWatch._entropy_min, 0 for None
    streak,     \* StabilityWatch._drift_streak
    line,       \* the record that is about to be logged
    log,        \* the readable lines of metrics.jsonl
    torn,       \* metrics.jsonl ends in half a line
    glued,      \* history: records that were appended to half a line
    launcher,   \* where jarvis/train.sh is
    attempt,    \* its loop counter
    reruns,     \* times it was started again
    life,       \* jobs so far
    errors,     \* writes that raised
    faults,     \* history: kills, aborts and errors, each losing the line in flight
    blind,      \* history: the <<step, attempt>> whose diagnostics raised
    aborted     \* history: this command has seen a StabilityAbort

policies == <<saved, policy>>
watch == <<seen, low, streak>>
file == <<log, torn, glued>>
shell == <<launcher, attempt, reruns, life, aborted>>
vars == <<tracker, policies, step, phase, watch, line, file, shell, errors, faults, blind>>

Steps == 1 .. Total
\* An entropy, one more than twice as high, and NaN, which every rule skips.
Low == 1
High == 3
Bad == 0
Nobody == [s \in Steps |-> 0]
NoLine == [step |-> 0, by |-> 0, entropy |-> Bad, drift |-> FALSE, acr |-> FALSE]
Line(e, d, acr) == [step |-> step, by |-> life, entropy |-> e, drift |-> d, acr |-> acr]
Lowest(a, b) == IF a = 0 THEN b ELSE IF b = 0 \/ a <= b THEN a ELSE b

Init ==
    /\ tracker = 0 /\ saved = Nobody /\ policy = Nobody
    /\ step = 0 /\ phase = "off"
    /\ seen = Nobody /\ low = 0 /\ streak = 0 /\ line = NoLine
    /\ log = <<>> /\ torn = FALSE /\ glued = 0
    /\ launcher = "loop" /\ attempt = 0 /\ reruns = 0 /\ life = 0
    /\ errors = 0 /\ faults = 0 /\ blind = {} /\ aborted = FALSE

----------------------------------------------------------------------------
\* One step of a job.

Update ==
    /\ phase = "train" /\ step < Total
    /\ step' = step + 1 /\ phase' = "save"
    /\ policy' = [policy EXCEPT ![step + 1] = life]
    /\ UNCHANGED <<tracker, saved, watch, line, file, shell, errors, faults, blind>>

\* Mutant: the last step gets no checkpoint of its own.
DueNever == step % SaveFreq = 0 /\ step < Total

DueAt(s) == s % SaveFreq = 0 \/ s = Total
Due == DueAt(step)

Save ==
    /\ phase = "save" /\ phase' = "metrics"
    /\ IF Due THEN tracker' = step /\ saved' = policy ELSE UNCHANGED <<tracker, saved>>
    /\ UNCHANGED <<policy, step, watch, line, file, shell, errors, faults, blind>>

\* Policy drift: a large ppo_kl, or an entropy that rose from its minimum.
Drifts(e, kl) == kl \/ (e = High /\ low = Low /\ step > RiseAfter)

\* ACR of the step: an exception of _mixed_cuts_metrics is swallowed, and without ACR the
\* running mean keeps what it had.
Diagnose(acr) ==
    /\ acr \/ Cardinality(blind) < MaxBlind
    /\ seen' = IF acr THEN [seen EXCEPT ![step] = life] ELSE seen
    /\ blind' = IF acr THEN blind ELSE blind \cup {<<step, life>>}

\* Mutant: a sustained drift only raises an alert.
MetricsNoStop(e, kl, acr) ==
    /\ phase = "metrics" /\ phase' = "log" /\ Diagnose(acr)
    /\ low' = Lowest(low, e) /\ line' = Line(e, Drifts(e, kl), acr)
    /\ streak' = IF Drifts(e, kl) THEN streak + 1 ELSE 0
    /\ UNCHANGED <<tracker, policies, step, file, shell, errors, faults>>

\* StabilityAbort leaves _compute_metrics before the line is written.
Metrics(e, kl, acr) ==
    LET s == IF Drifts(e, kl) THEN streak + 1 ELSE 0
    IN  /\ phase = "metrics" /\ Diagnose(acr)
        /\ low' = Lowest(low, e)
        /\ streak' = s /\ line' = Line(e, s > 0, acr)
        /\ IF s >= Patience
             THEN phase' = "off" /\ aborted' = TRUE /\ faults' = faults + 1
             ELSE phase' = "log" /\ UNCHANGED <<aborted, faults>>
        /\ UNCHANGED <<tracker, policies, step, file, launcher, attempt, reruns, life, errors>>

\* Half a line at the end of the file swallows the line that is appended to it.
Write ==
    /\ phase = "log" /\ phase' = "train"
    /\ log' = IF torn THEN log ELSE Append(log, line)
    /\ torn' = FALSE /\ glued' = IF torn THEN glued + 1 ELSE glued
    /\ UNCHANGED <<tracker, policies, step, watch, line, shell, errors, faults, blind>>

\* The logger must not stop the run: an error of the write is swallowed.
WriteRaises ==
    /\ phase = "log" /\ errors < MaxErrors /\ phase' = "train"
    /\ errors' = errors + 1 /\ faults' = faults + 1
    /\ torn' \in {torn, TRUE}
    /\ UNCHANGED <<tracker, policies, step, watch, line, log, glued, shell, blind>>

Finish ==
    /\ phase = "train" /\ step = Total /\ phase' = "off"
    /\ UNCHANGED <<tracker, policies, step, watch, line, file, shell, errors, faults, blind>>

\* A crash, a lost GPU, the host's OOM killer.
Kill ==
    /\ phase # "off" /\ phase' = "off"
    /\ torn' \in IF phase = "log" THEN {torn, TRUE} ELSE {torn}
    /\ faults' = faults + 1
    /\ UNCHANGED <<tracker, policies, step, watch, line, log, glued, shell, errors, blind>>

----------------------------------------------------------------------------
\* jarvis/train.sh and the start of a job

Finished == tracker >= Total

\* Mutant: the first ACR of a step is the one that counts.
RebuiltFirst ==
    [s \in Steps |->
        LET at == {i \in DOMAIN log : log[i].step = s /\ log[i].acr}
        IN  IF at = {} THEN 0 ELSE log[CHOOSE i \in at : \A j \in at : i <= j].by]

\* RunningMean.rebuild: the last line of a step with an ACR wins.
Rebuilt ==
    [s \in Steps |->
        LET at == {i \in DOMAIN log : log[i].step = s /\ log[i].acr}
        IN  IF at = {} THEN 0 ELSE log[CHOOSE i \in at : \A j \in at : j <= i].by]

\* StabilityWatch.rebuild: the minimum over every line, abandoned attempts included.
RebuiltLow ==
    IF \E i \in DOMAIN log : log[i].entropy = Low THEN Low
    ELSE IF \E i \in DOMAIN log : log[i].entropy = High THEN High ELSE 0

\* An attempt: the job resumes after the tracked step with what the log remembers.
Attempt ==
    /\ launcher = "loop" /\ ~Finished /\ attempt < MaxAttempts
    /\ launcher' = "wait" /\ attempt' = attempt + 1 /\ life' = life + 1
    /\ phase' = "train" /\ step' = tracker /\ policy' = saved
    /\ seen' = Rebuilt /\ low' = RebuiltLow /\ streak' = 0 /\ line' = NoLine
    /\ UNCHANGED <<tracker, saved, file, reruns, aborted, errors, faults, blind>>

\* Mutant: the loop also ends well when its attempts are used up.
AttemptEndsDone ==
    /\ launcher = "wait" /\ phase = "off"
    /\ launcher' = IF Finished \/ attempt = MaxAttempts THEN "done" ELSE "loop"
    /\ UNCHANGED <<tracker, policies, step, phase, watch, line, file, attempt, reruns,
                   life, errors, faults, blind, aborted>>

\* The exit code of the job is only logged.
AttemptEnds ==
    /\ launcher = "wait" /\ phase = "off"
    /\ launcher' = IF Finished THEN "done" ELSE "loop"
    /\ UNCHANGED <<tracker, policies, step, phase, watch, line, file, attempt, reruns,
                   life, errors, faults, blind, aborted>>

AlreadyFinished ==
    /\ launcher = "loop" /\ Finished /\ attempt < MaxAttempts
    /\ launcher' = "done"
    /\ UNCHANGED <<tracker, policies, step, phase, watch, line, file, attempt, reruns,
                   life, errors, faults, blind, aborted>>

GaveUp ==
    /\ launcher = "loop" /\ attempt = MaxAttempts
    /\ launcher' = "gave up"
    /\ UNCHANGED <<tracker, policies, step, phase, watch, line, file, attempt, reruns,
                   life, errors, faults, blind, aborted>>

\* The instance is paused or preempted, or the launcher gave up: the command is run again.
Rerun ==
    /\ launcher # "done" /\ reruns < MaxReruns
    /\ reruns' = reruns + 1 /\ launcher' = "loop" /\ attempt' = 0 /\ aborted' = FALSE
    /\ phase' = "off" /\ faults' = IF phase = "off" THEN faults ELSE faults + 1
    /\ torn' \in IF phase = "log" THEN {torn, TRUE} ELSE {torn}
    /\ UNCHANGED <<tracker, policies, step, watch, line, log, glued, life, errors, blind>>

JobStep ==
    \/ Update \/ Save \/ Write \/ WriteRaises \/ Finish
    \/ \E e \in {Low, High, Bad}, kl, acr \in BOOLEAN : Metrics(e, kl, acr)

LauncherStep == Attempt \/ AttemptEnds \/ AlreadyFinished \/ GaveUp

Next == JobStep \/ LauncherStep \/ Kill \/ Rerun

Spec == Init /\ [][Next]_vars

----------------------------------------------------------------------------
Lines ==
    [step : 0 .. Total, by : Nat, entropy : {Bad, Low, High}, drift : BOOLEAN, acr : BOOLEAN]

TypeOK ==
    /\ tracker \in 0 .. Total /\ step \in 0 .. Total
    /\ phase \in {"off", "train", "save", "metrics", "log"}
    /\ saved \in [Steps -> Nat] /\ policy \in [Steps -> Nat] /\ seen \in [Steps -> Nat]
    /\ low \in {0, Low, High} /\ streak \in 0 .. Patience
    /\ line \in Lines /\ log \in Seq(Lines)
    /\ torn \in BOOLEAN /\ glued \in Nat /\ aborted \in BOOLEAN
    /\ launcher \in {"loop", "wait", "done", "gave up"}
    /\ attempt \in 0 .. MaxAttempts /\ reruns \in Nat /\ life \in Nat
    /\ errors \in Nat /\ faults \in Nat /\ blind \subseteq (0 .. Total) \X Nat

Logged == {log[i].step : i \in DOMAIN log}

\* kaggle/train.sh stops a session after a logged step because "the step just logged is
\* checkpointed": every logged step that is due (with SaveFreq 1 every one) has its checkpoint.
LoggedIsCheckpointed == \A s \in Logged : DueAt(s) => s <= tracker

\* metrics.jsonl "must survive a killed job": a kill, an abort or a failed write costs the line
\* that was in flight, and the next one only if half a line stayed behind.
OneLinePerFault == Cardinality({s \in 1 .. tracker : s \notin Logged}) <=
    faults + glued + (IF phase \in {"metrics", "log"} THEN 1 ELSE 0)

\* ACR_100 never mixes in a step of an abandoned attempt: what it averages for a step up to
\* the checkpoint was measured on the update that the checkpoint holds, unless a write of the
\* log failed or was appended to half a line, or that update's own diagnostics raised.
AcrIsOfTheKeptRun ==
    errors = 0 /\ glued = 0 =>
        \A s \in 1 .. tracker : seen[s] \in {0, saved[s]} \/ <<s, saved[s]>> \in blind

\* Over every kill, abort, failed write and resume, metrics.jsonl and what is rebuilt from it tell of
\* the run that the checkpoints hold.
LogIsOfTheKeptRun == OneLinePerFault /\ AcrIsOfTheKeptRun

\* The drift rule, also next to a checkpoint, a kill or a restart: no job logs Patience drift
\* steps in a row, and so none is trained on after them.
NoSustainedDrift ==
    ~ \E i \in DOMAIN log :
          /\ i >= Patience
          /\ \A j \in (i - Patience + 1) .. i :
                log[j].drift /\ log[j].by = log[i].by /\ log[j].step + i = log[i].step + j

\* jarvis/train.sh exits 0 only when the last step is checkpointed.
DoneMeansTrained == launcher = "done" => saved[Total] # 0 /\ tracker = Total
=============================================================================
