------------------------- MODULE TrainingRunProofs -------------------------
(***************************************************************************)
(* Theorems about TrainingRun for any number of steps, attempts, reruns    *)
(* and failing writes: what the launcher calls finished is trained to the  *)
(* last step; with a checkpoint at every step the log never runs ahead of  *)
(* the checkpoint; a drift ends the run, also across restarts; and what    *)
(* the log says, and the running mean rebuilt from it, is the kept run.    *)
(***************************************************************************)
EXTENDS TrainingRun, FiniteSetTheorems, WellFoundedInduction, TLAPS

Domains ==
    /\ tracker \in 0 .. Total /\ step \in 0 .. Total /\ life \in Nat
    /\ policy \in [Steps -> Nat] /\ saved \in [Steps -> Nat]
    /\ phase \in {"off", "train", "save", "metrics", "log"}

\* A job is never behind the checkpoint; every step up to it has been updated.
Trained ==
    /\ phase # "off" => life > 0 /\ tracker <= step
    /\ phase = "save" => step > 0
    /\ phase # "off" => \A s \in 1 .. step : policy[s] # 0
    /\ \A s \in 1 .. tracker : saved[s] # 0
    /\ launcher = "done" => tracker = Total

RunInv == Domains /\ Trained

LEMMA RunInit == Init => RunInv
BY TrainingRunAssumption DEF Init, RunInv, Domains, Trained, Nobody, Steps

LEMMA RunStep == RunInv /\ [Next]_vars => RunInv'
<1>. SUFFICES ASSUME RunInv, [Next]_vars PROVE RunInv'
    OBVIOUS
<1>. USE TrainingRunAssumption DEF RunInv, Steps, policies, shell
<1>1. CASE Update
    <2>1. /\ step < Total /\ step' = step + 1 /\ phase' = "save" /\ tracker' = tracker
          /\ saved' = saved /\ life' = life /\ launcher' = launcher /\ phase = "train"
          /\ policy' = [policy EXCEPT ![step + 1] = life]
        BY <1>1 DEF Update
    <2>2. Domains'
        BY <2>1 DEF Domains
    <2>3. \A s \in 1 .. step' : policy'[s] # 0
        BY <2>1 DEF Domains, Trained
    <2>. QED
        BY <2>1, <2>2, <2>3 DEF Domains, Trained
<1>2. CASE Save
    <2>1. CASE Due
        BY <1>2, <2>1 DEF Save, Domains, Trained
    <2>2. CASE ~Due
        BY <1>2, <2>2 DEF Save, Domains, Trained
    <2>. QED
        BY <2>1, <2>2
<1>3. ASSUME NEW e \in {Low, High, Bad}, NEW kl \in BOOLEAN, NEW acr \in BOOLEAN, Metrics(e, kl, acr) PROVE RunInv'
    BY <1>3 DEF Metrics, Domains, Trained
<1>4. CASE Write \/ WriteRaises \/ Finish \/ Kill
    BY <1>4 DEF Write, WriteRaises, Finish, Kill, Domains, Trained
<1>5. CASE Attempt
    BY <1>5 DEF Attempt, Domains, Trained
<1>6. CASE AttemptEnds \/ AlreadyFinished \/ GaveUp
    <2>1. Domains' /\ tracker' = tracker /\ saved' = saved /\ policy' = policy
        BY <1>6 DEF AttemptEnds, AlreadyFinished, GaveUp, Domains
    <2>2. phase' = phase /\ step' = step /\ life' = life
        BY <1>6 DEF AttemptEnds, AlreadyFinished, GaveUp
    <2>3. launcher' = "done" => Finished
        BY <1>6 DEF AttemptEnds, AlreadyFinished, GaveUp
    <2>. QED
        BY <2>1, <2>2, <2>3 DEF Domains, Trained, Finished
<1>7. CASE Rerun
    BY <1>7 DEF Rerun, Domains, Trained
<1>8. CASE UNCHANGED vars
    BY <1>8 DEF vars, Domains, Trained
<1>. QED
    BY <1>1, <1>2, <1>3, <1>4, <1>5, <1>6, <1>7, <1>8 DEF Next, JobStep, LauncherStep

\* The launcher exits 0 only when the last step is trained and checkpointed.
THEOREM DoneAlwaysMeansTrained == Spec => []DoneMeansTrained
<1>1. RunInv => DoneMeansTrained
    BY TrainingRunAssumption DEF RunInv, Domains, Trained, DoneMeansTrained
<1>. QED
    BY <1>1, RunInit, RunStep, PTL DEF Spec

\* A line is written for the step that was saved just before, if it was due.
LogBehind ==
    /\ phase \in {"metrics", "log"} /\ Due => tracker = step
    /\ phase = "log" => line.step = step
    /\ \A i \in DOMAIN log : DueAt(log[i].step) => log[i].step <= tracker
    /\ log \in Seq(Lines)
    /\ phase = "log" => line \in Lines

LEMMA LogInit == Init => LogBehind
BY DEF Init, LogBehind, Lines

LEMMA LogStep == RunInv /\ LogBehind /\ [Next]_vars => LogBehind'
<1>. SUFFICES ASSUME RunInv, LogBehind, [Next]_vars PROVE LogBehind'
    OBVIOUS
<1>. USE TrainingRunAssumption DEF RunInv, LogBehind, policies, file, shell, Due
<1>1. CASE Update \/ Finish \/ Kill \/ WriteRaises
    BY <1>1 DEF Update, Finish, Kill, WriteRaises
<1>2. CASE Save
    <2>1. log' = log /\ phase' = "metrics" /\ step' = step
        BY <1>2 DEF Save
    <2>2. \A i \in DOMAIN log : log[i].step \in 0 .. Total
        <3>1. \A i \in DOMAIN log : log[i] \in Lines
            OBVIOUS
        <3>. QED
            BY <3>1 DEF Lines
    <2>3. CASE Due
        <3>1. tracker' = step /\ tracker <= step
            BY <1>2, <2>3 DEF Save, Domains, Trained
        <3>2. \A i \in DOMAIN log' : DueAt(log'[i].step) => log'[i].step <= tracker'
            BY <3>1, <2>1, <2>2, SMTT(30) DEF Domains
        <3>. QED
            BY <2>1, <3>1, <3>2
    <2>4. CASE ~Due
        BY <1>2, <2>1, <2>4 DEF Save
    <2>. QED
        BY <2>3, <2>4
<1>3. ASSUME NEW e \in {Low, High, Bad}, NEW kl \in BOOLEAN, NEW acr \in BOOLEAN, Metrics(e, kl, acr) PROVE LogBehind'
    <2>1. line' = Line(e, streak' > 0, acr)
        BY <1>3 DEF Metrics
    <2>2. line' \in Lines /\ line'.step = step
        BY <1>3, <2>1 DEF Line, Lines, Domains, Low, High, Bad
    <2>. QED
        BY <1>3, <2>2 DEF Metrics
<1>4. CASE Write
    <2>1. CASE torn
        BY <1>4, <2>1 DEF Write
    <2>2. CASE ~torn
        <3>1. log' = Append(log, line) /\ line \in Lines
            BY <1>4, <2>2 DEF Write
        <3>2. DueAt(line.step) => line.step <= tracker
            BY <1>4 DEF Write, Domains
        <3>3. log' \in Seq(Lines)
            BY <3>1
        <3>4. \A i \in DOMAIN log' : DueAt(log'[i].step) => log'[i].step <= tracker
            BY <3>1, <3>2
        <3>. QED
            BY <1>4, <3>3, <3>4 DEF Write
    <2>. QED
        BY <2>1, <2>2
<1>5. CASE Attempt
    BY <1>5 DEF Attempt
<1>6. CASE AttemptEnds \/ AlreadyFinished \/ GaveUp \/ Rerun
    BY <1>6 DEF AttemptEnds, AlreadyFinished, GaveUp, Rerun
<1>7. CASE UNCHANGED vars
    BY <1>7 DEF vars
<1>. QED
    BY <1>1, <1>2, <1>3, <1>4, <1>5, <1>6, <1>7 DEF Next, JobStep, LauncherStep

\* A logged step that is due is a checkpointed step, whatever fails and restarts.
THEOREM LoggedStepsAreCheckpointed == Spec => []LoggedIsCheckpointed
<1>1. LogBehind => LoggedIsCheckpointed
    BY DEF LogBehind, LoggedIsCheckpointed, Logged
<1>. QED
    BY <1>1, RunInit, RunStep, LogInit, LogStep, PTL DEF Spec

-----------------------------------------------------------------------------
\* Every set of numbers that is not empty has a least one: < is well-founded on Nat.
LessThan == {p \in Nat \X Nat : p[1] < p[2]}

LEMMA LessThanIsWellFounded == IsWellFoundedOn(LessThan, Nat)
    BY NatLessThanWellFounded, SMT DEF OpToRel, LessThan

LEMMA LeastNumber ==
    ASSUME NEW T, T \subseteq Nat, T # {}
    PROVE  \E x \in T : \A y \in T : x <= y
<1>1. PICK x \in T : \A y \in T : <<y, x>> \notin LessThan
    BY LessThanIsWellFounded, WFMin
<1>2. ASSUME NEW y \in T, y < x PROVE <<y, x>> \in LessThan
    BY <1>2 DEF LessThan
<1>3. \A y \in T : ~(y < x)
    BY <1>1, <1>2
<1>. QED
    BY <1>3, x \in Nat

\* A set of indices that is not empty has a last one.
LEMMA LastIndex ==
    ASSUME NEW n \in Nat, NEW S, S \subseteq 1 .. n, S # {}
    PROVE  \E i \in S : \A j \in S : j <= i
<1>. DEFINE T == {n - i : i \in S}
<1>1. T \subseteq Nat /\ T # {}
    <2>1. \A i \in S : i \in 1 .. n /\ n - i \in Nat
        OBVIOUS
    <2>. QED
        BY <2>1
<1>2. PICK x \in T : \A y \in T : x <= y
    <2>. HIDE DEF T
    <2>. QED
        BY <1>1, LeastNumber
<1>3. PICK i \in S : x = n - i
    OBVIOUS
<1>4. ASSUME NEW j \in S PROVE j <= i
    <2>1. n - i <= n - j
        BY <1>2, <1>3
    <2>. QED
        BY <2>1, i \in 1 .. n, j \in 1 .. n
<1>. QED
    BY <1>4

\* The types in three parts: what the job and the launcher count, what the file and the
\* line in flight hold, and the running mean, which is rebuilt from the file, with the
\* history of the diagnostics that raised.
Counters ==
    /\ tracker \in 0 .. Total /\ step \in 0 .. Total
    /\ phase \in {"off", "train", "save", "metrics", "log"}
    /\ saved \in [Steps -> Nat] /\ policy \in [Steps -> Nat]
    /\ low \in {0, Low, High} /\ streak \in 0 .. Patience
    /\ phase # "off" => streak < Patience
    /\ torn \in BOOLEAN /\ glued \in Nat /\ aborted \in BOOLEAN
    /\ launcher \in {"loop", "wait", "done", "gave up"}
    /\ attempt \in 0 .. MaxAttempts /\ reruns \in Nat /\ life \in Nat
    /\ errors \in Nat /\ faults \in Nat
Records == line \in Lines /\ log \in Seq(Lines)
Mean == seen \in [Steps -> Nat] /\ blind \subseteq (0 .. Total) \X Nat

LEMMA CountersKeep == Counters /\ [Next]_vars => Counters'
<1>. SUFFICES ASSUME Counters, [Next]_vars PROVE Counters'
    OBVIOUS
<1>. USE TrainingRunAssumption DEF policies, watch, file, shell
<1>1. CASE Update
    <2>1. policy' \in [Steps -> Nat]
        BY <1>1 DEF Update, Counters
    <2>2. step' \in 0 .. Total
        <3>1. step' = step + 1 /\ step < Total
            BY <1>1 DEF Update
        <3>2. step \in 0 .. Total
            BY DEF Counters
        <3>. QED
            BY <3>1, <3>2
    <2>3. /\ phase' = "save" /\ phase # "off"
          /\ UNCHANGED <<tracker, saved, watch, line, file, shell, errors, faults>>
        BY <1>1 DEF Update
    <2>. QED
        BY <2>1, <2>2, <2>3 DEF Counters
<1>2. CASE Save
    <2>1. tracker' \in 0 .. Total /\ saved' \in [Steps -> Nat]
        <3>1. CASE Due
            BY <1>2, <3>1 DEF Save, Counters
        <3>2. CASE ~Due
            BY <1>2, <3>2 DEF Save, Counters
        <3>. QED
            BY <3>1, <3>2
    <2>. QED
        BY <1>2, <2>1 DEF Save, Counters
<1>3. CASE Write
    <2>1. glued' \in Nat
        <3>1. glued' \in {glued, glued + 1}
            BY <1>3 DEF Write
        <3>2. glued \in Nat
            BY DEF Counters
        <3>. QED
            BY <3>1, <3>2
    <2>2. /\ phase' = "train" /\ phase # "off" /\ torn' = FALSE
          /\ UNCHANGED <<tracker, policies, step, watch, line, shell, errors, faults>>
        BY <1>3 DEF Write
    <2>. QED
        BY <2>1, <2>2 DEF Counters
<1>4. CASE WriteRaises
    <2>1. /\ errors' = errors + 1 /\ faults' = faults + 1 /\ torn' \in {torn, TRUE}
          /\ phase' = "train" /\ phase # "off"
          /\ UNCHANGED <<tracker, policies, step, watch, line, log, glued, shell>>
        BY <1>4 DEF WriteRaises
    <2>2. errors' \in Nat /\ faults' \in Nat
        <3>1. errors \in Nat /\ faults \in Nat
            BY DEF Counters
        <3>. QED
            BY <2>1, <3>1
    <2>3. torn' \in BOOLEAN
        BY <2>1 DEF Counters
    <2>. QED
        BY <2>1, <2>2, <2>3 DEF Counters
<1>5. CASE Finish
    BY <1>5 DEF Finish, Counters
<1>6. ASSUME NEW e \in {Low, High, Bad}, NEW kl \in BOOLEAN, NEW acr \in BOOLEAN, Metrics(e, kl, acr) PROVE Counters'
    <2>. DEFINE d == IF Drifts(e, kl) THEN streak + 1 ELSE 0
    <2>1. d \in 0 .. Patience
        <3>1. streak < Patience
            BY <1>6 DEF Metrics, Counters
        <3>2. streak \in 0 .. Patience
            BY DEF Counters
        <3>. QED
            BY <3>1, <3>2
    <2>2. low' \in {0, Low, High}
        <3>1. low' = Lowest(low, e)
            BY <1>6 DEF Metrics
        <3>. QED
            BY <3>1 DEF Lowest, Counters, Low, High, Bad
    <2>3. streak' = d /\ UNCHANGED <<tracker, policies, step, file, launcher, attempt, reruns, life, errors>>
        BY <1>6 DEF Metrics
    <2>4. CASE d >= Patience
        <3>1. phase' = "off" /\ aborted' = TRUE /\ faults' = faults + 1
            BY <1>6, <2>4 DEF Metrics
        <3>2. faults' \in Nat
            <4>1. faults \in Nat
                BY DEF Counters
            <4>. QED
                BY <3>1, <4>1
        <3>. QED
            BY <2>1, <2>2, <2>3, <3>1, <3>2 DEF Counters
    <2>5. CASE ~(d >= Patience)
        <3>1. phase' = "log" /\ UNCHANGED <<aborted, faults>>
            BY <1>6, <2>5 DEF Metrics
        <3>2. d < Patience
            BY <2>1, <2>5
        <3>. QED
            BY <2>1, <2>2, <2>3, <3>1, <3>2 DEF Counters
    <2>. QED
        BY <2>4, <2>5
<1>7. CASE Attempt
    <2>1. RebuiltLow \in {0, Low, High}
        BY DEF RebuiltLow
    <2>2. attempt + 1 \in 0 .. MaxAttempts
        BY <1>7 DEF Attempt, Counters
    <2>. QED
        BY <1>7, <2>1, <2>2 DEF Attempt, Counters
<1>8. CASE AttemptEnds \/ AlreadyFinished \/ GaveUp
    BY <1>8 DEF AttemptEnds, AlreadyFinished, GaveUp, Counters
<1>9. CASE Kill
    <2>1. /\ phase' = "off" /\ torn' \in {torn, TRUE} /\ faults' = faults + 1
          /\ UNCHANGED <<tracker, policies, step, watch, line, log, glued, shell, errors>>
        BY <1>9 DEF Kill
    <2>2. faults' \in Nat
        <3>1. faults \in Nat
            BY DEF Counters
        <3>. QED
            BY <2>1, <3>1
    <2>. QED
        BY <2>1, <2>2 DEF Counters
<1>10. CASE Rerun
    <2>1. /\ phase' = "off" /\ torn' \in {torn, TRUE} /\ faults' \in {faults, faults + 1}
          /\ reruns' = reruns + 1 /\ launcher' = "loop" /\ attempt' = 0 /\ aborted' = FALSE
          /\ UNCHANGED <<tracker, policies, step, watch, line, log, glued, life, errors>>
        BY <1>10 DEF Rerun
    <2>2. faults' \in Nat /\ reruns' \in Nat /\ attempt' \in 0 .. MaxAttempts
        <3>1. faults \in Nat /\ reruns \in Nat /\ MaxAttempts \in Nat
            BY DEF Counters
        <3>. QED
            BY <2>1, <3>1
    <2>. QED
        BY <2>1, <2>2 DEF Counters
<1>11. CASE UNCHANGED vars
    BY <1>11 DEF vars, Counters
<1>. QED
    BY <1>1, <1>2, <1>3, <1>4, <1>5, <1>6, <1>7, <1>8, <1>9, <1>10, <1>11 DEF Next, JobStep, LauncherStep

LEMMA RecordsKeep == Counters /\ Records /\ [Next]_vars => Records'
<1>. SUFFICES ASSUME Counters, Records, [Next]_vars PROVE Records'
    OBVIOUS
<1>. USE DEF file
<1>1. CASE Write
    <2>1. line' = line /\ log' \in {log, Append(log, line)}
        BY <1>1 DEF Write
    <2>. QED
        BY <2>1 DEF Records
<1>2. ASSUME NEW e \in {Low, High, Bad}, NEW kl \in BOOLEAN, NEW acr \in BOOLEAN, Metrics(e, kl, acr) PROVE Records'
    <2>1. PICK d \in BOOLEAN : line' = Line(e, d, acr)
        <3>. DEFINE s == IF Drifts(e, kl) THEN streak + 1 ELSE 0
        <3>1. line' = Line(e, s > 0, acr)
            BY <1>2 DEF Metrics
        <3>2. (s > 0) \in BOOLEAN
            OBVIOUS
        <3>. HIDE DEF s
        <3>. QED
            BY <3>1, <3>2
    <2>2. Line(e, d, acr) \in Lines
        BY DEF Line, Lines, Counters
    <2>3. log' = log
        BY <1>2 DEF Metrics
    <2>. QED
        BY <2>1, <2>2, <2>3 DEF Records
<1>3. CASE Attempt
    <2>1. NoLine \in Lines
        BY TrainingRunAssumption DEF NoLine, Lines
    <2>2. line' = NoLine /\ log' = log
        BY <1>3 DEF Attempt
    <2>. QED
        BY <2>1, <2>2 DEF Records
<1>4. CASE UNCHANGED <<line, log>>
    BY <1>4 DEF Records
<1>. QED
    BY <1>1, <1>2, <1>3, <1>4 DEF Next, JobStep, LauncherStep, Update, Save, WriteRaises, Finish, AttemptEnds,
       AlreadyFinished, GaveUp, Kill, Rerun, vars

LEMMA RebuiltIsAMean == Records => Rebuilt \in [Steps -> Nat]
<1>. SUFFICES ASSUME Records, NEW S, S # {}, S \subseteq DOMAIN log
              PROVE  log[CHOOSE i \in S : \A j \in S : j <= i].by \in Nat
    BY DEF Rebuilt
<1>1. Len(log) \in Nat /\ DOMAIN log = 1 .. Len(log)
    BY DEF Records
<1>2. \E i \in S : \A j \in S : j <= i
    BY <1>1, LastIndex
<1>3. (CHOOSE i \in S : \A j \in S : j <= i) \in S
    BY <1>2
<1>4. \A i \in DOMAIN log : log[i] \in Lines
    BY DEF Records
<1>5. \A l \in Lines : l.by \in Nat
    BY DEF Lines
<1>. QED
    BY <1>3, <1>4, <1>5

LEMMA MeanKeeps == Counters /\ Records /\ Mean /\ [Next]_vars => Mean'
<1>. SUFFICES ASSUME Counters, Records, Mean, [Next]_vars PROVE Mean'
    OBVIOUS
<1>1. ASSUME NEW e \in {Low, High, Bad}, NEW kl \in BOOLEAN, NEW acr \in BOOLEAN, Metrics(e, kl, acr) PROVE Mean'
    <2>1. seen' \in {seen, [seen EXCEPT ![step] = life]} /\ blind' \subseteq blind \cup {<<step, life>>}
        BY <1>1 DEF Metrics, Diagnose
    <2>2. <<step, life>> \in (0 .. Total) \X Nat
        BY DEF Counters
    <2>. QED
        BY <2>1, <2>2 DEF Mean, Counters
<1>2. CASE Attempt
    BY <1>2, RebuiltIsAMean DEF Attempt, Mean
<1>3. CASE UNCHANGED <<seen, blind>>
    BY <1>3 DEF Mean
<1>. QED
    BY <1>1, <1>2, <1>3 DEF Next, JobStep, LauncherStep, Update, Save, Write, WriteRaises, Finish, AttemptEnds,
       AlreadyFinished, GaveUp, Kill, Rerun, vars, watch

\* What the later proofs start from: every variable has its type.
Typed == Counters /\ Records /\ Mean

LEMMA TypedInit == Init => Typed
<1>. SUFFICES ASSUME Init PROVE Typed
    OBVIOUS
<1>1. Nobody \in [Steps -> Nat]
    BY DEF Nobody
<1>2. NoLine \in Lines
    BY TrainingRunAssumption DEF NoLine, Lines
<1>3. Counters
    <2>1. 0 \in 0 .. Total /\ 0 \in 0 .. Patience /\ 0 < Patience /\ 0 \in 0 .. MaxAttempts
        BY TrainingRunAssumption
    <2>2. /\ tracker = 0 /\ step = 0 /\ streak = 0 /\ attempt = 0
          /\ reruns = 0 /\ life = 0 /\ errors = 0 /\ faults = 0 /\ glued = 0
        BY DEF Init
    <2>3. /\ phase = "off" /\ low = 0 /\ launcher = "loop"
          /\ torn = FALSE /\ aborted = FALSE
          /\ saved = Nobody /\ policy = Nobody
        BY DEF Init
    <2>. QED
        BY <1>1, <2>1, <2>2, <2>3 DEF Counters
<1>4. Records /\ Mean
    BY <1>1, <1>2 DEF Init, Records, Mean
<1>. QED
    BY <1>3, <1>4 DEF Typed

LEMMA TypedStep == Typed /\ [Next]_vars => Typed'
BY CountersKeep, RecordsKeep, MeanKeeps DEF Typed

\* Every variable of the run keeps its type.
THEOREM TypesAlwaysHold == Spec => []TypeOK
<1>1. Typed => TypeOK
    BY DEF Typed, Counters, Records, Mean, TypeOK
<1>. QED
    BY <1>1, TypedInit, TypedStep, PTL DEF Spec

-----------------------------------------------------------------------------
\* Who wrote a line: the lives up to the present one, and the present life has written none
\* for a step that it has not finished.
Owners ==
    /\ \A i \in DOMAIN log : log[i].by <= life
    /\ phase = "log" => line.by = life /\ line.step = step
    /\ phase = "train" => \A i \in DOMAIN log : log[i].by = life => log[i].step <= step
    /\ phase \in {"save", "metrics", "log"} =>
           \A i \in DOMAIN log : log[i].by = life => log[i].step < step

\* The last k lines of the log are drift lines of the present life, for the steps up to s.
DriftTail(k, s) ==
    \A j \in (Len(log) - k + 1) .. Len(log) :
        log[j].drift /\ log[j].by = life /\ log[j].step + Len(log) = s + j

\* The streak in memory covers the drift lines at the end of the log, and the one in flight.
Streaks ==
    /\ phase = "log" /\ line.drift => streak >= 1
    /\ phase = "train" => \A k \in 1 .. Len(log) : DriftTail(k, step) => k <= streak
    /\ phase \in {"save", "metrics"} =>
           \A k \in 1 .. Len(log) : DriftTail(k, step - 1) => k <= streak
    /\ phase = "log" /\ line.drift =>
           \A k \in 1 .. Len(log) : DriftTail(k, step - 1) => k + 1 <= streak

\* What the proofs about the log need of the types.
LEMMA LogTypes ==
    ASSUME Counters, Records
    PROVE  /\ log \in Seq(Lines) /\ line \in Lines
           /\ life \in Nat /\ step \in Nat /\ tracker \in Nat /\ streak \in Nat
           /\ Len(log) \in Nat /\ DOMAIN log = 1 .. Len(log)
           /\ \A i \in DOMAIN log : log[i].by \in Nat /\ log[i].step \in Nat
<1>1. log \in Seq(Lines) /\ line \in Lines
    BY DEF Records
<1>2. tracker \in 0 .. Total /\ step \in 0 .. Total /\ streak \in 0 .. Patience /\ life \in Nat
    BY DEF Counters
<1>3. \A l \in Lines : l.by \in Nat /\ l.step \in Nat
    BY TrainingRunAssumption DEF Lines
<1>. QED
    BY <1>1, <1>2, <1>3, TrainingRunAssumption

LEMMA OwnersKeep ==
    Counters /\ Records /\ Owners /\ [Next]_vars => Owners'
<1>. SUFFICES ASSUME Counters, Records, Owners, [Next]_vars PROVE Owners'
    OBVIOUS
<1>0. /\ log \in Seq(Lines) /\ line \in Lines /\ life \in Nat /\ step \in Nat
      /\ \A i \in DOMAIN log : log[i].by \in Nat /\ log[i].step \in Nat
    BY LogTypes
<1>. USE DEF policies, watch, file, shell
<1>1. CASE Update
    <2>1. /\ phase = "train" /\ phase' = "save" /\ step' = step + 1
          /\ log' = log /\ life' = life
        BY <1>1 DEF Update
    <2>. QED
        BY <1>0, <2>1 DEF Owners
<1>2. CASE Save
    <2>1. phase = "save" /\ phase' = "metrics" /\ step' = step /\ log' = log /\ life' = life
        BY <1>2 DEF Save
    <2>. QED
        BY <2>1 DEF Owners
<1>3. ASSUME NEW e \in {Low, High, Bad}, NEW kl \in BOOLEAN, NEW acr \in BOOLEAN, Metrics(e, kl, acr) PROVE Owners'
    <2>1. /\ phase = "metrics" /\ phase' \in {"off", "log"} /\ step' = step
          /\ log' = log /\ life' = life
        BY <1>3 DEF Metrics
    <2>2. line'.by = life /\ line'.step = step
        BY <1>3 DEF Metrics, Line
    <2>. QED
        BY <2>1, <2>2 DEF Owners
<1>4. CASE Write
    <2>1. phase = "log" /\ phase' = "train" /\ step' = step /\ line' = line /\ life' = life
        BY <1>4 DEF Write
    <2>2. CASE torn
        BY <1>0, <1>4, <2>1, <2>2 DEF Write, Owners
    <2>3. CASE ~torn
        <3>1. log' = Append(log, line)
            BY <1>4, <2>3 DEF Write
        <3>2. line.by = life /\ line.step = step
            BY <2>1 DEF Owners
        <3>3. \A i \in DOMAIN log' : \/ i \in DOMAIN log /\ log'[i] = log[i]
                                     \/ log'[i] = line
            BY <1>0, <3>1
        <3>. QED
            BY <1>0, <2>1, <3>2, <3>3 DEF Owners
    <2>. QED
        BY <2>2, <2>3
<1>5. CASE WriteRaises
    <2>1. phase = "log" /\ phase' = "train" /\ step' = step /\ log' = log /\ life' = life
        BY <1>5 DEF WriteRaises
    <2>. QED
        BY <1>0, <2>1 DEF Owners
<1>6. CASE Finish \/ Kill \/ Rerun
    <2>1. phase' = "off" /\ log' = log /\ life' = life
        BY <1>6 DEF Finish, Kill, Rerun
    <2>. QED
        BY <2>1 DEF Owners
<1>7. CASE Attempt
    <2>1. phase' = "train" /\ log' = log /\ life' = life + 1
        BY <1>7 DEF Attempt
    <2>. QED
        BY <1>0, <2>1 DEF Owners
<1>8. CASE AttemptEnds \/ AlreadyFinished \/ GaveUp \/ UNCHANGED vars
    <2>1. phase' = phase /\ step' = step /\ log' = log /\ line' = line /\ life' = life
        BY <1>8 DEF AttemptEnds, AlreadyFinished, GaveUp, vars
    <2>. QED
        BY <2>1 DEF Owners
<1>. QED
    BY <1>1, <1>2, <1>3, <1>4, <1>5, <1>6, <1>7, <1>8 DEF Next, JobStep, LauncherStep

LEMMA StreaksKeep ==
    Counters /\ Records /\ Owners /\ Streaks /\ [Next]_vars => Streaks'
<1>. SUFFICES ASSUME Counters, Records, Owners, Streaks, [Next]_vars PROVE Streaks'
    OBVIOUS
<1>0. /\ log \in Seq(Lines) /\ line \in Lines /\ life \in Nat /\ step \in Nat /\ streak \in Nat
      /\ \A i \in DOMAIN log : log[i].by \in Nat /\ log[i].step \in Nat
      /\ Len(log) \in Nat /\ DOMAIN log = 1 .. Len(log)
    BY LogTypes
<1>. USE DEF policies, watch, file, shell
\* Without a line for the step the tail that ends with it is empty.
<1>a. ASSUME phase = "log", NEW k \in 1 .. Len(log), DriftTail(k, step) PROVE FALSE
    <2>1. Len(log) \in (Len(log) - k + 1) .. Len(log) /\ Len(log) \in DOMAIN log
        BY <1>0
    <2>2. log[Len(log)].by = life /\ log[Len(log)].step + Len(log) = step + Len(log)
        BY <1>a, <2>1 DEF DriftTail
    <2>3. log[Len(log)].step < step
        BY <1>a, <2>1, <2>2 DEF Owners
    <2>. QED
        BY <1>0, <2>1, <2>2, <2>3
<1>1. CASE Update
    <2>1. /\ phase = "train" /\ phase' = "save" /\ step' = step + 1 /\ step' - 1 = step
          /\ log' = log /\ life' = life /\ streak' = streak
        BY <1>0, <1>1 DEF Update
    <2>2. \A k : DriftTail(k, step - 1)' <=> DriftTail(k, step)
        BY <2>1 DEF DriftTail
    <2>. QED
        BY <2>1, <2>2 DEF Streaks
<1>2. CASE Save
    <2>1. /\ phase = "save" /\ phase' = "metrics" /\ step' = step
          /\ log' = log /\ life' = life /\ streak' = streak
        BY <1>2 DEF Save
    <2>2. \A k : DriftTail(k, step - 1)' <=> DriftTail(k, step - 1)
        BY <2>1 DEF DriftTail
    <2>. QED
        BY <2>1, <2>2 DEF Streaks
<1>3. ASSUME NEW e \in {Low, High, Bad}, NEW kl \in BOOLEAN, NEW acr \in BOOLEAN, Metrics(e, kl, acr) PROVE Streaks'
    <2>1. /\ phase = "metrics" /\ phase' \in {"off", "log"} /\ step' = step
          /\ log' = log /\ life' = life
        BY <1>3 DEF Metrics
    <2>2. \A k : DriftTail(k, step - 1)' <=> DriftTail(k, step - 1)
        BY <2>1 DEF DriftTail
    <2>3. CASE Drifts(e, kl)
        <3>1. streak' = streak + 1
            BY <1>3, <2>3 DEF Metrics
        <3>. QED
            BY <1>0, <2>1, <2>2, <3>1 DEF Streaks
    <2>4. CASE ~Drifts(e, kl)
        <3>1. line' = Line(e, FALSE, acr)
            <4>1. line' = Line(e, 0 > 0, acr)
                BY <1>3, <2>4 DEF Metrics
            <4>2. (0 > 0) = FALSE
                OBVIOUS
            <4>. QED
                BY <4>1, <4>2
        <3>2. ~line'.drift
            BY <3>1 DEF Line
        <3>. QED
            BY <2>1, <3>2 DEF Streaks
    <2>. QED
        BY <2>3, <2>4
<1>4. CASE Write
    <2>1. /\ phase = "log" /\ phase' = "train" /\ step' = step /\ line' = line /\ life' = life
          /\ streak' = streak
        BY <1>4 DEF Write
    <2>2. CASE torn
        <3>1. log' = log
            BY <1>4, <2>2 DEF Write
        <3>2. \A k : DriftTail(k, step)' <=> DriftTail(k, step)
            BY <2>1, <3>1 DEF DriftTail
        <3>. QED
            BY <1>a, <2>1, <3>1, <3>2 DEF Streaks
    <2>3. CASE ~torn
        <3>1. log' = Append(log, line)
            BY <1>4, <2>3 DEF Write
        <3>2. /\ Len(log') = Len(log) + 1 /\ log'[Len(log) + 1] = line
              /\ \A i \in 1 .. Len(log) : log'[i] = log[i]
            BY <1>0, <3>1
        <3>3. ASSUME NEW k \in 1 .. Len(log'), DriftTail(k, step)' PROVE k <= streak
            <4>0. \A j \in (Len(log) + 1 - k + 1) .. (Len(log) + 1) :
                     log'[j].drift /\ log'[j].by = life /\ log'[j].step + (Len(log) + 1) = step + j
                BY <2>1, <3>2, <3>3 DEF DriftTail
            <4>1. line.drift
                <5>1. Len(log) + 1 \in (Len(log) + 1 - k + 1) .. (Len(log) + 1)
                    BY <1>0, <3>2
                <5>. QED
                    BY <3>2, <4>0, <5>1
            <4>2. CASE k = 1
                BY <2>1, <4>1, <4>2, <1>0 DEF Streaks
            <4>3. CASE k # 1
                <5>1. k - 1 \in 1 .. Len(log)
                    BY <1>0, <3>2, <4>3
                <5>2. DriftTail(k - 1, step - 1)
                    <6>1. SUFFICES ASSUME NEW j \in (Len(log) - (k - 1) + 1) .. Len(log)
                                   PROVE  /\ log[j].drift /\ log[j].by = life
                                          /\ log[j].step + Len(log) = (step - 1) + j
                        BY DEF DriftTail
                    <6>2. j \in 1 .. Len(log) /\ j \in (Len(log) + 1 - k + 1) .. (Len(log) + 1)
                        BY <1>0, <5>1
                    <6>3. log'[j] = log[j]
                        BY <3>2, <6>2
                    <6>4. log[j].drift /\ log[j].by = life
                        BY <4>0, <6>2, <6>3
                    <6>5. log[j].step + (Len(log) + 1) = step + j
                        BY <4>0, <6>2, <6>3
                    <6>6. log[j].step \in Nat /\ j \in Nat
                        BY <1>0, <6>2
                    <6>7. log[j].step + Len(log) = (step - 1) + j
                        BY <1>0, <6>5, <6>6, SMTT(30)
                    <6>. QED
                        BY <6>4, <6>7
                <5>3. k - 1 + 1 <= streak
                    BY <2>1, <4>1, <5>1, <5>2 DEF Streaks
                <5>. QED
                    BY <1>0, <3>2, <5>3
            <4>. QED
                BY <4>2, <4>3
        <3>. QED
            BY <2>1, <3>3 DEF Streaks
    <2>. QED
        BY <2>2, <2>3
<1>5. CASE WriteRaises
    <2>1. phase = "log" /\ phase' = "train" /\ step' = step /\ log' = log /\ life' = life
        BY <1>5 DEF WriteRaises
    <2>2. \A k : DriftTail(k, step)' <=> DriftTail(k, step)
        BY <2>1 DEF DriftTail
    <2>. QED
        BY <1>a, <2>1, <2>2 DEF Streaks
<1>6. CASE Finish \/ Kill \/ Rerun
    <2>1. phase' = "off"
        BY <1>6 DEF Finish, Kill, Rerun
    <2>. QED
        BY <2>1 DEF Streaks
<1>7. CASE Attempt
    <2>1. phase' = "train" /\ log' = log /\ life' = life + 1
        BY <1>7 DEF Attempt
    <2>2. ASSUME NEW k \in 1 .. Len(log), DriftTail(k, step)' PROVE FALSE
        <3>1. Len(log) \in (Len(log) - k + 1) .. Len(log) /\ Len(log) \in DOMAIN log
            BY <1>0
        <3>2. log[Len(log)].by = life + 1
            BY <2>1, <2>2, <3>1 DEF DriftTail
        <3>3. log[Len(log)].by <= life
            BY <3>1 DEF Owners
        <3>. QED
            BY <1>0, <3>1, <3>2, <3>3
    <2>. QED
        BY <2>1, <2>2 DEF Streaks
<1>8. CASE AttemptEnds \/ AlreadyFinished \/ GaveUp \/ UNCHANGED vars
    <2>1. /\ phase' = phase /\ step' = step /\ log' = log /\ line' = line /\ life' = life
          /\ streak' = streak
        BY <1>8 DEF AttemptEnds, AlreadyFinished, GaveUp, vars
    <2>. QED
        BY <2>1 DEF Streaks, DriftTail
<1>. QED
    BY <1>1, <1>2, <1>3, <1>4, <1>5, <1>6, <1>7, <1>8 DEF Next, JobStep, LauncherStep

LEMMA DriftStep ==
    Counters /\ Counters' /\ Records /\ Owners /\ Streaks' /\ NoSustainedDrift /\ [Next]_vars
        => NoSustainedDrift'
<1>. SUFFICES ASSUME Counters, Counters', Records, Owners, Streaks', NoSustainedDrift, [Next]_vars
              PROVE  NoSustainedDrift'
    OBVIOUS
<1>. USE DEF policies, watch, file, shell
<1>1. CASE Write
    <2>0. /\ log \in Seq(Lines) /\ line \in Lines /\ Len(log) \in Nat /\ DOMAIN log = 1 .. Len(log)
          /\ step \in Nat
        BY LogTypes
    <2>1. phase = "log" /\ phase' = "train" /\ step' = step /\ life' = life /\ log' \in {log, Append(log, line)}
        BY <1>1 DEF Write
    <2>2. CASE log' = log
        BY <2>2 DEF NoSustainedDrift
    <2>3. CASE log' = Append(log, line)
        <3>1. /\ Len(log') = Len(log) + 1 /\ log'[Len(log) + 1] = line
              /\ \A i \in 1 .. Len(log) : log'[i] = log[i]
              /\ DOMAIN log' = 1 .. (Len(log) + 1)
            BY <2>0, <2>3
        <3>2. line.by = life /\ line.step = step
            BY <2>1 DEF Owners
        <3>3. Patience \in Nat \ {0}
            BY TrainingRunAssumption
        <3>4. SUFFICES ASSUME NEW i \in DOMAIN log', i >= Patience,
                              \A j \in (i - Patience + 1) .. i :
                                 /\ log'[j].drift /\ log'[j].by = log'[i].by
                                 /\ log'[j].step + i = log'[i].step + j
                       PROVE  FALSE
            BY DEF NoSustainedDrift
        <3>5. CASE i = Len(log) + 1
            <4>1. log'[i] = line /\ i = Len(log')
                BY <3>1, <3>5
            <4>2. DriftTail(Patience, step)'
                BY <2>1, <3>2, <3>4, <4>1 DEF DriftTail
            <4>3. Patience \in 1 .. Len(log')
                BY <2>0, <3>1, <3>3, <3>4, <3>5
            <4>4. Patience <= streak'
                BY <2>1, <4>2, <4>3 DEF Streaks
            <4>5. streak' < Patience
                <5>1. phase' # "off"
                    BY <2>1
                <5>. QED
                    BY <5>1 DEF Counters
            <4>6. streak' \in 0 .. Patience
                BY DEF Counters
            <4>. QED
                BY <3>3, <4>4, <4>5, <4>6
        <3>6. CASE i # Len(log) + 1
            <4>1. i \in 1 .. Len(log)
                BY <2>0, <3>1, <3>4, <3>6
            <4>2. \A j \in (i - Patience + 1) .. i : j \in 1 .. Len(log)
                BY <2>0, <3>3, <3>4, <4>1
            <4>3. \A j \in (i - Patience + 1) .. i : log'[j] = log[j]
                BY <3>1, <4>2
            <4>4. log'[i] = log[i]
                BY <3>1, <4>1
            <4>5. \A j \in (i - Patience + 1) .. i :
                     log[j].drift /\ log[j].by = log[i].by /\ log[j].step + i = log[i].step + j
                BY <3>4, <4>3, <4>4
            <4>. QED
                BY <2>0, <3>4, <4>1, <4>5 DEF NoSustainedDrift
        <3>. QED
            BY <3>5, <3>6
    <2>. QED
        BY <2>1, <2>2, <2>3
<1>2. CASE log' = log
    BY <1>2 DEF NoSustainedDrift
<1>. QED
    BY <1>1, <1>2 DEF Next, JobStep, LauncherStep, Update, Save, Metrics, WriteRaises, Finish, Attempt,
       AttemptEnds, AlreadyFinished, GaveUp, Kill, Rerun, vars

\* No job logs Patience drift steps in a row: the watch stops it before the last of them.
THEOREM DriftIsNeverSustained == Spec => []NoSustainedDrift
<1>1. Init => Owners /\ Streaks /\ NoSustainedDrift
    BY DEF Init, Owners, Streaks, NoSustainedDrift
<1>2. Typed /\ Owners /\ [Next]_vars => Owners'
    BY OwnersKeep DEF Typed
<1>3. Typed /\ Owners /\ Streaks /\ [Next]_vars => Streaks'
    BY StreaksKeep DEF Typed
<1>4. Typed /\ Typed' /\ Owners /\ Streaks' /\ NoSustainedDrift /\ [Next]_vars => NoSustainedDrift'
    BY DriftStep DEF Typed
<1>. QED
    BY <1>1, <1>2, <1>3, <1>4, TypedInit, TypedStep, PTL DEF Spec

-----------------------------------------------------------------------------
\* The steps up to n that are not in S.
Absent(n, S) == {s \in 1 .. n : s \notin S}

LEMMA AbsentIsFinite ==
    ASSUME NEW n \in Nat, NEW S
    PROVE  IsFiniteSet(Absent(n, S)) /\ Cardinality(Absent(n, S)) \in Nat
<1>1. IsFiniteSet(1 .. n)
    BY FS_Interval
<1>2. Absent(n, S) \subseteq 1 .. n
    BY DEF Absent
<1>. QED
    BY <1>1, <1>2, FS_Subset, FS_CardinalityType

\* More steps and fewer lines: no fewer are absent.
LEMMA AbsentGrows ==
    ASSUME NEW m \in Nat, NEW n \in Nat, m <= n, NEW S, NEW T, S \subseteq T
    PROVE  Cardinality(Absent(m, T)) <= Cardinality(Absent(n, S))
<1>1. Absent(m, T) \subseteq Absent(n, S)
    BY DEF Absent
<1>. QED
    BY <1>1, AbsentIsFinite, FS_Subset

\* One more step: at most one more is absent, and none if it has its line.
LEMMA AbsentNext ==
    ASSUME NEW n \in Nat \ {0}, NEW S
    PROVE  /\ Cardinality(Absent(n, S)) <= Cardinality(Absent(n - 1, S)) + 1
           /\ Cardinality(Absent(n, S \cup {n})) <= Cardinality(Absent(n - 1, S))
<1>. DEFINE A == Absent(n - 1, S)
<1>1. IsFiniteSet(A) /\ Cardinality(A) \in Nat
    BY AbsentIsFinite
<1>2. Absent(n, S) \subseteq A \cup {n} /\ Absent(n, S \cup {n}) \subseteq A
    BY DEF Absent
<1>. HIDE DEF A
<1>3. IsFiniteSet(A \cup {n}) /\ Cardinality(A \cup {n}) \in {Cardinality(A), Cardinality(A) + 1}
    BY <1>1, FS_AddElement
<1>4. Cardinality(Absent(n, S)) <= Cardinality(A \cup {n})
    BY <1>2, <1>3, FS_Subset
<1>5. Cardinality(Absent(n, S \cup {n})) <= Cardinality(A)
    BY <1>1, <1>2, FS_Subset
<1>6. Cardinality(Absent(n, S)) \in Nat
    BY AbsentIsFinite
<1>7. Cardinality(Absent(n, S)) <= Cardinality(A) + 1
    BY <1>1, <1>3, <1>4, <1>6
<1>. QED
    BY <1>5, <1>7 DEF A

\* While a job runs, the launcher waits for it.
OneJob == phase # "off" => launcher = "wait"

LEMMA OneJobKeep == OneJob /\ [Next]_vars => OneJob'
<1>. SUFFICES ASSUME OneJob, [Next]_vars PROVE OneJob'
    OBVIOUS
<1>. USE DEF OneJob, shell
<1>1. CASE JobStep
    <2>1. phase # "off" /\ launcher' = launcher
        BY <1>1 DEF JobStep, Update, Save, Write, WriteRaises, Finish, Metrics
    <2>. QED
        BY <2>1
<1>2. CASE LauncherStep
    BY <1>2 DEF LauncherStep, Attempt, AttemptEnds, AlreadyFinished, GaveUp
<1>3. CASE Kill \/ Rerun \/ UNCHANGED vars
    BY <1>3 DEF Kill, Rerun, vars
<1>. QED
    BY <1>1, <1>2, <1>3 DEF Next

\* Every step that is done but for its line, and has none, was paid for by a fault or by a line
\* that was glued to half of another.
Missing(n) == Absent(n, Logged)
Losses ==
    /\ phase = "off" => Cardinality(Missing(tracker)) <= faults + glued
    /\ phase = "train" => tracker <= step /\ Cardinality(Missing(step)) <= faults + glued
    /\ phase \in {"save", "metrics", "log"} =>
           tracker <= step /\ step > 0 /\ Cardinality(Missing(step - 1)) <= faults + glued
    /\ phase = "save" => tracker < step

LEMMA LossesKeep == Typed /\ Owners /\ OneJob /\ Losses /\ [Next]_vars => Losses'
<1>. SUFFICES ASSUME Typed, Owners, OneJob, Losses, [Next]_vars PROVE Losses'
    OBVIOUS
<1>0. /\ step \in Nat /\ tracker \in Nat /\ faults \in Nat /\ glued \in Nat
    <2>1. faults \in Nat /\ glued \in Nat
        BY DEF Typed, Counters
    <2>. QED
        BY <2>1, LogTypes DEF Typed
<1>a. \A n \in Nat : Cardinality(Missing(n)) \in Nat
    BY AbsentIsFinite DEF Missing
<1>b. \A m, n \in Nat : m <= n => Cardinality(Missing(m)) <= Cardinality(Missing(n))
    BY AbsentGrows DEF Missing
<1>c. \A n \in Nat \ {0} : Cardinality(Missing(n)) <= Cardinality(Missing(n - 1)) + 1
    BY AbsentNext DEF Missing
<1>d. ASSUME log' = log PROVE \A n : Missing(n)' = Missing(n)
    BY <1>d DEF Missing, Logged, Absent
\* The job is stopped in the middle of a step: the fault pays for it.
<1>e. ASSUME phase # "off" PROVE Cardinality(Missing(tracker)) <= faults + glued + 1
    <2>1. CASE phase = "train"
        BY <1>0, <1>a, <1>b, <2>1 DEF Losses
    <2>2. CASE phase \in {"save", "metrics", "log"}
        <3>1. tracker <= step /\ step > 0 /\ Cardinality(Missing(step - 1)) <= faults + glued
            BY <2>2 DEF Losses
        <3>2. Cardinality(Missing(tracker)) <= Cardinality(Missing(step))
            BY <1>0, <1>b, <3>1
        <3>3. Cardinality(Missing(step)) <= Cardinality(Missing(step - 1)) + 1
            BY <1>0, <1>c, <3>1
        <3>4. step - 1 \in Nat
            BY <1>0, <3>1
        <3>. QED
            BY <1>0, <1>a, <3>1, <3>2, <3>3, <3>4
    <2>3. phase \in {"off", "train", "save", "metrics", "log"}
        BY DEF Typed, Counters
    <2>. QED
        BY <1>e, <2>1, <2>2, <2>3
<1>. USE DEF policies, watch, file, shell
<1>1. CASE Update
    <2>1. /\ phase = "train" /\ phase' = "save" /\ step' = step + 1 /\ tracker' = tracker
          /\ log' = log /\ faults' = faults /\ glued' = glued
        BY <1>1 DEF Update
    <2>2. tracker <= step /\ Cardinality(Missing(step)) <= faults + glued
        BY <2>1 DEF Losses
    <2>3. Missing(step - 1)' = Missing(step)
        <3>1. step' - 1 = step
            BY <1>0, <2>1
        <3>. QED
            BY <1>d, <2>1, <3>1
    <2>. QED
        BY <1>0, <2>1, <2>2, <2>3 DEF Losses
<1>2. CASE Save
    <2>1. /\ phase = "save" /\ phase' = "metrics" /\ step' = step /\ log' = log
          /\ faults' = faults /\ glued' = glued
        BY <1>2 DEF Save
    <2>2. tracker' \in {tracker, step}
        BY <1>2 DEF Save
    <2>. QED
        BY <1>0, <1>d, <2>1, <2>2 DEF Losses
<1>3. ASSUME NEW e \in {Low, High, Bad}, NEW kl \in BOOLEAN, NEW acr \in BOOLEAN, Metrics(e, kl, acr) PROVE Losses'
    <2>. DEFINE d == IF Drifts(e, kl) THEN streak + 1 ELSE 0
    <2>1. /\ phase = "metrics" /\ step' = step /\ tracker' = tracker /\ log' = log /\ glued' = glued
        BY <1>3 DEF Metrics
    <2>2. CASE d >= Patience
        <3>1. phase' = "off" /\ faults' = faults + 1
            BY <1>3, <2>2 DEF Metrics
        <3>2. Missing(tracker)' = Missing(tracker)
            BY <1>d, <2>1
        <3>3. Cardinality(Missing(tracker)) <= faults + glued + 1
            BY <1>e, <2>1
        <3>. QED
            BY <1>0, <1>a, <2>1, <3>1, <3>2, <3>3 DEF Losses
    <2>3. CASE ~(d >= Patience)
        <3>1. phase' = "log" /\ faults' = faults
            BY <1>3, <2>3 DEF Metrics
        <3>. QED
            BY <1>d, <2>1, <3>1 DEF Losses
    <2>. QED
        BY <2>2, <2>3
<1>4. CASE Write
    <2>1. /\ phase = "log" /\ phase' = "train" /\ step' = step /\ tracker' = tracker
          /\ faults' = faults /\ line' = line
        BY <1>4 DEF Write
    <2>2. /\ tracker <= step /\ step > 0 /\ step - 1 \in Nat
          /\ Cardinality(Missing(step - 1)) <= faults + glued
        BY <1>0, <2>1 DEF Losses
    <2>3. CASE torn
        <3>1. log' = log /\ glued' = glued + 1
            BY <1>4, <2>3 DEF Write
        <3>2. Missing(step)' = Missing(step)
            BY <1>d, <2>1, <3>1
        <3>3. Cardinality(Missing(step)) <= Cardinality(Missing(step - 1)) + 1
            BY <1>0, <1>c, <2>2
        <3>. QED
            BY <1>0, <1>a, <2>1, <2>2, <3>1, <3>2, <3>3 DEF Losses
    <2>4. CASE ~torn
        <3>1. log' = Append(log, line) /\ glued' = glued
            BY <1>4, <2>4 DEF Write
        <3>2. Logged' = Logged \cup {step}
            <4>1. log \in Seq(Lines) /\ Len(log) \in Nat /\ DOMAIN log = 1 .. Len(log) /\ line \in Lines
                BY LogTypes DEF Typed
            <4>2. line.step = step
                BY <2>1 DEF Owners
            <4>3. /\ DOMAIN log' = (DOMAIN log) \cup {Len(log) + 1}
                  /\ \A i \in DOMAIN log : log'[i] = log[i]
                  /\ log'[Len(log) + 1] = line
                BY <3>1, <4>1
            <4>. QED
                BY <4>2, <4>3 DEF Logged
        <3>3. Missing(step)' = Absent(step, Logged \cup {step})
            BY <2>1, <3>2 DEF Missing
        <3>4. Cardinality(Absent(step, Logged \cup {step})) <= Cardinality(Missing(step - 1))
            BY <1>0, <2>2, AbsentNext DEF Missing
        <3>5. Cardinality(Absent(step, Logged \cup {step})) \in Nat
            BY <1>0, AbsentIsFinite
        <3>. QED
            BY <1>0, <1>a, <2>1, <2>2, <3>1, <3>3, <3>4, <3>5 DEF Losses
    <2>. QED
        BY <2>3, <2>4
<1>5. CASE WriteRaises
    <2>1. /\ phase = "log" /\ phase' = "train" /\ step' = step /\ tracker' = tracker
          /\ faults' = faults + 1 /\ log' = log /\ glued' = glued
        BY <1>5 DEF WriteRaises
    <2>2. /\ tracker <= step /\ step > 0 /\ step - 1 \in Nat
          /\ Cardinality(Missing(step - 1)) <= faults + glued
        BY <1>0, <2>1 DEF Losses
    <2>3. Missing(step)' = Missing(step)
        BY <1>d, <2>1
    <2>4. Cardinality(Missing(step)) <= Cardinality(Missing(step - 1)) + 1
        BY <1>0, <1>c, <2>2
    <2>. QED
        BY <1>0, <1>a, <2>1, <2>2, <2>3, <2>4 DEF Losses
<1>6. CASE Finish
    <2>1. /\ phase = "train" /\ phase' = "off" /\ tracker' = tracker
          /\ faults' = faults /\ log' = log /\ glued' = glued
        BY <1>6 DEF Finish
    <2>2. Missing(tracker)' = Missing(tracker)
        BY <1>d, <2>1
    <2>. QED
        BY <1>0, <1>a, <1>b, <2>1, <2>2 DEF Losses
<1>7. CASE Kill \/ Rerun
    <2>1. /\ phase' = "off" /\ tracker' = tracker /\ log' = log /\ glued' = glued
          /\ phase # "off" => faults' = faults + 1
          /\ phase = "off" => faults' = faults
        BY <1>7 DEF Kill, Rerun
    <2>2. Missing(tracker)' = Missing(tracker)
        BY <1>d, <2>1
    <2>. QED
        BY <1>0, <1>a, <1>e, <2>1, <2>2 DEF Losses
<1>8. CASE Attempt
    <2>1. /\ phase' = "train" /\ step' = tracker /\ tracker' = tracker
          /\ faults' = faults /\ log' = log /\ glued' = glued
        BY <1>8 DEF Attempt
    <2>2. Missing(step)' = Missing(tracker)
        BY <1>d, <2>1 DEF Missing
    <2>3. Cardinality(Missing(tracker)) <= faults + glued
        <3>1. launcher = "loop"
            BY <1>8 DEF Attempt
        <3>. QED
            BY <3>1 DEF OneJob, Losses
    <2>. QED
        BY <1>0, <2>1, <2>2, <2>3 DEF Losses
<1>9. CASE AttemptEnds \/ AlreadyFinished \/ GaveUp \/ UNCHANGED vars
    <2>1. /\ phase' = phase /\ step' = step /\ tracker' = tracker
          /\ faults' = faults /\ log' = log /\ glued' = glued
        BY <1>9 DEF AttemptEnds, AlreadyFinished, GaveUp, vars
    <2>2. Missing(tracker)' = Missing(tracker) /\ Missing(step)' = Missing(step)
        BY <1>d, <2>1
    <2>3. Missing(step - 1)' = Missing(step - 1)
        BY <1>d, <2>1
    <2>. QED
        BY <2>1, <2>2, <2>3 DEF Losses
<1>. QED
    BY <1>1, <1>2, <1>3, <1>4, <1>5, <1>6, <1>7, <1>8, <1>9 DEF Next, JobStep, LauncherStep

\* The account of the losses holds in every state.
LEMMA LossesAlways == Spec => []Losses
<1>1. Init => OneJob /\ Losses
    <2>. SUFFICES ASSUME Init PROVE OneJob /\ Losses
        OBVIOUS
    <2>1. phase = "off" /\ tracker = 0 /\ faults = 0 /\ glued = 0
        BY DEF Init
    <2>2. Missing(tracker) = {}
        BY <2>1 DEF Missing, Absent
    <2>3. Cardinality(Missing(tracker)) = 0
        BY <2>2, FS_EmptySet
    <2>. QED
        BY <2>1, <2>3 DEF OneJob, Losses
<1>2. Init => Owners
    BY DEF Init, Owners
<1>3. Typed /\ Owners /\ [Next]_vars => Owners'
    BY OwnersKeep DEF Typed
<1>. QED
    BY <1>1, <1>2, <1>3, OneJobKeep, LossesKeep, TypedInit, TypedStep, PTL DEF Spec

\* A kill, an abort or a failed write costs metrics.jsonl the line in flight, and half a line
\* the next one: no more steps up to the checkpoint are without a line.
THEOREM LossesAreCounted == Spec => []OneLinePerFault
<1>1. Typed /\ Losses => OneLinePerFault
    <2>. SUFFICES ASSUME Typed, Losses PROVE OneLinePerFault
        OBVIOUS
    <2>1. /\ step \in Nat /\ tracker \in Nat /\ faults \in Nat /\ glued \in Nat
          /\ phase \in {"off", "train", "save", "metrics", "log"}
        <3>1. /\ faults \in Nat /\ glued \in Nat
              /\ phase \in {"off", "train", "save", "metrics", "log"}
            BY DEF Typed, Counters
        <3>. QED
            BY <3>1, LogTypes DEF Typed
    <2>2. {s \in 1 .. tracker : s \notin Logged} = Missing(tracker)
        BY DEF Missing, Absent
    <2>3. \A n \in Nat : Cardinality(Missing(n)) \in Nat
        BY AbsentIsFinite DEF Missing
    <2>4. \A m, n \in Nat : m <= n => Cardinality(Missing(m)) <= Cardinality(Missing(n))
        BY AbsentGrows DEF Missing
    <2>5. CASE phase = "off"
        BY <2>1, <2>2, <2>5 DEF Losses, OneLinePerFault
    <2>6. CASE phase = "train"
        BY <2>1, <2>2, <2>3, <2>4, <2>6 DEF Losses, OneLinePerFault
    <2>7. CASE phase = "save"
        <3>1. tracker <= step - 1 /\ step - 1 \in Nat
            BY <2>1, <2>7 DEF Losses
        <3>2. Cardinality(Missing(step - 1)) <= faults + glued
            BY <2>7 DEF Losses
        <3>3. Cardinality(Missing(tracker)) <= Cardinality(Missing(step - 1))
            BY <2>1, <2>4, <3>1
        <3>4. Cardinality(Missing(tracker)) <= faults + glued
            BY <2>1, <2>3, <3>1, <3>2, <3>3
        <3>. QED
            BY <2>1, <2>2, <2>7, <3>4 DEF OneLinePerFault
    <2>8. CASE phase \in {"metrics", "log"}
        <3>1. tracker <= step /\ step > 0 /\ Cardinality(Missing(step - 1)) <= faults + glued
            BY <2>8 DEF Losses
        <3>2. Cardinality(Missing(step)) <= Cardinality(Missing(step - 1)) + 1
            <4>1. step \in Nat \ {0}
                BY <2>1, <3>1
            <4>. QED
                BY <4>1, AbsentNext DEF Missing
        <3>3. Cardinality(Missing(tracker)) <= Cardinality(Missing(step))
            BY <2>1, <2>4, <3>1
        <3>4. step - 1 \in Nat
            BY <2>1, <3>1
        <3>5. Cardinality(Missing(tracker)) <= faults + glued + 1
            BY <2>1, <2>3, <3>1, <3>2, <3>3, <3>4
        <3>. QED
            BY <2>2, <2>8, <3>5 DEF OneLinePerFault
    <2>. QED
        BY <2>1, <2>5, <2>6, <2>7, <2>8
<1>. QED
    BY <1>1, LossesAlways, TypedInit, TypedStep, PTL DEF Spec

-----------------------------------------------------------------------------
\* Line i is the last one of its step that has an ACR: the one that a rebuild counts.
NewestLine(i) ==
    log[i].acr /\ \A j \in DOMAIN log : log[j].step = log[i].step /\ log[j].acr => j <= i

\* The diagnostics of step s raised in the attempt whose update p holds.
Blind(s, p) == <<s, p[s]>> \in blind

\* That history only grows.
LEMMA BlindGrows == [Next]_vars => blind \subseteq blind'
BY DEF Next, JobStep, LauncherStep, Update, Save, Metrics, Diagnose, Write, WriteRaises, Finish, Attempt,
   AttemptEnds, AlreadyFinished, GaveUp, Kill, Rerun, vars

LEMMA RebuiltIsNewest ==
    ASSUME Counters, Records, NEW s \in Steps, Rebuilt[s] # 0
    PROVE  \E i \in DOMAIN log : log[i].step = s /\ NewestLine(i) /\ Rebuilt[s] = log[i].by
<1>. DEFINE at == {i \in DOMAIN log : log[i].step = s /\ log[i].acr}
<1>1. Rebuilt[s] = IF at = {} THEN 0 ELSE log[CHOOSE i \in at : \A j \in at : j <= i].by
    BY DEF Rebuilt
<1>2. Len(log) \in Nat /\ DOMAIN log = 1 .. Len(log)
    BY LogTypes
<1>3. at \subseteq 1 .. Len(log) /\ at # {}
    BY <1>1, <1>2
<1>4. \E i \in at : \A j \in at : j <= i
    <2>. HIDE DEF at
    <2>. QED
        BY <1>2, <1>3, LastIndex
<1>5. PICK i : i = CHOOSE x \in at : \A j \in at : j <= x
    OBVIOUS
<1>6. i \in at /\ \A j \in at : j <= i
    <2>. HIDE DEF at
    <2>. QED
        BY <1>4, <1>5
<1>7. Rebuilt[s] = log[i].by
    <2>. HIDE DEF at
    <2>. QED
        BY <1>1, <1>3, <1>5
<1>. QED
    BY <1>6, <1>7 DEF NewestLine

\* A job works on from what is checkpointed; no value of a step that is due is older than it;
\* a line without an ACR is of a step whose diagnostics raised.
Lineage ==
    /\ phase # "off" => \A s \in 1 .. tracker : policy[s] = saved[s]
    /\ phase \in {"save", "metrics", "log"} => step > 0 /\ policy[step] = life
    /\ \A s \in Steps : DueAt(s) /\ s > tracker => seen[s] = 0
    /\ phase = "log" => line.acr \/ <<step, life>> \in blind

\* For the steps up to n, the log and the mean tell of the updates in p, but for those whose
\* diagnostics raised.
LinesTell(n, p) ==
    \A i \in DOMAIN log : log[i].step \in 1 .. n /\ NewestLine(i)
        => log[i].by = p[log[i].step] \/ Blind(log[i].step, p)
MeanTells(n, p) == \A s \in 1 .. n : seen[s] \in {0, p[s]} \/ Blind(s, p)

Clean == errors = 0 /\ glued = 0
LogTells == Clean =>
    /\ LinesTell(tracker, saved)
    /\ phase = "train" => LinesTell(step, policy)
    /\ phase \in {"save", "metrics", "log"} => LinesTell(step - 1, policy)
MeanOfTheRun == Clean =>
    /\ MeanTells(tracker, saved)
    /\ phase \in {"train", "log"} => MeanTells(step, policy)
    /\ phase \in {"save", "metrics"} => MeanTells(step - 1, policy)

LEMMA CleanBefore == Counters /\ [Next]_vars /\ Clean' => Clean
<1>. SUFFICES ASSUME Counters, [Next]_vars, Clean' PROVE Clean
    OBVIOUS
<1>1. errors \in Nat /\ glued \in Nat
    BY DEF Counters
<1>2. errors' \in {errors, errors + 1} /\ glued' \in {glued, glued + 1}
    BY DEF Next, JobStep, LauncherStep, Update, Save, Metrics, Write, WriteRaises, Finish, Attempt,
       AttemptEnds, AlreadyFinished, GaveUp, Kill, Rerun, vars, file, shell, policies, watch
<1>. QED
    BY <1>1, <1>2 DEF Clean

LEMMA LineageKeeps ==
    Typed /\ RunInv /\ LogBehind /\ Losses /\ Lineage /\ [Next]_vars => Lineage'
<1>. SUFFICES ASSUME Typed, RunInv, LogBehind, Losses, Lineage, [Next]_vars PROVE Lineage'
    OBVIOUS
<1>0. /\ step \in Nat /\ tracker \in Nat /\ life \in Nat /\ step <= Total /\ Total \in Nat
      /\ policy \in [Steps -> Nat] /\ saved \in [Steps -> Nat] /\ seen \in [Steps -> Nat]
    BY TrainingRunAssumption DEF RunInv, Domains, Typed, Mean
<1>. USE DEF policies, watch, file, shell
<1>1. CASE Update
    <2>1. /\ phase = "train" /\ phase' = "save" /\ step < Total /\ step' = step + 1
          /\ policy' = [policy EXCEPT ![step + 1] = life]
          /\ tracker' = tracker /\ saved' = saved /\ seen' = seen /\ life' = life
        BY <1>1 DEF Update
    <2>2. tracker <= step
        BY <2>1 DEF Losses
    <2>3. policy'[step'] = life' /\ \A s \in 1 .. tracker : policy'[s] = policy[s]
        BY <1>0, <2>1, <2>2 DEF Steps
    <2>. QED
        BY <1>0, <2>1, <2>3 DEF Lineage
<1>2. CASE Save
    <2>1. /\ phase = "save" /\ phase' = "metrics" /\ step' = step /\ policy' = policy
          /\ seen' = seen /\ life' = life
        BY <1>2 DEF Save
    <2>2. tracker < step
        BY <2>1 DEF Losses
    <2>3. CASE Due
        <3>1. tracker' = step /\ saved' = policy
            BY <1>2, <2>3 DEF Save
        <3>. QED
            BY <1>0, <2>1, <2>2, <3>1 DEF Lineage, Steps
    <2>4. CASE ~Due
        <3>1. tracker' = tracker /\ saved' = saved
            BY <1>2, <2>4 DEF Save
        <3>. QED
            BY <2>1, <3>1 DEF Lineage
    <2>. QED
        BY <2>3, <2>4
<1>3. ASSUME NEW e \in {Low, High, Bad}, NEW kl \in BOOLEAN, NEW acr \in BOOLEAN, Metrics(e, kl, acr) PROVE Lineage'
    <2>1. /\ phase = "metrics" /\ phase' \in {"off", "log"} /\ step' = step /\ policy' = policy
          /\ tracker' = tracker /\ saved' = saved /\ life' = life
          /\ seen' \in {seen, [seen EXCEPT ![step] = life]}
        BY <1>3 DEF Metrics, Diagnose
    <2>2. ASSUME NEW s \in Steps, DueAt(s), s > tracker PROVE seen'[s] = 0
        <3>1. s # step
            BY <1>0, <2>1, <2>2 DEF LogBehind, Due
        <3>2. seen'[s] = seen[s]
            BY <1>0, <2>1, <3>1
        <3>. QED
            BY <2>2, <3>2 DEF Lineage
    <2>3. CASE acr
        <3>1. PICK d : line' = Line(e, d, acr)
            BY <1>3 DEF Metrics
        <3>2. line'.acr = acr
            BY <3>1 DEF Line
        <3>. QED
            BY <2>1, <2>2, <2>3, <3>2 DEF Lineage
    <2>4. CASE ~acr
        <3>1. <<step, life>> \in blind'
            BY <1>3, <2>4 DEF Metrics, Diagnose
        <3>. QED
            BY <2>1, <2>2, <3>1 DEF Lineage
    <2>. QED
        BY <2>3, <2>4
<1>4. CASE Write \/ WriteRaises \/ Finish \/ Kill \/ Rerun
    <2>1. /\ phase' \in {"train", "off"}
          /\ phase' = "train" => phase = "log"
          /\ policy' = policy /\ tracker' = tracker /\ saved' = saved /\ seen' = seen
        BY <1>4 DEF Write, WriteRaises, Finish, Kill, Rerun
    <2>2. \A s \in Steps : DueAt(s) /\ s > tracker' => seen'[s] = 0
        BY <2>1 DEF Lineage
    <2>3. phase' # "off" => \A s \in 1 .. tracker' : policy'[s] = saved'[s]
        BY <2>1 DEF Lineage
    <2>. QED
        BY <2>1, <2>2, <2>3 DEF Lineage
<1>5. CASE Attempt
    <2>1. /\ phase' = "train" /\ policy' = saved /\ tracker' = tracker /\ saved' = saved
          /\ seen' = Rebuilt
        BY <1>5 DEF Attempt
    <2>2. ASSUME NEW s \in Steps, DueAt(s), s > tracker, Rebuilt[s] # 0 PROVE FALSE
        <3>1. \E i \in DOMAIN log : log[i].step = s
            BY <2>2, RebuiltIsNewest DEF Typed
        <3>2. s <= tracker
            BY <2>2, <3>1 DEF LogBehind
        <3>. QED
            BY <1>0, <2>2, <3>2 DEF Steps
    <2>. QED
        BY <2>1, <2>2 DEF Lineage
<1>6. CASE AttemptEnds \/ AlreadyFinished \/ GaveUp \/ UNCHANGED vars
    <2>1. /\ phase' = phase /\ policy' = policy /\ tracker' = tracker /\ saved' = saved
          /\ seen' = seen /\ step' = step /\ life' = life /\ line' = line /\ blind' = blind
        BY <1>6 DEF AttemptEnds, AlreadyFinished, GaveUp, vars
    <2>. QED
        BY <2>1 DEF Lineage
<1>. QED
    BY <1>1, <1>2, <1>3, <1>4, <1>5, <1>6 DEF Next, JobStep, LauncherStep

LEMMA LogTellsKeeps ==
    Typed /\ RunInv /\ LogBehind /\ Owners /\ OneJob /\ Losses /\ Lineage /\ LogTells /\ [Next]_vars
        => LogTells'
<1>. SUFFICES ASSUME Typed, RunInv, LogBehind, Owners, OneJob, Losses, Lineage, LogTells, [Next]_vars, Clean'
              PROVE  /\ LinesTell(tracker, saved)'
                     /\ (phase = "train")' => LinesTell(step, policy)'
                     /\ (phase \in {"save", "metrics", "log"})' => LinesTell(step - 1, policy)'
    BY DEF LogTells
<1>0. /\ step \in Nat /\ tracker \in Nat /\ life \in Nat /\ step <= Total /\ Total \in Nat
      /\ policy \in [Steps -> Nat] /\ saved \in [Steps -> Nat]
      /\ log \in Seq(Lines) /\ line \in Lines /\ Len(log) \in Nat /\ DOMAIN log = 1 .. Len(log)
      /\ \A i \in DOMAIN log : log[i].step \in Nat
    BY TrainingRunAssumption, LogTypes DEF RunInv, Domains, Typed
<1>a. Clean
    BY CleanBefore DEF Typed
<1>b. LinesTell(tracker, saved)
    BY <1>a DEF LogTells
<1>d. blind \subseteq blind'
    BY BlindGrows
<1>c. ASSUME log' = log PROVE \A i : NewestLine(i)' <=> NewestLine(i)
    BY <1>c DEF NewestLine
<1>. USE DEF policies, watch, file, shell
<1>1. CASE Update
    <2>1. /\ phase = "train" /\ phase' = "save" /\ step < Total /\ step' = step + 1
          /\ policy' = [policy EXCEPT ![step + 1] = life]
          /\ tracker' = tracker /\ saved' = saved /\ log' = log
        BY <1>1 DEF Update
    <2>2. LinesTell(step, policy)
        BY <1>a, <2>1 DEF LogTells
    <2>3. step' - 1 = step /\ \A s \in 1 .. step : policy'[s] = policy[s]
        BY <1>0, <2>1 DEF Steps
    <2>. QED
        BY <1>b, <1>c, <1>d, <2>1, <2>2, <2>3 DEF LinesTell, Blind
<1>2. CASE Save
    <2>1. phase = "save" /\ phase' = "metrics" /\ step' = step /\ policy' = policy /\ log' = log
        BY <1>2 DEF Save
    <2>2. LinesTell(step - 1, policy)
        BY <1>a, <2>1 DEF LogTells
    <2>3. CASE Due
        <3>1. tracker' = step /\ saved' = policy /\ tracker < step /\ step > 0
            BY <1>2, <2>1, <2>3 DEF Save, Losses
        <3>2. ASSUME NEW i \in DOMAIN log, log[i].step \in 1 .. step PROVE log[i].step \in 1 .. (step - 1)
            <4>1. log[i].step # step
                BY <1>0, <2>3, <3>1 DEF LogBehind, Due
            <4>. QED
                BY <1>0, <3>1, <3>2, <4>1
        <3>3. LinesTell(step, policy)
            BY <2>2, <3>2 DEF LinesTell, Blind
        <3>. QED
            BY <1>c, <1>d, <2>1, <2>2, <3>1, <3>3 DEF LinesTell, Blind
    <2>4. CASE ~Due
        <3>1. tracker' = tracker /\ saved' = saved
            BY <1>2, <2>4 DEF Save
        <3>. QED
            BY <1>b, <1>c, <1>d, <2>1, <2>2, <3>1 DEF LinesTell, Blind
    <2>. QED
        BY <2>3, <2>4
<1>3. ASSUME NEW e \in {Low, High, Bad}, NEW kl \in BOOLEAN, NEW acr \in BOOLEAN, Metrics(e, kl, acr)
      PROVE  /\ LinesTell(tracker, saved)'
             /\ (phase = "train")' => LinesTell(step, policy)'
             /\ (phase \in {"save", "metrics", "log"})' => LinesTell(step - 1, policy)'
    <2>1. /\ phase = "metrics" /\ phase' \in {"off", "log"} /\ step' = step /\ policy' = policy
          /\ tracker' = tracker /\ saved' = saved /\ log' = log
        BY <1>3 DEF Metrics
    <2>2. LinesTell(step - 1, policy)
        BY <1>a, <2>1 DEF LogTells
    <2>. QED
        BY <1>b, <1>c, <1>d, <2>1, <2>2 DEF LinesTell, Blind
<1>4. CASE Write
    <2>1. /\ phase = "log" /\ phase' = "train" /\ step' = step /\ policy' = policy
          /\ tracker' = tracker /\ saved' = saved
        BY <1>4 DEF Write
    <2>2. log' = Append(log, line)
        <3>1. torn => glued' = glued + 1
            BY <1>4 DEF Write
        <3>2. glued \in Nat /\ glued' = 0
            BY DEF Clean, Typed, Counters
        <3>3. ~torn
            BY <3>1, <3>2
        <3>. QED
            BY <1>4, <3>3 DEF Write
    <2>3. /\ Len(log') = Len(log) + 1 /\ log'[Len(log) + 1] = line
          /\ \A i \in 1 .. Len(log) : log'[i] = log[i]
          /\ DOMAIN log' = 1 .. (Len(log) + 1)
        BY <1>0, <2>2
    <2>4. line.by = life /\ line.step = step /\ policy[step] = life /\ tracker <= step
        BY <2>1 DEF Owners, Lineage, Losses
    <2>5. LinesTell(step - 1, policy)
        BY <1>a, <2>1 DEF LogTells
    \* An older line is still the newest of its step only if the step is another one, or the
    \* line that is written has no ACR.
    <2>6. ASSUME NEW i \in DOMAIN log', i # Len(log) + 1, NewestLine(i)'
          PROVE  /\ i \in DOMAIN log /\ log'[i] = log[i] /\ NewestLine(i)
                 /\ line.acr => log[i].step # step
        <3>1. i \in DOMAIN log /\ log'[i] = log[i]
            BY <1>0, <2>3, <2>6
        <3>2. log[i].acr /\ \A j \in DOMAIN log' : log'[j].step = log[i].step /\ log'[j].acr => j <= i
            BY <2>6, <3>1 DEF NewestLine
        <3>3. ASSUME line.acr PROVE log[i].step # step
            <4>1. Len(log) + 1 \in DOMAIN log' /\ ~(Len(log) + 1 <= i)
                BY <1>0, <2>3, <3>1
            <4>. QED
                BY <2>3, <2>4, <3>2, <3>3, <4>1
        <3>4. NewestLine(i)
            BY <1>0, <2>3, <3>2 DEF NewestLine
        <3>. QED
            BY <3>1, <3>3, <3>4
    <2>7. ASSUME NEW i \in DOMAIN log', log'[i].step \in 1 .. step, NewestLine(i)'
          PROVE  log'[i].by = policy[log'[i].step] \/ Blind(log'[i].step, policy)
        <3>1. CASE i = Len(log) + 1
            BY <2>3, <2>4, <3>1
        <3>2. CASE i # Len(log) + 1
            <4>1. /\ i \in DOMAIN log /\ log'[i] = log[i] /\ NewestLine(i)
                  /\ line.acr => log[i].step # step
                BY <2>6, <2>7, <3>2
            <4>2. CASE log[i].step = step
                <5>1. <<step, life>> \in blind
                    BY <2>1, <4>1, <4>2 DEF Lineage
                <5>. QED
                    BY <2>4, <4>1, <4>2, <5>1 DEF Blind
            <4>3. CASE log[i].step # step
                <5>1. log[i].step \in 1 .. (step - 1)
                    BY <1>0, <2>7, <4>1, <4>3
                <5>. QED
                    BY <2>5, <4>1, <5>1 DEF LinesTell
            <4>. QED
                BY <4>2, <4>3
        <3>. QED
            BY <3>1, <3>2
    <2>8. \A s \in 1 .. tracker : policy[s] = saved[s]
        BY <2>1 DEF Lineage
    <2>9. LinesTell(step, policy)'
        BY <1>d, <2>1, <2>7 DEF LinesTell, Blind
    <2>10. LinesTell(tracker, saved)'
        <3>1. 1 .. tracker \subseteq 1 .. step
            BY <1>0, <2>4
        <3>. QED
            BY <1>d, <2>1, <2>7, <2>8, <3>1 DEF LinesTell, Blind
    <2>. QED
        BY <2>1, <2>9, <2>10
<1>5. CASE WriteRaises
    <2>1. errors' = errors + 1 /\ errors \in Nat /\ errors' = 0
        BY <1>5 DEF WriteRaises, Clean, Typed, Counters
    <2>. QED
        BY <2>1
<1>6. CASE Finish \/ Kill \/ Rerun
    <2>1. phase' = "off" /\ tracker' = tracker /\ saved' = saved /\ log' = log
        BY <1>6 DEF Finish, Kill, Rerun
    <2>. QED
        BY <1>b, <1>c, <1>d, <2>1 DEF LinesTell, Blind
<1>7. CASE Attempt
    <2>1. /\ phase' = "train" /\ policy' = saved /\ step' = tracker /\ tracker' = tracker
          /\ saved' = saved /\ log' = log
        BY <1>7 DEF Attempt
    <2>. QED
        BY <1>b, <1>c, <1>d, <2>1 DEF LinesTell, Blind
<1>8. CASE AttemptEnds \/ AlreadyFinished \/ GaveUp \/ UNCHANGED vars
    <2>1. /\ phase' = phase /\ policy' = policy /\ tracker' = tracker /\ saved' = saved
          /\ log' = log /\ step' = step
        BY <1>8 DEF AttemptEnds, AlreadyFinished, GaveUp, vars
    <2>. QED
        BY <1>a, <1>b, <1>c, <1>d, <2>1 DEF LinesTell, Blind, LogTells
<1>. QED
    BY <1>1, <1>2, <1>3, <1>4, <1>5, <1>6, <1>7, <1>8 DEF Next, JobStep, LauncherStep

LEMMA MeanOfTheRunKeeps ==
    Typed /\ RunInv /\ Losses /\ Lineage /\ LogTells /\ MeanOfTheRun /\ [Next]_vars => MeanOfTheRun'
<1>. SUFFICES ASSUME Typed, RunInv, Losses, Lineage, LogTells, MeanOfTheRun, [Next]_vars, Clean'
              PROVE  /\ MeanTells(tracker, saved)'
                     /\ (phase \in {"train", "log"})' => MeanTells(step, policy)'
                     /\ (phase \in {"save", "metrics"})' => MeanTells(step - 1, policy)'
    BY DEF MeanOfTheRun
<1>0. /\ step \in Nat /\ tracker \in Nat /\ life \in Nat /\ step <= Total /\ Total \in Nat
      /\ policy \in [Steps -> Nat] /\ saved \in [Steps -> Nat] /\ seen \in [Steps -> Nat]
    BY TrainingRunAssumption DEF RunInv, Domains, Typed, Mean
<1>a. Clean
    BY CleanBefore DEF Typed
<1>b. MeanTells(tracker, saved)
    BY <1>a DEF MeanOfTheRun
<1>d. blind \subseteq blind'
    BY BlindGrows
<1>. USE DEF policies, watch, file, shell
<1>1. CASE Update
    <2>1. /\ phase = "train" /\ phase' = "save" /\ step < Total /\ step' = step + 1
          /\ policy' = [policy EXCEPT ![step + 1] = life]
          /\ tracker' = tracker /\ saved' = saved /\ seen' = seen
        BY <1>1 DEF Update
    <2>2. MeanTells(step, policy)
        BY <1>a, <2>1 DEF MeanOfTheRun
    <2>3. step' - 1 = step /\ \A s \in 1 .. step : policy'[s] = policy[s]
        BY <1>0, <2>1 DEF Steps
    <2>. QED
        BY <1>b, <1>d, <2>1, <2>2, <2>3 DEF MeanTells, Blind
<1>2. CASE Save
    <2>1. phase = "save" /\ phase' = "metrics" /\ step' = step /\ policy' = policy /\ seen' = seen
        BY <1>2 DEF Save
    <2>2. MeanTells(step - 1, policy)
        BY <1>a, <2>1 DEF MeanOfTheRun
    <2>3. CASE Due
        <3>1. tracker' = step /\ saved' = policy /\ tracker < step /\ step > 0
            BY <1>2, <2>1, <2>3 DEF Save, Losses
        <3>2. seen[step] = 0
            BY <1>0, <2>3, <3>1 DEF Lineage, Due, Steps
        <3>3. MeanTells(step, policy)
            <4>1. \A s \in 1 .. step : s = step \/ s \in 1 .. (step - 1)
                BY <1>0, <3>1
            <4>. QED
                BY <2>2, <3>2, <4>1 DEF MeanTells, Blind
        <3>. QED
            BY <1>d, <2>1, <2>2, <3>1, <3>3 DEF MeanTells, Blind
    <2>4. CASE ~Due
        <3>1. tracker' = tracker /\ saved' = saved
            BY <1>2, <2>4 DEF Save
        <3>. QED
            BY <1>b, <1>d, <2>1, <2>2, <3>1 DEF MeanTells, Blind
    <2>. QED
        BY <2>3, <2>4
<1>3. ASSUME NEW e \in {Low, High, Bad}, NEW kl \in BOOLEAN, NEW acr \in BOOLEAN, Metrics(e, kl, acr)
      PROVE  /\ MeanTells(tracker, saved)'
             /\ (phase \in {"train", "log"})' => MeanTells(step, policy)'
             /\ (phase \in {"save", "metrics"})' => MeanTells(step - 1, policy)'
    <2>1. /\ phase = "metrics" /\ phase' \in {"off", "log"} /\ step' = step /\ policy' = policy
          /\ tracker' = tracker /\ saved' = saved
          /\ seen' = IF acr THEN [seen EXCEPT ![step] = life] ELSE seen
          /\ ~acr => <<step, life>> \in blind'
        BY <1>3 DEF Metrics, Diagnose
    <2>2. MeanTells(step - 1, policy)
        BY <1>a, <2>1 DEF MeanOfTheRun
    <2>3. /\ policy[step] = life /\ step \in Steps /\ tracker <= step
          /\ \A s \in 1 .. tracker : policy[s] = saved[s]
        BY <1>0, <2>1 DEF Lineage, Losses, Steps
    <2>4. MeanTells(step, policy)'
        <3>1. \A s \in 1 .. step : s = step \/ s \in 1 .. (step - 1)
            BY <1>0
        <3>2. \A s \in 1 .. (step - 1) : seen'[s] = seen[s]
            BY <1>0, <2>1
        <3>3. seen'[step] = life \/ <<step, life>> \in blind'
            BY <1>0, <2>1, <2>3
        <3>. QED
            BY <1>d, <2>1, <2>2, <2>3, <3>1, <3>2, <3>3 DEF MeanTells, Blind
    <2>5. MeanTells(tracker, saved)'
        <3>1. 1 .. tracker \subseteq 1 .. step
            BY <1>0, <2>3
        <3>. QED
            BY <2>1, <2>3, <2>4, <3>1 DEF MeanTells, Blind
    <2>. QED
        BY <2>1, <2>4, <2>5
<1>4. CASE Write
    <2>1. /\ phase = "log" /\ phase' = "train" /\ step' = step /\ policy' = policy
          /\ tracker' = tracker /\ saved' = saved /\ seen' = seen
        BY <1>4 DEF Write
    <2>2. MeanTells(step, policy)
        BY <1>a, <2>1 DEF MeanOfTheRun
    <2>. QED
        BY <1>b, <1>d, <2>1, <2>2 DEF MeanTells, Blind
<1>5. CASE WriteRaises
    <2>1. errors' = errors + 1 /\ errors \in Nat /\ errors' = 0
        BY <1>5 DEF WriteRaises, Clean, Typed, Counters
    <2>. QED
        BY <2>1
<1>6. CASE Finish \/ Kill \/ Rerun
    <2>1. phase' = "off" /\ tracker' = tracker /\ saved' = saved /\ seen' = seen
        BY <1>6 DEF Finish, Kill, Rerun
    <2>. QED
        BY <1>b, <1>d, <2>1 DEF MeanTells, Blind
<1>7. CASE Attempt
    <2>1. /\ phase' = "train" /\ policy' = saved /\ step' = tracker /\ tracker' = tracker
          /\ saved' = saved /\ seen' = Rebuilt
        BY <1>7 DEF Attempt
    <2>2. LinesTell(tracker, saved)
        BY <1>a DEF LogTells
    <2>3. ASSUME NEW s \in 1 .. tracker PROVE Rebuilt[s] \in {0, saved[s]} \/ Blind(s, saved)
        <3>1. s \in Steps
            BY TrainingRunAssumption DEF RunInv, Domains, Steps
        <3>2. CASE Rebuilt[s] # 0
            <4>1. PICK i \in DOMAIN log : log[i].step = s /\ NewestLine(i) /\ Rebuilt[s] = log[i].by
                BY <3>1, <3>2, RebuiltIsNewest DEF Typed
            <4>. QED
                BY <2>2, <4>1 DEF LinesTell, Blind
        <3>. QED
            BY <3>2
    <2>. QED
        BY <1>d, <2>1, <2>3 DEF MeanTells, Blind
<1>8. CASE AttemptEnds \/ AlreadyFinished \/ GaveUp \/ UNCHANGED vars
    <2>1. /\ phase' = phase /\ policy' = policy /\ tracker' = tracker /\ saved' = saved
          /\ seen' = seen /\ step' = step
        BY <1>8 DEF AttemptEnds, AlreadyFinished, GaveUp, vars
    <2>. QED
        BY <1>a, <1>b, <1>d, <2>1 DEF MeanTells, Blind, MeanOfTheRun
<1>. QED
    BY <1>1, <1>2, <1>3, <1>4, <1>5, <1>6, <1>7, <1>8 DEF Next, JobStep, LauncherStep

\* Over every kill, abort, failed write and resume, what is rebuilt from metrics.jsonl is of the
\* run that the checkpoints hold, and no more lines are lost than there were faults.
THEOREM LogIsAlwaysOfTheKeptRun == Spec => []LogIsOfTheKeptRun
<1>1. Init => Owners /\ OneJob /\ Lineage /\ LogTells /\ MeanOfTheRun
    <2>. SUFFICES ASSUME Init PROVE Owners /\ OneJob /\ Lineage /\ LogTells /\ MeanOfTheRun
        OBVIOUS
    <2>1. phase = "off" /\ tracker = 0 /\ log = <<>> /\ seen = Nobody
        BY DEF Init
    <2>2. Owners /\ OneJob
        BY <2>1 DEF Owners, OneJob
    <2>3. Lineage
        BY <2>1 DEF Lineage, Nobody
    <2>4. LogTells /\ MeanOfTheRun
        BY <2>1 DEF LogTells, MeanOfTheRun, LinesTell, MeanTells
    <2>. QED
        BY <2>2, <2>3, <2>4
<1>2. Typed /\ Owners /\ [Next]_vars => Owners'
    BY OwnersKeep DEF Typed
<1>3. MeanOfTheRun => AcrIsOfTheKeptRun
    BY DEF MeanOfTheRun, MeanTells, Blind, Clean, AcrIsOfTheKeptRun
<1>4. OneLinePerFault /\ AcrIsOfTheKeptRun => LogIsOfTheKeptRun
    BY DEF LogIsOfTheKeptRun
<1>5. Spec => []Losses
    BY LossesAlways
<1>. QED
    BY <1>1, <1>2, <1>3, <1>4, <1>5, LossesAreCounted, OneJobKeep, RunInit, RunStep, LogInit, LogStep,
       LineageKeeps, LogTellsKeeps, MeanOfTheRunKeeps, TypedInit, TypedStep, PTL DEF Spec
=============================================================================
