------------------------------ MODULE Stability ------------------------------
(***************************************************************************)
(* mixed_cuts/stability.py: the watch on verl's actor metrics, and what a  *)
(* resume rebuilds of it from metrics.jsonl.  Metrics are whole numbers,   *)
(* ppo_kl the size of the drift; Absent is a key that is not there, Bad a  *)
(* NaN or an infinity.  TrainingRun has the drift rule as a part of the    *)
(* run; here are all four alerts, over any resumes.                        *)
(***************************************************************************)
EXTENDS Integers, Sequences, SequencesExt

Absent == -1
Bad == -2
Good(v) == v >= 0

\* A new StabilityWatch.
NewWatch == [grads |-> <<>>, ref |-> Absent, low |-> Absent, streak |-> 0]

\* Twice the median.
Median2(s) ==
    LET sorted == SortSeq(s, <)
    IN  sorted[(Len(s) + 1) \div 2] + sorted[(Len(s) \div 2) + 1]

PushGradNorm(cfg, grads, g) ==
    IF Len(grads) = cfg.history THEN Append(Tail(grads), g) ELSE Append(grads, g)

Lower(low, e) == IF low = Absent \/ e < low THEN e ELSE low

\* The grad-norm part of check, against an absolute ceiling and the running median.
GradSpikes(cfg, w, m) ==
    /\ Good(m.grad)
    /\ \/ m.grad > cfg.gradMax
       \/ /\ Len(w.grads) >= cfg.enough
          /\ Median2(w.grads) > 0 /\ 2 * m.grad > cfg.spike * Median2(w.grads)

\* Mutant: a reference that is there is kept.
NewReferenceOnce(w, m, step) == w.ref = Absent

\* The entropy of step 1 is the reference, or the first one there is.
NewReference(w, m, step) == step = 1 \/ w.ref = Absent
EntropyCollapses(cfg, w, m, step) ==
    /\ Good(m.entropy) /\ ~NewReference(w, m, step)
    /\ step <= cfg.window /\ cfg.collapse * m.entropy < w.ref

\* _policy_drift
Drifts(cfg, w, m, step) ==
    \/ m.kl > cfg.klMax
    \/ /\ Good(m.entropy) /\ w.low > 0
       /\ step > cfg.riseAfter /\ m.entropy > cfg.rise * w.low

\* check: the alerts of a step, whether it raises StabilityAbort, and the watch after it.
Check(cfg, w, m, step) ==
    LET drift == Drifts(cfg, w, m, step)
        streak == IF drift THEN w.streak + 1 ELSE 0
        nan == Bad \in {m.grad, m.entropy, m.kl}
    IN  [alerts |-> {a \in {"nan", "spike", "collapse", "drift"} :
                        \/ a = "nan" /\ nan
                        \/ a = "spike" /\ GradSpikes(cfg, w, m)
                        \/ a = "collapse" /\ EntropyCollapses(cfg, w, m, step)
                        \/ a = "drift" /\ drift},
         raises |-> (nan /\ cfg.abortOnNan) \/ (cfg.abortOnDivergence /\ streak >= cfg.patience),
         watch |-> [grads |-> IF Good(m.grad) THEN PushGradNorm(cfg, w.grads, m.grad) ELSE w.grads,
                    ref |-> IF Good(m.entropy) /\ NewReference(w, m, step) THEN m.entropy ELSE w.ref,
                    low |-> IF Good(m.entropy) THEN Lower(w.low, m.entropy) ELSE w.low,
                    streak |-> streak]]

\* rebuild reads the lines [step, m] by step, those of one step in the order of the file.
Before(log, i, j) == log[i].step < log[j].step \/ (log[i].step = log[j].step /\ i < j)

\* The a-th line that is read is the one with a - 1 lines before it.
ReadOrder(log) ==
    [a \in DOMAIN log |-> CHOOSE i \in DOMAIN log : Cardinality({j \in DOMAIN log : Before(log, j, i)}) = a - 1]

ReadLine(cfg, w, r) ==
    [w EXCEPT !.grads = IF Good(r.m.grad) THEN PushGradNorm(cfg, w.grads, r.m.grad) ELSE w.grads,
              !.low = IF Good(r.m.entropy) THEN Lower(w.low, r.m.entropy) ELSE w.low,
              !.ref = IF r.step = 1 /\ Good(r.m.entropy) THEN r.m.entropy ELSE w.ref]

Rebuild(cfg, log) == FoldLeft(LAMBDA w, i : ReadLine(cfg, w, log[i]), NewWatch, ReadOrder(log))

----------------------------------------------------------------------------
(* A run is [log, kept, watch, alerts, checked]: the lines of              *)
(* metrics.jsonl, the metrics of the steps that the present attempt stands *)
(* on, the watch of its process, and the alerts of the last step if that   *)
(* process has checked one.                                                *)

NewWatched == [log |-> <<>>, kept |-> <<>>, watch |-> NewWatch, alerts |-> {}, checked |-> FALSE, up |-> TRUE]

\* _compute_metrics: a step is checked and then logged; one that raises ends the process without a
\* line.
Step(cfg, run, m) ==
    LET step == Len(run.kept) + 1
        c == Check(cfg, run.watch, m, step)
    IN  [log |-> IF c.raises THEN run.log ELSE Append(run.log, [step |-> step, m |-> m]),
         kept |-> Append(run.kept, m), watch |-> c.watch, alerts |-> c.alerts, checked |-> TRUE, up |-> ~c.raises]

\* The next attempt, from the checkpoint of any step, that of the step that raised included.
ResumeAt(cfg, run, at) ==
    [run EXCEPT !.kept = SubSeq(@, 1, at), !.watch = Rebuild(cfg, run.log), !.checked = FALSE, !.up = TRUE]

\* What one process that trained the kept steps without a break says at the last of them.
Unbroken(cfg, kept) ==
    LET Next(c, i) == Check(cfg, c.watch, kept[i], i)
    IN  FoldLeft(Next, [watch |-> NewWatch, alerts |-> {}, raises |-> FALSE], [i \in DOMAIN kept |-> i]).alerts

\* rebuild: "restore the grad-norm history, the step-1 entropy and the lowest entropy".  After any
\* resumes the NaN alert is that of an unbroken run.  If every earlier step has its line, no drift
\* that it sees is missed, what abandoned attempts logged notwithstanding; if step 1 had an entropy,
\* a collapse is measured against that of the step 1 the run stands on; and if moreover the log has
\* no other lines, the alerts are the same.
WatchIsOfTheRun(cfg, run) ==
    run.checked =>
      LET whole == Unbroken(cfg, run.kept)
          Same(a) == a \in run.alerts <=> a \in whole
          Logged(i) == \E l \in ToSet(run.log) : l = [step |-> i, m |-> run.kept[i]]
          abandoned == \E i \in DOMAIN run.log : i > Len(run.kept) \/ run.log[i] # [step |-> i, m |-> run.kept[i]]
      IN  /\ Same("nan")
          /\ (\A i \in 1 .. Len(run.kept) - 1 : Logged(i)) =>
               /\ "drift" \in whole => "drift" \in run.alerts
               /\ Good(run.kept[1].entropy) => Same("collapse") /\ (abandoned \/ run.alerts = whole)
=============================================================================
