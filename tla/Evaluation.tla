---------------------------- MODULE Evaluation -----------------------------
(***************************************************************************)
(* The evaluation harness over the files it leaves: runner.py writes the   *)
(* graded samples, the results and the summary of one output directory,    *)
(* regrade_eval.py grades the samples again, compare_runs.py makes the     *)
(* tables.  jarvis/eval.sh and kaggle/eval.sh name the directory after the *)
(* checkpoint, so that a call that was killed is repeated over its files.  *)
(* A text is what is extracted from it, an answer or Blank; a grader is    *)
(* the relation <<gold, answer>> that math-verify affirms.  Scores are in  *)
(* whole parts of Unit, which every number of samples times problems       *)
(* divides.                                                                *)
(***************************************************************************)
EXTENDS EvalScoring, Integers

Unit == 144
NoFile == [none |-> TRUE]

Sum(f) == FoldFunction(+, 0, f)

----------------------------------------------------------------------------
\* compute_score: an extracted answer that is the gold one, or that math-verify affirms.
Score(gold, text, grader) == IF text # Blank /\ (text = gold \/ <<gold, text>> \in grader) THEN 1 ELSE 0

\* summarize_problem, on the scores and answers of one problem and the values of k up to n.
SummarizeProblem(scores, answers, gold, ks, grader) ==
    LET n == Len(scores)
        c == Sum(scores)
        maj(k) == MajorityAnswer(SubSeq(answers, 1, k), grader)
        upToN == {k \in ks : k <= n}
    IN  [pass1 |-> c * (Unit \div n),
         pass |-> [k \in upToN |-> LET p == PassAtK(n, c, k) IN (p[1] * Unit) \div p[2]],
         maj |-> [k \in upToN |-> Unit * Score(gold, maj(k).answer, grader)],
         noAnswer |-> Cardinality({j \in 1 .. n : answers[j] = Blank}) * (Unit \div n)]

\* grade_problem
GradeProblem(gold, texts, ks, grader) ==
    LET rewards == [j \in DOMAIN texts |-> Score(gold, texts[j], grader)]
    IN  [rewards |-> rewards, summary |-> SummarizeProblem(rewards, texts, gold, ks, grader)]

\* aggregate: the mean of every metric over the problems that have it (its bootstrap interval is
\* left out).
Mean(values) == Sum(values) \div Len(values)
Aggregate(summaries, ks) ==
    LET Over(metric(_)) == Mean([i \in DOMAIN summaries |-> metric(summaries[i])])
        OverK(metric(_)) ==
            [k \in ks |-> LET have == SelectSeq(summaries, LAMBDA s : k \in DOMAIN metric(s))
                         IN Mean([i \in DOMAIN have |-> metric(have[i])[k]])]
    IN  [pass1 |-> Over(LAMBDA s : s.pass1), noAnswer |-> Over(LAMBDA s : s.noAnswer),
         pass |-> OverK(LAMBDA s : s.pass), maj |-> OverK(LAMBDA s : s.maj)]

----------------------------------------------------------------------------
(* A directory is [samples, results: benchmark -> file, summary].  A call  *)
(* of run_eval is [id, benchmarks, data, gold, ks, grader], data giving,   *)
(* for each benchmark whose parquet exists, the texts of each problem.     *)

Empty(benchmarks) ==
    [samples |-> [b \in benchmarks |-> NoFile], results |-> [b \in benchmarks |-> NoFile], summary |-> NoFile]

\* Mutant: samples.jsonl is opened to append.
OpenAppends(dir, call, b) ==
    IF dir.samples[b] = NoFile THEN [dir EXCEPT !.samples[b] = [lines |-> <<>>, torn |-> FALSE]] ELSE dir

\* run_benchmark: samples.jsonl is opened anew,
Open(dir, call, b) == [dir EXCEPT !.samples[b] = [lines |-> <<>>, torn |-> FALSE]]

\* then each sample is graded with its problem and written as one line,
Line(dir, call, b, i, j) ==
    LET graded == GradeProblem(call.gold, call.data[b][i], call.ks, call.grader)
    IN  [dir EXCEPT !.samples[b].lines = Append(@, [problem |-> i, sample |-> j, gold |-> call.gold,
            text |-> call.data[b][i][j], correct |-> graded.rewards[j], call |-> call.id])]

\* and results.json is written last.
Results(call, b) ==
    LET graded == [i \in DOMAIN call.data[b] |-> GradeProblem(call.gold, call.data[b][i], call.ks, call.grader)]
    IN  [metrics |-> Aggregate([i \in DOMAIN graded |-> graded[i].summary], call.ks),
         ks |-> call.ks, call |-> call.id]
WriteResults(dir, call, b) == [dir EXCEPT !.results[b] = Results(call, b)]

\* run_all: the benchmarks in turn, those without a parquet skipped, the summary at the very end.
Present(call) == SelectSeq(call.benchmarks, LAMBDA b : b \in DOMAIN call.data)
WriteSummary(dir, call) ==
    [dir EXCEPT !.summary = [b \in ToSet(Present(call)) |-> Results(call, b)]]
Steps(call) ==
    LET Samples(b) == FlattenSeq([i \in DOMAIN call.data[b] |->
                          [j \in DOMAIN call.data[b][i] |-> <<"line", b, i, j>>]])
    IN  FlattenSeq([m \in DOMAIN Present(call) |->
            LET b == Present(call)[m] IN <<<<"open", b>>>> \o Samples(b) \o <<<<"results", b>>>>])
        \o <<<<"summary">>>>
Do(dir, call, s) ==
    CASE s[1] = "open" -> Open(dir, call, s[2])
      [] s[1] = "line" -> Line(dir, call, s[2], s[3], s[4])
      [] s[1] = "results" -> WriteResults(dir, call, s[2])
      [] s[1] = "summary" -> WriteSummary(dir, call)

\* The directory after a call that was killed after its first `done` steps, in the middle of a line
\* of samples.jsonl if the next step writes one and `torn` says so.
RunAll(dir, call, done, torn) ==
    LET after == FoldLeft(LAMBDA d, s : Do(d, call, s), dir, SubSeq(Steps(call), 1, done))
        next == Steps(call)[done + 1]
    IN  IF torn /\ done < Len(Steps(call)) /\ next[1] = "line"
          THEN [after EXCEPT !.samples[next[2]].torn = TRUE] ELSE after

----------------------------------------------------------------------------
\* load_problems: the lines by problem, each problem's by sample; a torn line is no JSON.
Raises(dir, b) ==
    dir.results[b] = NoFile \/ dir.samples[b].torn \/ dir.samples[b].lines = <<>>
LoadProblems(lines) ==
    LET problems == SetToSortSeq({l.problem : l \in ToSet(lines)}, <)
    IN  [i \in DOMAIN problems |->
            SortSeq(SelectSeq(lines, LAMBDA l : l.problem = problems[i]), LAMBDA l, m : l.sample < m.sample)]

\* regrade_file: the row of the table and the new metrics; n is the first problem's.
Regrade(dir, b, grader) ==
    LET old == dir.results[b]
        problems == LoadProblems(dir.samples[b].lines)
        n == Len(problems[1])
        ks == {k \in old.ks : k <= n}
        graded == [i \in DOMAIN problems |->
                     GradeProblem(problems[i][1].gold, [j \in DOMAIN problems[i] |-> problems[i][j].text], ks, grader)]
        Flips(from) == Sum([i \in DOMAIN problems |->
                          Cardinality({j \in DOMAIN problems[i] :
                              problems[i][j].correct = from /\ graded[i].rewards[j] # from})])
        stored == Mean([i \in DOMAIN problems |->
                          Sum([j \in DOMAIN problems[i] |-> problems[i][j].correct]) * (Unit \div n)])
    IN  [new |-> Aggregate([i \in DOMAIN graded |-> graded[i].summary], ks), old |-> old.metrics,
         wrongToRight |-> Flips(0), rightToWrong |-> Flips(1), matches |-> stored = old.metrics.pass1,
         n |-> n, problems |-> problems]

\* main reads every directory before it writes one: one file it cannot read, and nothing is written.
RegradeMain(dirs, grader) ==
    LET files == {p \in (DOMAIN dirs) \X UNION {DOMAIN dirs[d].samples : d \in DOMAIN dirs} :
                    p[2] \in DOMAIN dirs[p[1]].samples /\ dirs[p[1]].samples[p[2]] # NoFile}
    IN  IF files = {} \/ \E p \in files : Raises(dirs[p[1]], p[2]) THEN NoFile
        ELSE [p \in files |-> Regrade(dirs[p[1]], p[2], grader).new]

----------------------------------------------------------------------------
\* compare_runs.latest_eval: the summary of the highest step that has one; the base model's is -1.
LatestEval(dirs) ==
    LET finished == {step \in DOMAIN dirs : dirs[step].summary # NoFile}
    IN  IF finished = {} THEN NoFile ELSE dirs[Max(finished)].summary

\* train_summary: rows are [step, reward, seconds] in file order.  The means are over the last lines,
\* the hours over the steps.
TrainSummary(rows, window) ==
    LET tail == SubSeq(rows, Max({1, Len(rows) - window + 1}), Len(rows))
        LastOf(step) == rows[Max({i \in DOMAIN rows : rows[i].step = step})]
    IN  [lastStep |-> IF rows = <<>> THEN 0 ELSE Last(rows).step,
         reward |-> Sum([i \in DOMAIN tail |-> tail[i].reward]),
         seconds |-> MapThenSumSet(LAMBDA step : LastOf(step).seconds, {rows[i].step : i \in DOMAIN rows})]

----------------------------------------------------------------------------
Whole(dir, b) ==
    LET problems == LoadProblems(dir.samples[b].lines)
    IN  \A i \in DOMAIN problems : Len(problems[i]) = Len(problems[1])
SameEval(dir, b) == \E l \in ToSet(dir.samples[b].lines) : l.call = dir.results[b].call

\* "samples.jsonl and results.json must describe the same eval": where one sample is of the
\* published call all are, and the same grader gives the published numbers again; whatever calls
\* were killed over them, a row that is not flagged has a new pass@1 that its flips account for; a
\* summary is all of one call, never newer than the results beside it; and no benchmark of a
\* published summary is lost by grading it again.
EvalFilesAgree(dir, grader, other) ==
    /\ \A b \in DOMAIN dir.samples :
         (dir.samples[b] # NoFile /\ ~Raises(dir, b)) =>
            LET same == Regrade(dir, b, grader)
                row == Regrade(dir, b, other)
            IN  /\ SameEval(dir, b) =>
                      same.new = same.old /\ same.wrongToRight + same.rightToWrong = 0 /\ same.matches
                /\ (row.matches /\ Whole(dir, b)) =>
                      row.new.pass1 - row.old.pass1
                        = (row.wrongToRight - row.rightToWrong) * (Unit \div (row.n * Len(row.problems)))
    /\ dir.summary # NoFile =>
         \E id \in {dir.summary[b].call : b \in DOMAIN dir.summary} \cup {0} :
            \A b \in DOMAIN dir.summary : dir.summary[b].call = id /\ id <= dir.results[b].call
    /\ LET latest == LatestEval([step \in {1} |-> dir])
           regraded == RegradeMain([step \in {1} |-> dir], other)
       IN  (latest # NoFile /\ regraded # NoFile) => \A b \in DOMAIN latest : <<1, b>> \in DOMAIN regraded

\* "a step re-logged after a resume counts once": the hours are those of a log without the lines of
\* abandoned attempts; and where the window holds no step twice, neither do the means see one.
HoursCountOnce(rows, window) ==
    LET kept == [i \in DOMAIN rows |-> ~\E j \in DOMAIN rows : j > i /\ rows[j].step = rows[i].step]
        log == [i \in {i \in DOMAIN rows : kept[i]} |-> rows[i]]
        tail == Max({1, Len(rows) - window + 1}) .. Len(rows)
        got == TrainSummary(rows, window)
    IN  /\ got.seconds = MapThenSumSet(LAMBDA i : log[i].seconds, DOMAIN log)
        /\ (\A i, j \in tail : rows[i].step = rows[j].step => i = j) =>
              tail \subseteq DOMAIN log /\ got.reward = MapThenSumSet(LAMBDA i : log[i].reward, tail)
=============================================================================
