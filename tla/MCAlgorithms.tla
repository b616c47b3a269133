---------------------------- MODULE MCAlgorithms ----------------------------
(***************************************************************************)
(* The pure parts of the program on every input up to a bound: a step      *)
(* takes an input, and an invariant says what the result for it is.  The   *)
(* tools that leave files behind are called again over what they left: a   *)
(* step of theirs is one call, whole or killed on the way.                 *)
(***************************************************************************)
EXTENDS CutsOperator, MicroBatches, WorkerPatches, GroupDiagnostics, RolloutDump, Boxed, Evaluation,
        TrainingConfigs, DataPrep, Submissions

Watch == INSTANCE Stability
Profile == INSTANCE MemoryProfile

CONSTANTS
    Tokens, MaxUnits, MaxK,            \* CutsOperator: vocabulary, probabilities, k
    MaxSequences, MaxLength, Budgets,  \* MicroBatches
    MaxRollouts,                       \* GroupDiagnostics: rollouts of two groups
    MaxTokens,                         \* the D1 detector
    MaxSamples,                        \* EvalScoring
    MaxText,                           \* Boxed
    MaxCalls,                          \* Evaluation, DataPrep: calls over one directory
    MaxLines,                          \* Evaluation: lines of a metrics log
    MaxRaw,                            \* DataPrep: rows of a raw dataset
    Nodes, RunConfigs,                 \* Submissions: a run's nodes and configurations,
    MaxStarts, MaxSaves,               \*   submissions and checkpoints
    MaxChecks,                         \* Stability: steps that are checked
    MaxTime                            \* MemoryProfile: events of a run

ASSUME TokensAssumption == IsFiniteSet(Tokens) /\ Tokens # {}
ASSUME BudgetsAssumption == Budgets \subseteq Int
ASSUME RolloutsAssumption == MaxRollouts \in Nat

VARIABLE input

UpTo(n, S) == UNION {[1 .. m -> S] : m \in 1 .. n}

\* Two spellings of one answer with one normal form, and two more answers.
Answers == {"half", "0.5", ".5", "2"}
AnswerNorm == [a \in Answers \cup {"blank"} |->
                 IF a = "0.5" THEN "nf" ELSE IF a = ".5" THEN "nf" ELSE a]
\* math-verify finds nothing equal, the half and one spelling, or all of one direction.
Equalities == {{}, {<<"half", "0.5">>}, {<<"0.5", "half">>, <<"half", "0.5">>, <<"half", ".5">>, <<".5", "half">>},
               {<<"half", "0.5">>, <<"0.5", "2">>}}

Rows == [Tokens -> 0 .. MaxUnits]
Params == [k : 1 .. MaxK, delta : 0 .. MaxUnits, fallback : {"topk", "argmax"}]
MicroArgs == [removePadding : BOOLEAN, groupSize : {1, 2}, fixedCount : BOOLEAN, ranks : {1, 2}]
Rollout == [uid : {"u", "v"}, kind : {"std", "cuts"}, reward : 0 .. One]
Keyed(rs) ==     \* with the sessions in another order than the batch
    [i \in DOMAIN rs |-> [uid |-> rs[i].uid, kind |-> rs[i].kind, session |-> MaxRollouts - i]]
Characters == {"box", "open", "close", "x"}
Token == [cuts : BOOLEAN, mask : BOOLEAN, at : 1 .. 3, lp : 0 .. 3]

Init == input = [of |-> "none"]

TakeRow == \E row \in Rows, p \in Params : input' = [of |-> "row", row |-> row, p |-> p]
TakeLengths ==
    \E l \in UpTo(MaxSequences, 1 .. MaxLength), b \in Budgets, args \in MicroArgs :
        input' = [of |-> "lengths", lengths |-> l, budget |-> b, args |-> args]
TakeRollouts == \E rs \in UpTo(MaxRollouts, Rollout) : input' = [of |-> "rollouts", rs |-> rs]
TakeTokens == \E ts \in UpTo(MaxTokens, Token) : input' = [of |-> "tokens", ts |-> ts]
TakeCounts ==
    \E n \in 1 .. MaxSamples : \E c \in 0 .. n, k \in 1 .. n :
        input' = [of |-> "counts", n |-> n, c |-> c, k |-> k]
TakeAnswers ==
    \E a \in UpTo(MaxSamples, Answers \cup {Blank}), eq \in Equalities :
        input' = [of |-> "answers", answers |-> a, equal |-> eq]
TakeText == \E t \in UpTo(MaxText, Characters) : input' = [of |-> "text", text |-> t]

----------------------------------------------------------------------------
\* Preflight: each site and arm as it is, and with up to two leaves and one fact of the machine
\* changed.
OtherValues ==
    [hwProfile |-> {"sm75", "h100", "a100"}, dtype |-> {"float16", "bfloat16"}, actorDtype |-> {"bfloat16"},
     actorParam |-> {"fp16", "bf16"}, backend |-> {"FLASH_ATTN", "TRITON_ATTN"}, enabled |-> {FALSE},
     groupSize |-> {Null, 0, 16, 4}, nStd |-> {0, 8}, nCuts |-> {0, 8}, rolloutN |-> {16, 4, 8}, processors |-> {{}},
     nGpus |-> {1, 2, 4}, tp |-> {1, 2, 4}, nnodes |-> {2}, loraRank |-> {0, 64}, offload |-> BOOLEAN, useV1 |-> {FALSE},
     maxResponse |-> {6000}, lr |-> {"1e-5", "1e-6"},
     dynamic |-> {[g \in Engines |-> g # "actor"], [g \in Engines |-> FALSE]},
     micro |-> {[g \in Engines |-> 1], [g \in Engines |-> IF g = "actor" THEN 1 ELSE Null]},
     budget |-> {[g \in Engines |-> IF g = "ref" THEN 2048 ELSE 8192]}]
Broken(m) == [p \in {"torch", "vllm", "transformers"} |-> IF p = m THEN "broken" ELSE "pinned"]
OtherMachine ==
    [hw |-> {NoValue, "sm75", "h100", "a100"}, slurmGpus |-> {Null, 1, 2, 4}, visible |-> {Null, 1, 2, 4},
     nodes |-> {Null, 2},
     gpus |-> {<<61>>, <<75>>, <<80>>, <<90>>, <<90, 75>>, <<80, 61>>, <<75, 75, 75, 75>>, <<>>},
     procDriver |-> {Null, 390, 580}, smiDriver |-> {Null, 390}, cudaInit |-> {FALSE},
     wheelArchs |-> {{"sm_75"}, {"sm_90"}}, v2Runner |-> {"", "0", "1"}, v1Engine |-> {FALSE},
     packages |-> {Broken(m) : m \in {"torch", "vllm", "transformers"}}, tokenizer |-> {FALSE}]
Deviations(r, other) == {r} \cup UNION {{[r EXCEPT ![f] = v] : v \in other[f]} : f \in DOMAIN other}

TakePreflight ==
    \E site \in DOMAIN EnvFile, arm \in DOMAIN Arm :
        \E c \in UNION {Deviations(x, OtherValues) : x \in Deviations(ConfigOf(site, arm), OtherValues)},
           e \in Deviations(MachineOf(site), OtherMachine) :
            input' = [of |-> "preflight", site |-> site, arm |-> arm, e |-> e, c |-> c]

\* Evaluation: the directory of one checkpoint, evaluated again and again with other outcomes.
Benchmarks == {"math500", "gpqa"}
Samplings ==
    {<<<<"half", "0.5">>, <<"2", Blank>>>>, <<<<"2", "0.5">>, <<"half", "half">>>>, <<<<"0.5", "half">>>>,
     <<<<Blank, Blank>>, <<"2", "half">>>>, <<<<"0.5", "0.5">>, <<"2", "2">>>>}
Grader == {<<"half", "0.5">>}
Calls(id) ==
    {[id |-> id, benchmarks |-> bs, data |-> d, gold |-> "half", ks |-> {1, 2}, grader |-> Grader] :
       bs \in {<<"math500">>, <<"math500", "gpqa">>},
       d \in [Benchmarks -> Samplings] \cup [{"math500"} -> Samplings]}
Evaluate ==
    /\ input.of = "eval" /\ input.calls < MaxCalls
    /\ \E call \in Calls(input.calls + 1), torn \in BOOLEAN : \E done \in 0 .. Len(Steps(call)) :
          input' = [input EXCEPT !.calls = @ + 1, !.dir = RunAll(@, call, done, torn)]

\* A metrics log: each line at most one step after the line before, or at an earlier step.
LogRow == [step : 1 .. 3, reward : 0 .. 1, seconds : 1 .. 2]
TakeLog ==
    \E rows \in UpTo(MaxLines, LogRow), w \in 1 .. 3 :
        /\ rows[1].step = 1 /\ \A i \in 2 .. Len(rows) : rows[i].step <= rows[i - 1].step + 1
        /\ input' = [of |-> "log", rows |-> rows, window |-> w]

\* DataPrep: raw datasets, then other ones (or other options) over the same directory.
Example == [index : {1, NoIndex}, prompt : {"p", "q"}, answer : {"7", "pi"}]
Ex(p, a) == [index |-> NoIndex, prompt |-> p, answer |-> a]
BaseRaw ==
    [math |-> <<Ex("p", "7"), Ex("q", "pi")>>, dapo |-> <<Ex("p", "7")>>,
     math500 |-> <<Ex("p", "7"), Ex("q", "pi")>>, gpqa_diamond |-> <<Ex("p", "7")>>]
Without(name) == [d \in DOMAIN BaseRaw \ {name} |-> BaseRaw[d]]
FewRaws ==
    {BaseRaw, [BaseRaw EXCEPT !.math = <<Ex("r", NoAnswer), Ex("s", "7"), Ex("p", "7")>>],
     Without("gpqa_diamond"), Without("math500")}
ManyRaws ==
    FewRaws
    \cup {[BaseRaw EXCEPT !.dapo = d] : d \in UpTo(MaxRaw - 1, Example)}
    \cup {[BaseRaw EXCEPT !.math = [i \in DOMAIN a |-> Ex("p", a[i])]] : a \in UpTo(MaxRaw, {"7", "pi", NoAnswer})}
MakeData ==
    /\ input.of = "data" /\ input.calls < MaxCalls
    /\ \E call \in [raw : IF input.calls = 0 THEN FewRaws ELSE ManyRaws,
                    skip : {{}, {"math"}, {"gpqa_diamond"}}, smoke : {1, 5}] :
       \E done \in 0 .. Len(Made(call)) :
          input' = [input EXCEPT !.calls = @ + 1, !.dir = Prepare(@, call, done)]

\* Submissions: a run with or without scratch, under recipes that differ in a key, in the schedule
\* or in its length.
SomeConfigs == [keys : {"a", "b"}, schedule : {"constant"}, length : {60, 100}]
               \cup [keys : {"a"}, schedule : {"cosine"}, length : {60, 100}]
Jobs == [node : Nodes, config : RunConfigs, allowNode : BOOLEAN, allowRecipe : BOOLEAN, passes : BOOLEAN]
SubmitJob ==
    /\ input.of = "run" /\ input.run.job = NoJob /\ Len(input.run.nodes) < MaxStarts
    /\ \E job \in Jobs : input' = [input EXCEPT !.run = Submit(@, input.scratch, job)]
SaveStep ==
    /\ input.of = "run" /\ input.run.job # NoJob /\ Len(input.run.dirs[input.run.job.home].lineage) < MaxSaves
    /\ input' = [input EXCEPT !.run = Save(@)]
EndJob == input.of = "run" /\ input.run.job # NoJob /\ input' = [input EXCEPT !.run = End(@)]
NewSession ==
    /\ input.of = "run" /\ input.run.job = NoJob /\ ~input.scratch
    /\ input' = [input EXCEPT !.run = Session(@)]

\* check_resume: where the first job stopped and the second one began.
TakeResume ==
    \E killedAt \in 1 .. 7, saveFreq \in 1 .. 3, stopped \in 1 .. 8, from \in 1 .. 9 :
        input' = [of |-> "resume", stopped |-> stopped, from |-> from,
                  args |-> [killedAt |-> killedAt, saveFreq |-> saveFreq, finalStep |-> 9]]

\* WorkerPatches: the hook, imports that may fail, and what is made after the hook.
Names == UpTo(MaxTag + 1, {"a", "/"}) \cup {<<>>}
SetUp ==
    /\ input.of = "worker"
    /\ \/ input' = [input EXCEPT !.worker = Install(@)]
       \/ \E t \in Targets \ input.worker.loaded, raises \in BOOLEAN :
             input' = [input EXCEPT !.worker = Import(@, t, raises)]
       \/ \E t \in input.worker.loaded :
             input.worker.hooked /\ input' = [input EXCEPT !.worker = MadePath(@, t, RunTag(input.name))]

\* Stability: steps of all kinds, and a resume from any checkpoint after any of them.
WatchCfg == [history |-> 3, enough |-> 2, gradMax |-> 8, spike |-> 3, window |-> 2, collapse |-> 2, klMax |-> 1,
             rise |-> 2, riseAfter |-> 1, patience |-> 2, abortOnNan |-> FALSE, abortOnDivergence |-> TRUE]
Metrics ==
    {[grad |-> 1, entropy |-> 3, kl |-> 0], [grad |-> 4, entropy |-> 3, kl |-> 0], [grad |-> 1, entropy |-> 1, kl |-> 0],
     [grad |-> 1, entropy |-> 7, kl |-> 0], [grad |-> 9, entropy |-> 1, kl |-> 2]}
    \cup {[grad |-> v, entropy |-> v, kl |-> v] : v \in {Watch!Bad, Watch!Absent}}
CheckStep ==
    /\ input.of = "watch" /\ input.run.up /\ input.checks < MaxChecks
    /\ \E m \in Metrics : input' = [input EXCEPT !.run = Watch!Step(WatchCfg, @, m), !.checks = @ + 1]
Resume ==
    /\ input.of = "watch" /\ input.run.checked
    /\ \E at \in 0 .. Len(input.run.kept) : input' = [input EXCEPT !.run = Watch!ResumeAt(WatchCfg, @, at)]

\* MemoryProfile: phases, samples, exceptions and kills.
ProfileEvent ==
    /\ input.of = "profile" /\ input.p.t <= MaxTime
    /\ \E p \in {Profile!Sample(input.p, mib) : mib \in 1 .. 2} \cup {Profile!Kill(input.p)}
               \cup IF input.p.phase = "none" THEN {Profile!Begin(input.p, phase) : phase \in Profile!Phases}
                    ELSE {Profile!End(input.p), Profile!Raise(input.p)} :
          input' = [input EXCEPT !.p = p]

----------------------------------------------------------------------------
StartCalls == \/ input' = [of |-> "eval", calls |-> 0, dir |-> Empty(Benchmarks)]
              \/ input' = [of |-> "data", calls |-> 0, dir |-> NewDir]
              \/ \E s \in BOOLEAN : input' = [of |-> "run", scratch |-> s, run |-> NewRun(Nodes)]
              \/ \E name \in Names : input' = [of |-> "worker", name |-> name, worker |-> NewWorker]
              \/ input' = [of |-> "watch", checks |-> 0, run |-> Watch!NewWatched]
              \/ input' = [of |-> "profile", p |-> Profile!NewProfile]

TakeOne ==
    \/ TakeRow \/ TakeLengths \/ TakeRollouts \/ TakeTokens \/ TakeCounts \/ TakeAnswers \/ TakeText
    \/ TakePreflight \/ TakeLog \/ TakeResume \/ StartCalls
Next == \/ input.of = "none" /\ TakeOne
        \/ Evaluate \/ MakeData \/ SubmitJob \/ SaveStep \/ EndJob \/ NewSession
        \/ SetUp \/ CheckStep \/ Resume \/ ProfileEvent

Spec == Init /\ [][Next]_input

----------------------------------------------------------------------------
\* cuts_transform never drops a token for a less likely one, nor all of them, and its statistics
\* do not depend on how topk breaks ties.
CutsTakesTheLikeliest ==
    input.of = "row" => LikeliestSurvive(input.row, input.p) /\ StatsAreOfTheRow(input.row, input.p)

\* What the patches of verl promise.  sorted_partitions: "index lists of similar-length sequences,
\* each fitting the budget", no more of them than any other partition needs.  zmq_socket_patch: the
\* two sides of a run's weight sync meet on the run's own socket.
PatchesHold ==
    /\ input.of = "lengths" =>
         EachOnceAndFitting(input.args, input.lengths, input.budget) /\ Fewest(input.args, input.lengths, input.budget)
    /\ input.of = "worker" => SocketsAreOwn(input.worker, input.name)

\* variance_decomposition's residual is "exactly 0 for an 8/8 split", a saved group is one where
\* only a CUTS rollout differs, sample_utilization is the "fraction of rollouts that contribute a
\* non-zero gradient", and uniform_logprob_fraction looks exactly where the engine applied CUTS.  The
\* dump of the same batch holds whole groups.
GroupMetricsAreRight ==
    /\ input.of = "rollouts" =>
         /\ HalvesHaveNoResidual(input.rs) /\ SavedMeansCutsDiffers(input.rs) /\ UtilizationIsGradient(input.rs)
         /\ \A maxGroups \in 0 .. 2 : DumpHoldsWholeGroups(Keyed(input.rs), maxGroups)
    /\ input.of = "tokens" => LeakIsSeen(input.ts, 1, 3)

\* From a text to a benchmark's score: last_boxed_content is brace-balanced, and None for an
\* unterminated box; cluster_answers gives every answer one vote and "empty answers are never
\* merged with anything"; majority_answer is "the largest cluster. Ties: earliest cluster";
\* pass_at_k is the unbiased estimator.
ScoringIsRight ==
    /\ input.of = "text" => ContentIsBalanced(input.text)
    /\ input.of = "answers" => OneVoteEach(input.answers, input.equal) /\ MajorityIsMostVoted(input.answers, input.equal)
    /\ input.of = "counts" => PassAtKCounts(input.n, input.c, input.k)

\* The preflight decides a site's own configuration on its own machine as it should, and whatever
\* it accepts of the changed ones runs on that machine, starts, and fits its micro-batches.
PreflightIsRight ==
    input.of = "preflight" => SitesAreDecided(input.site, input.arm) /\ AcceptedRuns(input.e, input.c)

\* Over any killed and repeated calls the published numbers of an evaluation, the regraded ones and
\* the tables agree as far as the tools say so; a table counts a re-logged step once; and the memory
\* profile puts each sample into the phase it was taken in.
TablesAgree ==
    /\ input.of = "eval" => EvalFilesAgree(input.dir, Grader, {})
    /\ input.of = "log" => HoursCountOnce(input.rows, input.window)
    /\ input.of = "profile" => Profile!ProfileIsOfTheRun(input.p)

\* prepare_data's manifest describes the files beside it, and the training sets hold the problems
\* that can be rewarded, each once.
DataAreRight == input.of = "data" => DataAreAsListed(input.dir)

\* Whatever attempts were abandoned, the stability watch of a resumed run raises the alerts of one
\* that was never interrupted, as far as metrics.jsonl holds what it needs for them.
WatchSurvivesResumes == input.of = "watch" => Watch!WatchIsOfTheRun(WatchCfg, input.run)

\* A run is continued under its recipe, on its node and at its checkpoint, or someone was asked.
RunsAreContinued ==
    /\ input.of = "run" => OneRecipe(input.run) /\ OneNode(input.run)
    /\ input.of = "resume" => ResumeIsJudged(input.stopped, input.from, input.args)
=============================================================================
