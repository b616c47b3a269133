-------------------------- MODULE AlgorithmProofs --------------------------
(***************************************************************************)
(* Theorems about the algorithms of MCAlgorithms.  Each is proved of the   *)
(* operators for every input, and from that follows the invariant of the   *)
(* run for every bound.  The calls that build on one another (submissions, *)
(* a worker's imports) have an inductive invariant of their own.           *)
(***************************************************************************)
EXTENDS MCAlgorithms, FiniteSetTheorems, SequenceTheorems, WellFoundedInduction, TLAPS

(* What a step takes.                                                        *)

Named == "of" \in DOMAIN input

\* Nothing has been taken at first.
LEMMA NamedInit == Init => Named /\ input.of = "none"
BY DEF Init, Named

\* An input is told by its name, and keeps it.
LEMMA StepsByName ==
    ASSUME Named, Next
    PROVE  /\ Named'
           /\ input'.of = "row" => TakeRow
           /\ input'.of = "lengths" => TakeLengths
           /\ input'.of = "rollouts" => TakeRollouts
           /\ input'.of = "tokens" => TakeTokens
           /\ input'.of = "counts" => TakeCounts
           /\ input'.of = "answers" => TakeAnswers
           /\ input'.of = "text" => TakeText
           /\ input'.of = "resume" => TakeResume
           /\ input'.of = "preflight" => TakePreflight
           /\ input'.of = "worker" =>
                SetUp \/ \E name \in Names : input' = [of |-> "worker", name |-> name, worker |-> NewWorker]
           /\ input'.of = "run" =>
                \/ SubmitJob \/ SaveStep \/ EndJob \/ NewSession
                \/ \E s \in BOOLEAN : input' = [of |-> "run", scratch |-> s, run |-> NewRun(Nodes)]
           /\ input'.of = "watch" =>
                CheckStep \/ Resume \/ input' = [of |-> "watch", checks |-> 0, run |-> Watch!NewWatched]
<1>. USE DEF Named
<1>1. CASE TakeRow \/ TakeLengths \/ TakeRollouts
  BY <1>1 DEF TakeRow, TakeLengths, TakeRollouts
<1>7. CASE TakeTokens \/ TakeCounts \/ TakeAnswers
  BY <1>7 DEF TakeTokens, TakeCounts, TakeAnswers
<1>2. CASE TakeText \/ TakePreflight \/ TakeLog
  BY <1>2 DEF TakeText, TakePreflight, TakeLog
<1>8. CASE TakeResume
  <2>1. PICK s, f, a : input' = [of |-> "resume", stopped |-> s, from |-> f, args |-> a]
    BY <1>8 DEF TakeResume
  <2>. QED BY <1>8, <2>1
<1>3. CASE StartCalls
  BY <1>3 DEF StartCalls
<1>4. CASE Evaluate \/ MakeData \/ ProfileEvent
  BY <1>4 DEF Evaluate, MakeData, ProfileEvent
<1>5. CASE SubmitJob \/ SaveStep \/ EndJob \/ NewSession
  BY <1>5 DEF SubmitJob, SaveStep, EndJob, NewSession
<1>6. CASE SetUp \/ CheckStep \/ Resume
  BY <1>6 DEF SetUp, CheckStep, Resume
<1>. QED BY <1>1, <1>2, <1>3, <1>4, <1>5, <1>6, <1>7, <1>8 DEF Next, TakeOne

-----------------------------------------------------------------------------
(* Submissions.                                                              *)

Homes == Nodes \cup {"shared"}
Dirs == [configs : Seq(RunConfigs), lineage : Seq(RunConfigs), pulled : SUBSET Nat]
Runs == [dirs : [Homes -> Dirs], nodes : Seq(Nodes),
         job : {NoJob} \cup [home : Homes, config : RunConfigs, step : Nat],
         agreed : SUBSET {Recipe(c) : c \in RunConfigs}, moved : BOOLEAN]

\* Why a step after the i-th may be trained under recipe r, whatever the i-th was.
Excused(run, h, i, r) == r \in run.agreed \/ \E p \in run.dirs[h].pulled : p <= i

\* The newest configuration, against which the next submission is compared, is that of the newest
\* checkpoint or was allowed; it is missing only after a pull.
Compared(run, h) ==
    LET dir == run.dirs[h]
    IN  dir.lineage # <<>> =>
          \/ dir.configs = <<>> /\ \E p \in dir.pulled : p <= Len(dir.lineage)
          \/ /\ dir.configs # <<>>
             /\ \/ Recipe(Last(dir.lineage)) = Recipe(Last(dir.configs))
                \/ Excused(run, h, Len(dir.lineage), Recipe(Last(dir.configs)))

RecipeInv(run) ==
    /\ OneRecipe(run)
    /\ \A h \in Homes : Compared(run, h)
    /\ run.job # NoJob =>
         /\ run.dirs[run.job.home].configs # <<>>
         /\ Last(run.dirs[run.job.home].configs) = run.job.config

\* On scratch all checkpoints and the running job are on the last node of the list, until a user
\* has moved the run.
NodeInv(scratch, run) ==
    /\ scratch /\ ~run.moved =>
         /\ \A h \in Homes : Tracked(run.dirs[h]) => run.nodes # <<>> /\ h = Last(run.nodes)
         /\ run.job # NoJob => run.nodes # <<>> /\ run.job.home = Last(run.nodes)
    /\ ~scratch =>
         /\ \A h \in Homes : Tracked(run.dirs[h]) => h = "shared"
         /\ run.job # NoJob => run.job.home = "shared"

RunInv(scratch, run) == run \in Runs /\ RecipeInv(run) /\ NodeInv(scratch, run)

\* A sequence with one more element.
LEMMA OneMore ==
    ASSUME NEW S, NEW s \in Seq(S), NEW e \in S
    PROVE  /\ Append(s, e) \in Seq(S) /\ Append(s, e) # <<>> /\ Len(Append(s, e)) = Len(s) + 1
           /\ Last(Append(s, e)) = e
           /\ \A i \in 1 .. Len(s) : Append(s, e)[i] = s[i]
BY DEF Last

\* A new run has nothing to continue.
LEMMA NewRunIs == ASSUME NEW scratch \in BOOLEAN PROVE RunInv(scratch, NewRun(Nodes))
<1>1. <<>> \in Seq(RunConfigs) /\ <<>> \in Seq(Nodes)  OBVIOUS
<1>2. Fresh \in Dirs
  BY <1>1 DEF Fresh, Dirs
<1>3. NewRun(Nodes) \in Runs
  BY <1>1, <1>2 DEF NewRun, Runs, Homes
<1>4. \A h \in Homes : NewRun(Nodes).dirs[h].lineage = <<>>
  BY DEF NewRun, Fresh, Homes
<1>5. NewRun(Nodes).job = NoJob /\ DOMAIN NewRun(Nodes).dirs = Homes
  BY DEF NewRun, Homes
<1>6. RecipeInv(NewRun(Nodes))
  BY <1>4, <1>5 DEF RecipeInv, OneRecipe, Compared
<1>7. NodeInv(scratch, NewRun(Nodes))
  BY <1>4, <1>5 DEF NodeInv, Tracked
<1>. QED BY <1>3, <1>6, <1>7 DEF RunInv

\* What one submission does: nothing, an entry in node.txt, or a running job.
LEMMA SubmitIs ==
    ASSUME NEW scratch \in BOOLEAN, NEW run \in Runs, NEW job \in Jobs, run.job = NoJob,
           NEW home, home = Home(scratch, job.node), NEW next, next = Submit(run, scratch, job)
    PROVE  /\ home \in Homes /\ next \in Runs
           /\ \/ next = run
              \/ /\ next.nodes = Append(run.nodes, job.node)
                 /\ ~next.moved => ~run.moved /\ ~Misplaced(run, scratch, job.node)
                 /\ \A h \in Homes : h # home => next.dirs[h] = run.dirs[h]
                 /\ \/ next.dirs = run.dirs /\ next.job = NoJob /\ next.agreed = run.agreed
                    \/ /\ next.dirs[home] = [configs |-> Append(run.dirs[home].configs, job.config),
                                             lineage |-> run.dirs[home].lineage,
                                             pulled |-> run.dirs[home].pulled]
                       /\ next.job # NoJob => next.job.home = home /\ next.job.config = job.config
                       /\ run.agreed \subseteq next.agreed
                       /\ Differs(run.dirs[home], job.config) => Recipe(job.config) \in next.agreed
<1>1. /\ job.node \in Nodes /\ job.config \in RunConfigs /\ job.passes \in BOOLEAN
      /\ job.allowNode \in BOOLEAN /\ job.allowRecipe \in BOOLEAN
  BY DEF Jobs
<1>2. home \in Homes
  BY <1>1 DEF Home, Homes
<1>3. run.dirs[home] \in Dirs /\ run.dirs \in [Homes -> Dirs] /\ run.nodes \in Seq(Nodes)
  BY <1>2 DEF Runs
<1>5. PICK away \in BOOLEAN : away = Misplaced(run, scratch, job.node)
  BY DEF Misplaced, Tracked
<1>18. PICK moved \in BOOLEAN : moved = (run.moved \/ away)
  BY <1>5
<1>19. ~moved => ~run.moved /\ ~Misplaced(run, scratch, job.node)
  BY <1>5, <1>18 DEF Runs
<1>20. PICK nodes : nodes = Append(run.nodes, job.node) /\ nodes \in Seq(Nodes)
  BY <1>1, <1>3, OneMore
<1>21. PICK listed : listed = [run EXCEPT !.nodes = Append(@, job.node),
                                          !.moved = @ \/ Misplaced(run, scratch, job.node)]
  OBVIOUS
<1>6. listed = [dirs |-> run.dirs, nodes |-> nodes, job |-> NoJob, agreed |-> run.agreed, moved |-> moved]
  <2>1. run = [dirs |-> run.dirs, nodes |-> run.nodes, job |-> NoJob, agreed |-> run.agreed,
               moved |-> run.moved]
    BY DEF Runs
  <2>2. listed = [run EXCEPT !.nodes = nodes, !.moved = moved]
    BY <1>5, <1>18, <1>20, <1>21, Zenon
  <2>. QED BY <2>1, <2>2
<1>7. listed \in Runs
  BY <1>3, <1>6, <1>20 DEF Runs
<1>8. PICK dir : dir = [run.dirs[home] EXCEPT !.configs = Append(run.dirs[home].configs, job.config)]  OBVIOUS
<1>23. PICK dirs : dirs = [run.dirs EXCEPT ![home] = dir]  OBVIOUS
<1>9. PICK agreed : agreed = IF Differs(run.dirs[home], job.config) THEN run.agreed \cup {Recipe(job.config)} ELSE run.agreed
  OBVIOUS
<1>10. PICK new : new = [home |-> home, config |-> job.config, step |-> Len(run.dirs[home].lineage)]  OBVIOUS
<1>22. PICK started :
          started = [listed EXCEPT
                       !.dirs[home].configs = Append(@, job.config),
                       !.job = [home |-> home, config |-> job.config, step |-> Len(run.dirs[home].lineage)],
                       !.agreed = IF Differs(run.dirs[home], job.config)
                                  THEN @ \cup {Recipe(job.config)} ELSE @]
  OBVIOUS
<1>4. next \in {run, listed, started}
  BY <1>21, <1>22, Zenon DEF Submit
<1>11. started = [dirs |-> dirs, nodes |-> nodes, job |-> new, agreed |-> agreed, moved |-> moved]
  <2>1. started = [listed EXCEPT !.dirs = dirs, !.job = new, !.agreed = agreed]
    BY <1>6, <1>8, <1>9, <1>10, <1>22, <1>23
  <2>. QED BY <1>6, <2>1
<1>12. /\ dirs[home] = [configs |-> Append(run.dirs[home].configs, job.config),
                        lineage |-> run.dirs[home].lineage, pulled |-> run.dirs[home].pulled]
       /\ dirs \in [Homes -> Dirs] /\ \A h \in Homes : h # home => dirs[h] = run.dirs[h]
  <2>1. run.dirs[home] = [configs |-> run.dirs[home].configs, lineage |-> run.dirs[home].lineage,
                          pulled |-> run.dirs[home].pulled]
    BY <1>3 DEF Dirs
  <2>2. dirs[home] = [configs |-> Append(run.dirs[home].configs, job.config),
                      lineage |-> run.dirs[home].lineage, pulled |-> run.dirs[home].pulled]
    <3>1. dirs[home] = dir
      BY <1>2, <1>3, <1>23
    <3>. QED BY <1>8, <2>1, <3>1
  <2>3. Append(run.dirs[home].configs, job.config) \in Seq(RunConfigs)
    BY <1>1, <1>3 DEF Dirs
  <2>4. dirs[home] \in Dirs
    BY <1>3, <2>2, <2>3 DEF Dirs
  <2>. QED BY <1>2, <1>3, <1>23, <2>2, <2>4
<1>13. /\ agreed \subseteq {Recipe(c) : c \in RunConfigs} /\ run.agreed \subseteq agreed
       /\ Differs(run.dirs[home], job.config) => Recipe(job.config) \in agreed
  BY <1>1, <1>9 DEF Runs
<1>14. new \in [home : Homes, config : RunConfigs, step : Nat]
  BY <1>1, <1>2, <1>3, <1>10 DEF Dirs
<1>15. started \in Runs
  BY <1>11, <1>12, <1>13, <1>14, <1>20 DEF Runs
<1>16. CASE next = listed
  <2>1. ~next.moved => ~run.moved /\ ~Misplaced(run, scratch, job.node)
    BY <1>6, <1>16, <1>19
  <2>. QED BY <1>2, <1>6, <1>7, <1>16, <1>20, <2>1
<1>17. CASE next = started
  <2>1. ~next.moved => ~run.moved /\ ~Misplaced(run, scratch, job.node)
    BY <1>11, <1>17, <1>19
  <2>2. Differs(run.dirs[home], job.config) => Recipe(job.config) \in next.agreed
    BY <1>11, <1>13, <1>17
  <2>. QED BY <1>2, <1>10, <1>11, <1>12, <1>13, <1>15, <1>17, <1>20, <2>1, <2>2
<1>. QED BY <1>2, <1>4, <1>16, <1>17

\* A submission is compared with what was saved, and placed by what is listed.
LEMMA SubmitKeeps ==
    ASSUME NEW scratch \in BOOLEAN, NEW run, RunInv(scratch, run), NEW job \in Jobs, run.job = NoJob
    PROVE  RunInv(scratch, Submit(run, scratch, job))
<1>. DEFINE home == Home(scratch, job.node)
            next == Submit(run, scratch, job)
            dir == run.dirs[home]
<1>1. run \in Runs /\ RecipeInv(run) /\ NodeInv(scratch, run)
  BY DEF RunInv
<1>2. /\ home \in Homes /\ next \in Runs
      /\ \/ next = run
         \/ /\ next.nodes = Append(run.nodes, job.node)
            /\ ~next.moved => ~run.moved /\ ~Misplaced(run, scratch, job.node)
            /\ \A h \in Homes : h # home => next.dirs[h] = run.dirs[h]
            /\ \/ next.dirs = run.dirs /\ next.job = NoJob /\ next.agreed = run.agreed
               \/ /\ next.dirs[home] = [configs |-> Append(dir.configs, job.config),
                                        lineage |-> dir.lineage, pulled |-> dir.pulled]
                  /\ next.job # NoJob => next.job.home = home /\ next.job.config = job.config
                  /\ run.agreed \subseteq next.agreed
                  /\ Differs(dir, job.config) => Recipe(job.config) \in next.agreed
  BY <1>1, SubmitIs
<1>3. dir = run.dirs[home] /\ home = Home(scratch, job.node)  OBVIOUS
<1>. HIDE DEF home, next, dir
<1>4. CASE next = run
  BY <1>1, <1>4 DEF RunInv, next
<1>5. CASE next # run
  <2>1. /\ run.dirs \in [Homes -> Dirs] /\ dir \in Dirs /\ next.dirs \in [Homes -> Dirs]
        /\ DOMAIN run.dirs = Homes /\ DOMAIN next.dirs = Homes
    BY <1>1, <1>2, <1>3 DEF Runs
  <2>2. /\ dir.configs \in Seq(RunConfigs) /\ dir.lineage \in Seq(RunConfigs)
        /\ job.config \in RunConfigs /\ job.node \in Nodes /\ run.nodes \in Seq(Nodes)
    BY <1>1, <2>1 DEF Dirs, Jobs, Runs
  <2>3. \A h \in Homes : /\ next.dirs[h].lineage = run.dirs[h].lineage
                         /\ next.dirs[h].pulled = run.dirs[h].pulled
    BY <1>2, <1>3, <1>5
  <2>4. run.agreed \subseteq next.agreed
    BY <1>2, <1>5
  <2>5. OneRecipe(next)
    BY <1>1, <2>1, <2>3, <2>4 DEF RecipeInv, OneRecipe
  <2>6. ASSUME NEW h \in Homes, next.dirs[h] = run.dirs[h] PROVE Compared(next, h)
    BY <1>1, <2>4, <2>6 DEF RecipeInv, Compared, Excused
  <2>7. ASSUME next.dirs = run.dirs /\ next.job = NoJob /\ next.agreed = run.agreed
        PROVE  RecipeInv(next)
    <3>1. \A h \in Homes : Compared(next, h)
      BY <2>6, <2>7
    <3>. QED BY <2>5, <2>7, <3>1 DEF RecipeInv
  <2>8. ASSUME /\ next.dirs[home] = [configs |-> Append(dir.configs, job.config),
                                     lineage |-> dir.lineage, pulled |-> dir.pulled]
               /\ next.job # NoJob => next.job.home = home /\ next.job.config = job.config
               /\ Differs(dir, job.config) => Recipe(job.config) \in next.agreed
        PROVE  RecipeInv(next)
    <3>1. /\ next.dirs[home].configs # <<>>
          /\ Last(next.dirs[home].configs) = job.config
      <4>1. next.dirs[home].configs = Append(dir.configs, job.config)
        BY <2>8
      <4>. QED BY <2>2, <4>1, OneMore
    <3>2. Compared(next, home)
      <4>. SUFFICES ASSUME dir.lineage # <<>>
                    PROVE  \/ Recipe(Last(dir.lineage)) = Recipe(job.config)
                           \/ Recipe(job.config) \in next.agreed
                           \/ \E p \in dir.pulled : p <= Len(dir.lineage)
        BY <1>2, <2>8, <3>1 DEF Compared, Excused
      <4>1. CASE Differs(dir, job.config)
        BY <2>8, <4>1
      <4>2. CASE dir.configs = <<>>
        BY <1>1, <1>2, <1>3, <4>2 DEF RecipeInv, Compared
      <4>3. CASE ~Differs(dir, job.config) /\ dir.configs # <<>>
        <5>1. Recipe(Last(dir.configs)) = Recipe(job.config)
          BY <4>3 DEF Differs, Tracked
        <5>2. \/ Recipe(Last(dir.lineage)) = Recipe(Last(dir.configs))
              \/ Recipe(Last(dir.configs)) \in run.agreed
              \/ \E p \in dir.pulled : p <= Len(dir.lineage)
          BY <1>1, <1>2, <1>3, <4>3 DEF RecipeInv, Compared, Excused
        <5>. QED BY <2>4, <5>1, <5>2
      <4>. QED BY <4>1, <4>2, <4>3
    <3>3. \A h \in Homes : Compared(next, h)
      BY <1>2, <1>5, <2>6, <3>2
    <3>4. next.job # NoJob => /\ next.dirs[next.job.home].configs # <<>>
                              /\ Last(next.dirs[next.job.home].configs) = next.job.config
      BY <2>8, <3>1
    <3>. QED BY <2>5, <3>3, <3>4 DEF RecipeInv
  <2>9. RecipeInv(next)
    BY <1>2, <1>5, <2>7, <2>8
  <2>10. NodeInv(scratch, next)
    <3>1. next.nodes # <<>> /\ Last(next.nodes) = job.node
      <4>1. next.nodes = Append(run.nodes, job.node)
        BY <1>2, <1>5
      <4>. QED BY <2>2, <4>1, OneMore
    <3>2. next.job # NoJob => next.job.home = home
      BY <1>2, <1>5
    <3>3. \A h \in Homes : Tracked(next.dirs[h]) <=> Tracked(run.dirs[h])
      BY <2>3 DEF Tracked
    <3>4. CASE scratch /\ ~next.moved
      <4>1. home = job.node /\ ~run.moved /\ ~Misplaced(run, scratch, job.node)
        BY <1>2, <1>3, <1>5, <3>4 DEF Home
      <4>2. ASSUME NEW h \in Homes, Tracked(run.dirs[h]) PROVE h = job.node
        <5>1. run.nodes # <<>> /\ h = Last(run.nodes)
          BY <1>1, <3>4, <4>1, <4>2 DEF NodeInv
        <5>2. Last(run.nodes) = job.node \/ Tracked(run.dirs[home])
          BY <1>3, <3>4, <4>1, <5>1 DEF Misplaced
        <5>3. CASE Tracked(run.dirs[home])
          BY <1>1, <1>2, <3>4, <4>1, <5>1, <5>3 DEF NodeInv
        <5>. QED BY <5>1, <5>2, <5>3
      <4>. QED BY <3>1, <3>2, <3>3, <3>4, <4>1, <4>2 DEF NodeInv
    <3>5. CASE ~scratch
      <4>1. home = "shared"
        BY <1>3, <3>5 DEF Home
      <4>. QED BY <1>1, <3>2, <3>3, <3>5, <4>1 DEF NodeInv
    <3>6. CASE scratch /\ next.moved
      BY <3>6 DEF NodeInv
    <3>. QED BY <3>4, <3>5, <3>6
  <2>. QED BY <1>2, <2>9, <2>10 DEF RunInv, next
<1>. QED BY <1>4, <1>5

\* A job saves under its own configuration, with which the newest checkpoint was compared.
LEMMA SaveKeeps ==
    ASSUME NEW scratch \in BOOLEAN, NEW run, RunInv(scratch, run), run.job # NoJob
    PROVE  RunInv(scratch, Save(run))
<1>. DEFINE next == Save(run)
            home == run.job.home
            dir == run.dirs[home]
<1>1. run \in Runs /\ RecipeInv(run) /\ NodeInv(scratch, run)
  BY DEF RunInv
<1>2. /\ run.job \in [home : Homes, config : RunConfigs, step : Nat]
      /\ run.dirs \in [Homes -> Dirs] /\ home \in Homes /\ dir \in Dirs
      /\ run.job.config \in RunConfigs
  BY <1>1 DEF Runs
<1>3. PICK l : l = Append(dir.lineage, run.job.config)  OBVIOUS
<1>4. /\ l \in Seq(RunConfigs) /\ l # <<>> /\ Len(l) = Len(dir.lineage) + 1 /\ Last(l) = run.job.config
      /\ \A i \in 1 .. Len(dir.lineage) : l[i] = dir.lineage[i]
      /\ dir.lineage \in Seq(RunConfigs) /\ Len(dir.lineage) \in Nat
  <2>1. dir.lineage \in Seq(RunConfigs) /\ Len(dir.lineage) \in Nat
    BY <1>2 DEF Dirs
  <2>2. PICK s \in Seq(RunConfigs), e \in RunConfigs : s = dir.lineage /\ e = run.job.config
    BY <1>2, <2>1
  <2>. QED BY <1>3, <2>1, <2>2, OneMore
<1>5. PICK saved : saved = [dir EXCEPT !.lineage = l]  OBVIOUS
<1>6. saved = [configs |-> dir.configs, lineage |-> l, pulled |-> dir.pulled] /\ saved \in Dirs
  BY <1>2, <1>4, <1>5 DEF Dirs
<1>7. PICK dirs : dirs = [run.dirs EXCEPT ![home] = saved]  OBVIOUS
<1>8. /\ dirs \in [Homes -> Dirs] /\ dirs[home] = saved
      /\ \A h \in Homes : h # home => dirs[h] = run.dirs[h]
  BY <1>2, <1>6, <1>7
<1>9. PICK job : job = [run.job EXCEPT !.step = @ + 1]  OBVIOUS
<1>10. /\ job \in [home : Homes, config : RunConfigs, step : Nat]
       /\ job.home = home /\ job.config = run.job.config
  BY <1>2, <1>9
<1>11. next = [run EXCEPT !.dirs = dirs, !.job = job]
  BY <1>3, <1>5, <1>7, <1>9 DEF Save
<1>. HIDE DEF next, home, dir
<1>12. /\ next.dirs = dirs /\ next.nodes = run.nodes /\ next.job = job
       /\ next.agreed = run.agreed /\ next.moved = run.moved /\ next \in Runs
  BY <1>1, <1>8, <1>10, <1>11 DEF Runs
<1>13. dir = run.dirs[home] /\ home = run.job.home
  BY DEF dir, home
<1>14. /\ dir.configs # <<>> /\ Last(dir.configs) = run.job.config
       /\ Compared(run, home) /\ OneRecipe(run)
  BY <1>1, <1>2, <1>13 DEF RecipeInv
<1>15. dir.lineage # <<>> =>
         \/ Recipe(Last(dir.lineage)) = Recipe(run.job.config)
         \/ Excused(run, home, Len(dir.lineage), Recipe(run.job.config))
  BY <1>13, <1>14 DEF Compared
<1>16. OneRecipe(next)
  <2>. SUFFICES ASSUME NEW h \in Homes, NEW i \in 1 .. Len(dirs[h].lineage) - 1
                PROVE  \/ Recipe(dirs[h].lineage[i]) = Recipe(dirs[h].lineage[i + 1])
                       \/ Recipe(dirs[h].lineage[i + 1]) \in run.agreed
                       \/ \E p \in dirs[h].pulled : p <= i
    BY <1>8, <1>12 DEF OneRecipe
  <2>1. \A n \in 1 .. Len(run.dirs[h].lineage) - 1 :
            \/ Recipe(run.dirs[h].lineage[n]) = Recipe(run.dirs[h].lineage[n + 1])
            \/ Recipe(run.dirs[h].lineage[n + 1]) \in run.agreed
            \/ \E p \in run.dirs[h].pulled : p <= n
    BY <1>2, <1>14 DEF OneRecipe
  <2>2. CASE h # home
    BY <1>8, <2>1, <2>2
  <2>3. CASE h = home /\ i < Len(dir.lineage)
    <3>1. /\ i \in 1 .. Len(dir.lineage) - 1 /\ i \in 1 .. Len(dir.lineage)
          /\ i + 1 \in 1 .. Len(dir.lineage)
      BY <1>4, <1>6, <1>8, <2>3
    <3>. QED BY SMTT(20), <1>4, <1>6, <1>8, <1>13, <2>1, <2>3, <3>1
  <2>4. CASE h = home /\ ~(i < Len(dir.lineage))
    <3>1. i = Len(dir.lineage) /\ i \in 1 .. Len(dir.lineage) /\ i + 1 = Len(l)
      BY <1>4, <1>6, <1>8, <2>4
    <3>2. /\ dirs[h].lineage[i] = Last(dir.lineage) /\ dirs[h].lineage[i + 1] = run.job.config
          /\ dir.lineage # <<>> /\ dirs[h].pulled = dir.pulled
      BY <1>4, <1>6, <1>8, <2>4, <3>1 DEF Last
    <3>. QED BY <1>13, <1>15, <2>4, <3>1, <3>2 DEF Excused
  <2>. QED BY <2>2, <2>3, <2>4
<1>17. ASSUME NEW h \in Homes PROVE Compared(next, h)
  <2>1. CASE h = home
    BY <1>4, <1>6, <1>8, <1>12, <1>14, <2>1 DEF Compared
  <2>2. CASE h # home
    <3>1. Compared(run, h) /\ next.dirs[h] = run.dirs[h] /\ next.agreed = run.agreed
      BY <1>1, <1>8, <1>12, <2>2 DEF RecipeInv
    <3>. QED BY <3>1 DEF Compared, Excused
  <2>. QED BY <2>1, <2>2
<1>18. RecipeInv(next)
  BY <1>6, <1>8, <1>10, <1>12, <1>14, <1>16, <1>17 DEF RecipeInv
<1>19. NodeInv(scratch, next)
  <2>1. ASSUME NEW h \in Homes, Tracked(next.dirs[h]) PROVE h = home \/ Tracked(run.dirs[h])
    BY <1>8, <1>12, <2>1
  <2>. QED BY <1>1, <1>10, <1>12, <1>13, <2>1 DEF NodeInv
<1>. QED BY <1>12, <1>18, <1>19 DEF RunInv, next

\* A job that ends, and a session that begins with a pull, leave the checkpoints as they are.
LEMMA EndKeeps ==
    ASSUME NEW scratch \in BOOLEAN, NEW run, RunInv(scratch, run)
    PROVE  RunInv(scratch, End(run))
<1>1. run \in Runs /\ RecipeInv(run) /\ NodeInv(scratch, run)
  BY DEF RunInv
<1>2. PICK next : next = End(run)  OBVIOUS
<1>3. /\ next \in Runs /\ next.dirs = run.dirs /\ next.nodes = run.nodes /\ next.job = NoJob
      /\ next.agreed = run.agreed /\ next.moved = run.moved
  BY <1>1, <1>2 DEF End, Runs
<1>4. OneRecipe(next) /\ \A h \in Homes : Compared(next, h)
  BY <1>1, <1>3 DEF RecipeInv, OneRecipe, Compared, Excused
<1>5. RecipeInv(next) /\ NodeInv(scratch, next)
  BY <1>1, <1>3, <1>4 DEF RecipeInv, NodeInv
<1>. QED BY <1>2, <1>3, <1>5 DEF RunInv

\* A new session keeps the run's invariant.
LEMMA SessionKeeps ==
    ASSUME NEW scratch \in BOOLEAN, NEW run, RunInv(scratch, run), run.job = NoJob
    PROVE  RunInv(scratch, Session(run))
<1>. DEFINE next == Session(run)
            dir == run.dirs["shared"]
<1>1. run \in Runs /\ RecipeInv(run) /\ NodeInv(scratch, run)
  BY DEF RunInv
<1>2. run.dirs \in [Homes -> Dirs] /\ "shared" \in Homes /\ dir \in Dirs /\ Len(dir.lineage) \in Nat
  BY <1>1 DEF Runs, Homes, Dirs
<1>3. PICK new : new = [dir EXCEPT !.configs = <<>>, !.pulled = @ \cup {Len(dir.lineage)}]  OBVIOUS
<1>4. /\ new = [configs |-> <<>>, lineage |-> dir.lineage, pulled |-> dir.pulled \cup {Len(dir.lineage)}]
      /\ new \in Dirs
  <2>1. <<>> \in Seq(RunConfigs)  OBVIOUS
  <2>. QED BY <1>2, <1>3, <2>1 DEF Dirs
<1>5. PICK dirs : dirs = [run.dirs EXCEPT !["shared"] = new]  OBVIOUS
<1>6. /\ dirs \in [Homes -> Dirs] /\ dirs["shared"] = new
      /\ \A h \in Homes : h # "shared" => dirs[h] = run.dirs[h]
  BY <1>2, <1>4, <1>5
<1>7. next = [run EXCEPT !.dirs = dirs]
  BY <1>2, <1>3, <1>5 DEF Session
<1>. HIDE DEF next, dir
<1>8. /\ next.dirs = dirs /\ next.nodes = run.nodes /\ next.job = NoJob
      /\ next.agreed = run.agreed /\ next.moved = run.moved /\ next \in Runs
  BY <1>1, <1>6, <1>7 DEF Runs
<1>9. dir = run.dirs["shared"]
  BY DEF dir
<1>10. \A h \in Homes : /\ dirs[h].lineage = run.dirs[h].lineage
                        /\ run.dirs[h].pulled \subseteq dirs[h].pulled
  BY <1>4, <1>6, <1>9
<1>11. OneRecipe(next)
  BY <1>1, <1>2, <1>6, <1>8, <1>10 DEF RecipeInv, OneRecipe
<1>12. ASSUME NEW h \in Homes PROVE Compared(next, h)
  <2>1. CASE h = "shared"
    BY <1>2, <1>4, <1>6, <1>8, <2>1 DEF Compared
  <2>2. CASE h # "shared"
    <3>1. Compared(run, h) /\ next.dirs[h] = run.dirs[h] /\ next.agreed = run.agreed
      BY <1>1, <1>6, <1>8, <2>2 DEF RecipeInv
    <3>. QED BY <3>1 DEF Compared, Excused
  <2>. QED BY <2>1, <2>2
<1>13. RecipeInv(next) /\ NodeInv(scratch, next)
  BY <1>1, <1>8, <1>10, <1>11, <1>12 DEF RecipeInv, NodeInv, Tracked
<1>. QED BY <1>8, <1>13 DEF RunInv, next

\* What keeps checkpoints of one run on one node.
LEMMA NodeInvIsOneNode ==
    ASSUME NEW scratch \in BOOLEAN, NEW run, RunInv(scratch, run)
    PROVE  OneNode(run)
<1>. DEFINE where == {h \in DOMAIN run.dirs : Tracked(run.dirs[h])}
<1>1. DOMAIN run.dirs = Homes
  BY DEF RunInv, Runs
<1>2. CASE ~run.moved
  <2>1. \A h, g \in where : h = g
    BY <1>1, <1>2 DEF RunInv, NodeInv
  <2>2. CASE where = {}
    BY <2>2, FS_EmptySet DEF OneNode
  <2>3. CASE where # {}
    <3>1. PICK h : where = {h}
      BY <2>1, <2>3
    <3>2. Cardinality(where) = 1
      BY <3>1, FS_Singleton
    <3>. QED BY <3>2 DEF OneNode
  <2>. QED BY <2>2, <2>3
<1>3. CASE run.moved
  BY <1>3 DEF OneNode
<1>. QED BY <1>2, <1>3

\* check_resume looks at the step that follows the kill, whether or not steps were logged again,
\* and finds fault with it exactly when it is not the one after the last checkpoint.
THEOREM TheVerdictIsAboutTheSeam ==
    ASSUME NEW stopped \in Nat \ {0}, NEW from \in Nat \ {0}, NEW args,
           args.killedAt \in Nat, args.saveFreq \in Nat \ {0}, args.finalStep \in Nat,
           from <= args.finalStep, args.killedAt <= stopped
    PROVE  ResumeVerdict(Resumed(stopped, from, args), stopped + 1, args.finalStep, args) = {}
             <=> from = LastCheckpoint(args.killedAt, args.saveFreq) + 1
<1>. DEFINE rows == Resumed(stopped, from, args)
            n == stopped + (args.finalStep - from + 1)
<1>1. /\ n \in Nat /\ stopped < n
      /\ rows = [i \in 1 .. n |-> [step |-> IF i <= stopped THEN i ELSE from + (i - stopped - 1),
                                   time |-> i]]
  BY DEF Resumed
<1>. HIDE DEF rows, n
<1>2. DOMAIN rows = 1 .. n /\ Len(rows) = n /\ rows # <<>>
  <2>1. rows \in Seq([step : Int, time : Int])
    BY <1>1
  <2>2. DOMAIN rows = 1 .. n /\ DOMAIN rows = 1 .. Len(rows) /\ Len(rows) \in Nat
    BY <1>1, <2>1
  <2>3. Len(rows) = n
    BY <1>1, <2>2
  <2>4. 1 \in DOMAIN rows
    BY <1>1, <2>2
  <2>. QED BY <2>2, <2>3, <2>4
<1>3. /\ \A i \in 1 .. n : rows[i].time = i
      /\ \A i \in 1 .. n : i <= stopped => rows[i].step = i
      /\ \A i \in 1 .. n : i > stopped => rows[i].step = from + (i - stopped - 1)
  BY <1>1
<1>8. PICK late : late = {i \in DOMAIN rows : rows[i].time >= stopped + 1}  OBVIOUS
<1>4. FindRestart(rows, stopped + 1) = stopped + 1
  <2>1. Backwards(rows) \subseteq {stopped + 1}
    BY <1>1, <1>2, <1>3 DEF Backwards
  <2>2. CASE Backwards(rows) # {}
    <3>1. Backwards(rows) = {stopped + 1}
      BY <2>1, <2>2
    <3>2. Least(Backwards(rows)) = stopped + 1
      BY <3>1 DEF Least
    <3>. QED BY <2>2, <3>2 DEF FindRestart
  <2>3. CASE Backwards(rows) = {}
    <3>1. late = (stopped + 1) .. n
      BY <1>1, <1>2, <1>3, <1>8
    <3>2. stopped + 1 \in late /\ \A i \in late : stopped + 1 <= i
      BY <1>1, <3>1
    <3>3. Least(late) = stopped + 1
      <4>1. ASSUME NEW i \in late, \A j \in late : i <= j PROVE i = stopped + 1
        <5>1. i \in Int /\ i <= stopped + 1 /\ stopped + 1 <= i
          BY <3>1, <3>2, <4>1
        <5>. QED BY <5>1
      <4>. QED BY <3>2, <4>1 DEF Least
    <3>4. stopped + 1 # 0 /\ late # {} /\ Least(late) # 1
      BY <3>2, <3>3
    <3>. QED BY <1>8, <2>3, <3>3, <3>4 DEF FindRestart
  <2>. QED BY <2>2, <2>3
<1>9. PICK restart : restart = FindRestart(rows, stopped + 1)  OBVIOUS
<1>5. /\ rows[restart - 1].step = stopped /\ rows[restart].step = from /\ restart # 0
      /\ Last(rows).step = args.finalStep
  <2>1. restart - 1 = stopped /\ restart = stopped + 1 /\ stopped \in 1 .. n /\ stopped + 1 \in 1 .. n
    BY <1>1, <1>4, <1>9
  <2>2. rows[stopped].step = stopped /\ rows[stopped + 1].step = from
    BY <1>3, <2>1
  <2>3. rows[n].step = args.finalStep
    BY <1>1, <1>3 DEF n
  <2>. QED BY <1>2, <2>1, <2>2, <2>3 DEF Last
<1>6. PICK last : last = LastCheckpoint(args.killedAt, args.saveFreq)  OBVIOUS
<1>7. ResumeVerdict(rows, stopped + 1, args.finalStep, args) =
        IF from # last + 1 THEN {"started elsewhere"} ELSE {}
  <2>1. ~(stopped < args.killedAt) /\ stopped + 1 # 0  OBVIOUS
  <2>. QED BY <1>2, <1>5, <1>6, <1>9, <2>1 DEF ResumeVerdict
<1>. QED BY <1>6, <1>7 DEF rows

\* A resumption as TakeResume makes it.
IsResume ==
    /\ input.stopped \in Nat \ {0} /\ input.from \in Nat \ {0}
    /\ input.args.killedAt \in Nat /\ input.args.saveFreq \in Nat \ {0} /\ input.args.finalStep \in Nat
    /\ input.from <= input.args.finalStep

Continued ==
    /\ Named
    /\ input.of = "run" =>
         /\ input = [of |-> "run", scratch |-> input.scratch, run |-> input.run]
         /\ input.scratch \in BOOLEAN /\ RunInv(input.scratch, input.run)
    /\ input.of = "resume" => IsResume

\* Whatever is submitted, allowed, killed or pulled, two neighbouring checkpoints of a run are of
\* one recipe, and its checkpoints on one node, unless a user was asked or a pull left nothing to
\* compare with; and check_resume tells a resumption at the last checkpoint from any other.
THEOREM RunsAreContinuedAlways == Spec => []RunsAreContinued
<1>1. Init => Continued
  BY NamedInit DEF Continued
<1>2. ASSUME Continued, Next PROVE Continued'
  <2>0. Named
    BY <1>2 DEF Continued
  <2>1. Named' /\ (input'.of = "resume" => TakeResume)
    BY <1>2, <2>0, StepsByName
  <2>2. ASSUME input'.of = "resume" PROVE IsResume'
    <3>1. TakeResume
      BY <2>1, <2>2
    <3>2. PICK killedAt \in 1 .. 7, saveFreq \in 1 .. 3, stopped \in 1 .. 8, from \in 1 .. 9 :
              input' = [of |-> "resume", stopped |-> stopped, from |-> from,
                        args |-> [killedAt |-> killedAt, saveFreq |-> saveFreq, finalStep |-> 9]]
      BY <3>1 DEF TakeResume
    <3>. QED BY <3>2 DEF IsResume
  <2>3. ASSUME input'.of = "run"
        PROVE  /\ input' = [of |-> "run", scratch |-> input'.scratch, run |-> input'.run]
               /\ input'.scratch \in BOOLEAN /\ RunInv(input'.scratch, input'.run)
    <3>1. CASE \E s \in BOOLEAN : input' = [of |-> "run", scratch |-> s, run |-> NewRun(Nodes)]
      BY <3>1, NewRunIs
    <3>2. ASSUME input.of = "run", NEW run, input' = [input EXCEPT !.run = run],
                 RunInv(input.scratch, run)
          PROVE  /\ input' = [of |-> "run", scratch |-> input'.scratch, run |-> input'.run]
                 /\ input'.scratch \in BOOLEAN /\ RunInv(input'.scratch, input'.run)
      BY <1>2, <3>2 DEF Continued
    <3>3. input.of = "run" => input.scratch \in BOOLEAN /\ RunInv(input.scratch, input.run)
      BY <1>2 DEF Continued
    <3>4. CASE SubmitJob
      <4>1. PICK job \in Jobs : /\ input.of = "run" /\ input.run.job = NoJob
                                /\ input' = [input EXCEPT !.run = Submit(@, input.scratch, job)]
        BY <3>4 DEF SubmitJob
      <4>. QED BY <3>2, <3>3, <4>1, SubmitKeeps
    <3>5. CASE SaveStep
      <4>1. /\ input.of = "run" /\ input.run.job # NoJob
            /\ input' = [input EXCEPT !.run = Save(@)]
        BY <3>5 DEF SaveStep
      <4>. QED BY <3>2, <3>3, <4>1, SaveKeeps
    <3>6. CASE EndJob
      BY <3>2, <3>3, <3>6, EndKeeps DEF EndJob
    <3>7. CASE NewSession
      BY <3>2, <3>3, <3>7, SessionKeeps DEF NewSession
    <3>. QED BY <1>2, <2>0, <2>3, <3>1, <3>4, <3>5, <3>6, <3>7, StepsByName
  <2>. QED BY <2>1, <2>2, <2>3 DEF Continued
<1>3. ASSUME Continued, UNCHANGED input PROVE Continued'
  BY <1>3 DEF Continued, Named, IsResume
<1>4. Continued /\ [Next]_input => Continued'
  BY <1>2, <1>3
<1>5. ASSUME Continued PROVE RunsAreContinued
  <2>1. ASSUME input.of = "run" PROVE OneRecipe(input.run) /\ OneNode(input.run)
    BY <1>5, <2>1, NodeInvIsOneNode DEF Continued, RunInv, RecipeInv
  <2>2. ASSUME input.of = "resume" PROVE ResumeIsJudged(input.stopped, input.from, input.args)
    <3>1. PICK stopped, from, args : stopped = input.stopped /\ from = input.from /\ args = input.args
      OBVIOUS
    <3>2. /\ stopped \in Nat \ {0} /\ from \in Nat \ {0} /\ args.killedAt \in Nat
          /\ args.saveFreq \in Nat \ {0} /\ args.finalStep \in Nat /\ from <= args.finalStep
      BY <1>5, <2>2, <3>1 DEF Continued, IsResume
    <3>3. ASSUME args.killedAt <= stopped
          PROVE  ResumeVerdict(Resumed(stopped, from, args), stopped + 1, args.finalStep, args) = {}
                   <=> from = LastCheckpoint(args.killedAt, args.saveFreq) + 1
      BY <3>2, <3>3, TheVerdictIsAboutTheSeam
    <3>4. ResumeIsJudged(stopped, from, args)
      BY <3>3 DEF ResumeIsJudged
    <3>. QED BY <3>1, <3>4
  <2>. QED BY <2>1, <2>2 DEF RunsAreContinued
<1>. QED BY <1>1, <1>4, <1>5, PTL DEF Spec

-----------------------------------------------------------------------------
(* The CUTS operator.                                                        *)

\* A vocabulary, and what CutsParams.__post_init__ lets through.
IsRow(row) == IsFiniteSet(DOMAIN row) /\ DOMAIN row # {} /\ \A t \in DOMAIN row : row[t] \in Nat
IsParams(p) == p.k \in Nat \ {0} /\ p.delta \in Nat /\ p.fallback \in {"topk", "argmax"}

\* The three ways in which an outcome comes from a selection.
IsFrom(row, p, S, r) ==
    \/ Survive(row, S, p.delta) # {} /\ r = Result(Survive(row, S, p.delta), FALSE)
    \/ Survive(row, S, p.delta) = {} /\ p.fallback = "topk" /\ r = Result(S, TRUE)
    \/ /\ Survive(row, S, p.delta) = {} /\ p.fallback # "topk"
       /\ \E t \in Argmaxes(row, S) : r = Result({t}, TRUE)

\* What SELECT takes is not empty and no larger than k.
LEMMA Selection ==
    ASSUME NEW row, IsRow(row), NEW k \in Nat \ {0}, NEW S \in TopK(row, k)
    PROVE  /\ S # {} /\ S \subseteq DOMAIN row /\ IsFiniteSet(S)
           /\ Cardinality(S) \in Nat /\ Cardinality(S) <= k
           /\ \A t \in S : \A u \in DOMAIN row \ S : row[u] <= row[t]
<1>1. /\ S \subseteq DOMAIN row
      /\ Cardinality(S) = AtMost(k, Cardinality(DOMAIN row))
      /\ \A t \in S : \A u \in DOMAIN row \ S : row[u] <= row[t]
  BY DEF TopK
<1>2. Cardinality(DOMAIN row) \in Nat /\ Cardinality(DOMAIN row) # 0
  BY FS_CardinalityType, FS_EmptySet DEF IsRow
<1>3. IsFiniteSet(S)
  BY <1>1, FS_Subset DEF IsRow
<1>4. Cardinality(S) \in Nat /\ Cardinality(S) <= k /\ Cardinality(S) # 0
  BY <1>1, <1>2 DEF AtMost
<1>5. S # {}
  BY <1>4, FS_EmptySet
<1> QED  BY <1>1, <1>3, <1>4, <1>5

\* Every outcome comes from a selection.
LEMMA Outcomes ==
    ASSUME NEW row, NEW p, NEW r \in CutsTransform(row, p)
    PROVE  \E S \in TopK(row, p.k) : IsFrom(row, p, S, r)
<1>1. PICK S \in TopK(row, p.k) :
        r \in (LET passed == Survive(row, S, p.delta)
               IN  IF passed # {} THEN {Result(passed, FALSE)}
                   ELSE IF p.fallback = "topk" THEN {Result(S, TRUE)}
                   ELSE {Result({t}, TRUE) : t \in Argmaxes(row, S)})
  BY DEF CutsTransform
<1> QED  BY <1>1 DEF IsFrom

\* cuts_transform never returns an empty set, and never drops a token for a less likely one:
\* "the set is never empty, and the argmax token always survives".
THEOREM TheLikeliestSurvive ==
    ASSUME NEW row, IsRow(row), NEW p, IsParams(p)
    PROVE  LikeliestSurvive(row, p)
<1> SUFFICES ASSUME NEW r \in CutsTransform(row, p)
             PROVE  /\ r.survivors # {}
                    /\ \A t \in r.survivors : \A u \in DOMAIN row \ r.survivors : row[u] <= row[t]
  BY DEF LikeliestSurvive
<1>1. PICK S \in TopK(row, p.k) : IsFrom(row, p, S, r)
  BY Outcomes
<1>2. S # {} /\ S \subseteq DOMAIN row /\ \A t \in S : \A u \in DOMAIN row \ S : row[u] <= row[t]
  BY Selection DEF IsParams
<1>3. CASE Survive(row, S, p.delta) # {} /\ r = Result(Survive(row, S, p.delta), FALSE)
  <2>1. r.survivors = Survive(row, S, p.delta)
  BY <1>3 DEF Result
<2>2. \A t \in Survive(row, S, p.delta) : \A u \in DOMAIN row \ Survive(row, S, p.delta) :
        row[u] <= row[t]
  BY <1>2 DEF Survive, IsRow, IsParams
<2> QED  BY <1>3, <2>1, <2>2
<1>4. CASE r = Result(S, TRUE)
  BY <1>2, <1>4 DEF Result
<1>5. CASE \E t \in Argmaxes(row, S) : r = Result({t}, TRUE)
  <2>1. PICK t \in Argmaxes(row, S) : r = Result({t}, TRUE)
  BY <1>5
<2>2. r.survivors = {t} /\ t \in S /\ \A u \in S : row[u] <= row[t]
  BY <2>1 DEF Result, Argmaxes
<2> QED  BY <1>2, <2>2
<1> QED  BY <1>1, <1>3, <1>4, <1>5 DEF IsFrom

\* The set that is sampled from has between 1 and k members, and set_size counts them.
THEOREM SetSizeIsBetweenOneAndK ==
    ASSUME NEW row, IsRow(row), NEW p, IsParams(p), NEW r \in CutsTransform(row, p)
    PROVE  r.setSize = Cardinality(r.survivors) /\ r.setSize \in 1 .. p.k
<1>1. PICK S \in TopK(row, p.k) : IsFrom(row, p, S, r)
  BY Outcomes
<1>2. S # {} /\ IsFiniteSet(S) /\ Cardinality(S) \in Nat /\ Cardinality(S) <= p.k
  BY Selection DEF IsParams
<1>3. r.setSize = Cardinality(r.survivors) /\ r.survivors \subseteq S
  <2>1. \A T, f : Result(T, f).setSize = Cardinality(Result(T, f).survivors) /\ Result(T, f).survivors = T
  BY DEF Result
<2>2. \E T, f : r = Result(T, f) /\ T \subseteq S
  <3>1. Survive(row, S, p.delta) \subseteq S /\ \A t \in Argmaxes(row, S) : {t} \subseteq S
    BY DEF Survive, Argmaxes
  <3> QED  BY <1>1, <3>1 DEF IsFrom
<2> QED  BY <2>1, <2>2
<1>4. r.survivors # {}
  BY TheLikeliestSurvive DEF LikeliestSurvive
<1>5. IsFiniteSet(r.survivors) /\ Cardinality(r.survivors) <= Cardinality(S)
  BY <1>2, <1>3, FS_Subset
<1>6. Cardinality(r.survivors) \in Nat /\ Cardinality(r.survivors) # 0
  BY <1>4, <1>5, FS_CardinalityType, FS_EmptySet
<1> QED  BY <1>2, <1>3, <1>5, <1>6 DEF IsParams

\* The statistics do not depend on how torch.topk breaks ties: used_fallback says that no token of
\* the row reaches delta, and set_size how many do, up to the k that are taken.
THEOREM StatsTellTheRow ==
    ASSUME NEW row, IsRow(row), NEW p, IsParams(p)
    PROVE  StatsAreOfTheRow(row, p)
<1>. DEFINE Reach == {t \in DOMAIN row : row[t] >= p.delta}
            reach == Cardinality(Reach)
            k == AtMost(p.k, Cardinality(DOMAIN row))
<1>. SUFFICES ASSUME NEW r \in CutsTransform(row, p)
              PROVE  /\ r.usedFallback = (reach = 0)
                     /\ r.setSize = IF reach > 0 THEN AtMost(reach, k)
                                    ELSE IF p.fallback = "topk" THEN k ELSE 1
  BY DEF StatsAreOfTheRow
<1>1. PICK S \in TopK(row, p.k) : IsFrom(row, p, S, r)
  BY Outcomes
<1>2. /\ S # {} /\ S \subseteq DOMAIN row /\ IsFiniteSet(S) /\ Cardinality(S) = k /\ k \in Nat
      /\ \A t \in S : \A u \in DOMAIN row \ S : row[u] <= row[t]
  BY Selection DEF IsParams, TopK
<1>3. IsFiniteSet(Reach) /\ reach \in Nat /\ (reach = 0 <=> Reach = {})
  BY FS_Subset, FS_CardinalityType, FS_EmptySet DEF IsRow
<1>4. Survive(row, S, p.delta) = S \cap Reach
  BY <1>2 DEF Survive
<1>5. S \subseteq Reach \/ Reach \subseteq S
  <2>. SUFFICES ASSUME NEW u \in Reach, u \notin S, NEW t \in S PROVE t \in Reach  OBVIOUS
  <2>1. row[u] <= row[t] /\ row[u] >= p.delta
    BY <1>2
  <2>2. row[u] \in Nat /\ row[t] \in Nat /\ p.delta \in Nat /\ t \in DOMAIN row
    BY <1>2 DEF IsRow, IsParams
  <2>. QED BY <2>1, <2>2
<1>6. IsFiniteSet(S \cap Reach) /\ (S \cap Reach = {} <=> Reach = {})
  BY <1>2, <1>3, <1>5, FS_Subset
<1>7. Cardinality(S \cap Reach) = AtMost(reach, k)
  <2>1. CASE S \subseteq Reach
    <3>1. S \cap Reach = S /\ k <= reach
      BY <1>2, <1>3, <2>1, FS_Subset
    <3>. QED BY <1>2, <1>3, <3>1 DEF AtMost
  <2>2. CASE Reach \subseteq S
    <3>1. S \cap Reach = Reach /\ reach <= k
      BY <1>2, <1>3, <2>2, FS_Subset
    <3>. QED BY <1>2, <1>3, <3>1 DEF AtMost
  <2>. QED BY <1>5, <2>1, <2>2
<1>. HIDE DEF Reach, reach, k
<1>8. CASE Survive(row, S, p.delta) # {}
  <2>1. r = Result(S \cap Reach, FALSE)
    BY <1>1, <1>4, <1>8 DEF IsFrom
  <2>2. reach # 0 /\ reach > 0
    BY <1>3, <1>4, <1>6, <1>8
  <2>. QED BY <1>7, <2>1, <2>2 DEF Result
<1>9. CASE Survive(row, S, p.delta) = {}
  <2>1. reach = 0 /\ ~(reach > 0)
    BY <1>3, <1>4, <1>6, <1>9
  <2>2. CASE p.fallback = "topk"
    <3>1. r = Result(S, TRUE)
      BY <1>1, <1>9, <2>2 DEF IsFrom
    <3>. QED BY <1>2, <2>1, <2>2, <3>1 DEF Result
  <2>3. CASE p.fallback # "topk"
    <3>1. PICK t : r = Result({t}, TRUE)
      BY <1>1, <1>9, <2>3 DEF IsFrom
    <3>2. Cardinality({t}) = 1
      BY FS_Singleton
    <3>. QED BY <2>1, <2>3, <3>1, <3>2 DEF Result
  <2>. QED BY <2>2, <2>3
<1>. QED BY <1>8, <1>9

\* A row and parameters as TakeRow takes them.
Selectable ==
    /\ Named
    /\ input.of = "row" => input.row \in Rows /\ input.p \in Params

\* What the two theorems say of one row holds of every row, k, delta and fallback of the run,
\* for any vocabulary that is finite and not empty.
THEOREM CutsAlwaysTakesTheLikeliest == Spec => []CutsTakesTheLikeliest
<1>1. Init => Selectable
  BY NamedInit DEF Selectable
<1>2. ASSUME Selectable, Next PROVE Selectable'
  <2>1. Named' /\ (input'.of = "row" => TakeRow)
    BY <1>2, StepsByName DEF Selectable
  <2>2. TakeRow => input'.row \in Rows /\ input'.p \in Params
    BY DEF TakeRow
  <2>. QED BY <2>1, <2>2 DEF Selectable
<1>3. ASSUME Selectable, UNCHANGED input PROVE Selectable'
  BY <1>3 DEF Selectable, Named
<1>4. Selectable /\ [Next]_input => Selectable'
  BY <1>2, <1>3
<1>5. Selectable => CutsTakesTheLikeliest
  <2>1. \A row \in Rows : IsRow(row)
    BY TokensAssumption DEF Rows, IsRow
  <2>2. \A p \in Params : IsParams(p)
    BY DEF Params, IsParams
  <2>. QED BY <2>1, <2>2, TheLikeliestSurvive, StatsTellTheRow DEF Selectable, CutsTakesTheLikeliest
<1>. QED BY <1>1, <1>4, <1>5, PTL DEF Spec

-----------------------------------------------------------------------------
(* The patches.                                                              *)

Workers(tag) ==
    [finders : SUBSET Targets, loaded : SUBSET Targets, wraps : [Targets -> Nat], hooked : BOOLEAN,
     lost : SUBSET Targets, path : [Targets -> [tags : Seq({tag}), job : {"none", "01000000"}]]]

OwnPath(path, tag) == path = NoPath \/ path.tags = IF tag = <<>> THEN <<>> ELSE <<tag>>

\* A class is wrapped once at most; after the hook, each that was not lost is wrapped or has a
\* finder that waits for it; and nothing is made of a class before its module is loaded.
WorkerInv(worker, tag) ==
    /\ worker \in Workers(tag)
    /\ \A t \in Targets :
          /\ worker.wraps[t] <= 1
          /\ t \notin worker.loaded => worker.wraps[t] = 0 /\ worker.path[t] = NoPath
          /\ worker.hooked /\ t \in worker.loaded \ worker.lost => worker.wraps[t] = 1
          /\ worker.hooked /\ t \notin worker.loaded \cup worker.lost => t \in worker.finders
          /\ t \notin worker.lost => OwnPath(worker.path[t], tag)

\* A worker starts without hook, imports or sockets.
LEMMA NewWorkerIs == ASSUME NEW tag PROVE WorkerInv(NewWorker, tag)
<1>1. <<>> \in Seq({tag})  OBVIOUS
<1>2. NoPath \in [tags : Seq({tag}), job : {"none", "01000000"}]
  BY <1>1 DEF NoPath
<1>. QED BY <1>2 DEF NewWorker, WorkerInv, Workers, OwnPath

\* What wrapping a class changes.
LEMMA WrapIs ==
    ASSUME NEW tag, NEW worker \in Workers(tag), NEW t \in Targets, worker.wraps[t] <= 1,
           NEW next, next = WrapInit(worker, t)
    PROVE  /\ next \in Workers(tag)
           /\ next.finders = worker.finders /\ next.loaded = worker.loaded /\ next.hooked = worker.hooked
           /\ next.lost = worker.lost /\ next.path = worker.path
           /\ next.wraps[t] = 1 /\ \A u \in Targets : u # t => next.wraps[u] = worker.wraps[u]
<1>1. worker.wraps \in [Targets -> Nat] /\ worker.wraps[t] \in Nat
  BY DEF Workers
<1>2. CASE worker.wraps[t] > 0
  BY <1>1, <1>2 DEF WrapInit
<1>3. CASE ~(worker.wraps[t] > 0)
  <2>1. PICK wraps : wraps = [worker.wraps EXCEPT ![t] = @ + 1]  OBVIOUS
  <2>2. /\ wraps \in [Targets -> Nat] /\ wraps[t] = 1
        /\ \A u \in Targets : u # t => wraps[u] = worker.wraps[u]
    BY <1>1, <1>3, <2>1
  <2>3. next = [worker EXCEPT !.wraps = wraps]
    BY <1>3, <2>1 DEF WrapInit
  <2>. QED BY <2>2, <2>3 DEF Workers
<1>. QED BY <1>2, <1>3

\* What the hook does for one class.
LEMMA InstallOneIs ==
    ASSUME NEW tag, NEW worker \in Workers(tag), NEW t \in Targets, worker.wraps[t] <= 1,
           NEW next, next = InstallOne(worker, t)
    PROVE  /\ next \in Workers(tag)
           /\ next.loaded = worker.loaded /\ next.hooked = worker.hooked /\ next.path = worker.path
           /\ t \in worker.loaded => next.wraps[t] = 1 /\ next.lost = worker.lost
           /\ t \notin worker.loaded => next.wraps[t] = worker.wraps[t] /\ t \in next.finders
           /\ next.lost \subseteq worker.lost /\ worker.lost \subseteq next.lost \cup {t}
           /\ worker.finders \subseteq next.finders
           /\ \A u \in Targets : u # t => next.wraps[u] = worker.wraps[u]
<1>1. CASE t \in worker.loaded
  BY <1>1, WrapIs DEF InstallOne
<1>2. CASE t \notin worker.loaded
  <2>1. PICK finders, lost : finders = worker.finders \cup {t} /\ lost = worker.lost \ {t}  OBVIOUS
  <2>2. next = [worker EXCEPT !.finders = finders, !.lost = lost]
    BY <1>2, <2>1 DEF InstallOne
  <2>3. /\ next.finders = finders /\ next.loaded = worker.loaded /\ next.wraps = worker.wraps
        /\ next.hooked = worker.hooked /\ next.lost = lost /\ next.path = worker.path
        /\ next \in Workers(tag)
    <3>1. finders \in SUBSET Targets /\ lost \in SUBSET Targets
      BY <2>1 DEF Workers
    <3>. QED BY <2>2, <3>1 DEF Workers
  <2>. QED BY <1>2, <2>1, <2>3
<1>. QED BY <1>1, <1>2

\* Installing the hook keeps the worker's invariant.
LEMMA InstallKeeps ==
    ASSUME NEW tag, NEW worker, WorkerInv(worker, tag)
    PROVE  WorkerInv(Install(worker), tag)
<1>1. worker \in Workers(tag) /\ \A t \in Targets : worker.wraps[t] <= 1
  BY DEF WorkerInv
<1>2. PICK one : one = InstallOne(worker, "sender")  OBVIOUS
<1>3. PICK both : both = InstallOne(one, "server")  OBVIOUS
<1>4. Targets = {"sender", "server"}
  BY DEF Targets
<1>5. /\ one \in Workers(tag) /\ one.loaded = worker.loaded /\ one.path = worker.path
      /\ "sender" \in worker.loaded => one.wraps["sender"] = 1 /\ one.lost = worker.lost
      /\ "sender" \notin worker.loaded => one.wraps["sender"] = worker.wraps["sender"] /\ "sender" \in one.finders
      /\ worker.lost \subseteq one.lost \cup {"sender"}
      /\ one.wraps["server"] = worker.wraps["server"]
  BY <1>1, <1>2, <1>4, InstallOneIs
<1>6. /\ both \in Workers(tag) /\ both.loaded = worker.loaded /\ both.path = worker.path
      /\ "server" \in worker.loaded => both.wraps["server"] = 1 /\ both.lost = one.lost
      /\ "server" \notin worker.loaded => both.wraps["server"] = worker.wraps["server"] /\ "server" \in both.finders
      /\ one.lost \subseteq both.lost \cup {"server"} /\ one.finders \subseteq both.finders
      /\ both.wraps["sender"] = one.wraps["sender"]
  BY <1>1, <1>3, <1>4, <1>5, InstallOneIs
<1>7. PICK next : next = Install(worker)  OBVIOUS
<1>8. /\ next \in Workers(tag) /\ next.finders = both.finders /\ next.loaded = both.loaded
      /\ next.wraps = both.wraps /\ next.lost = both.lost /\ next.path = both.path
  BY <1>2, <1>3, <1>6, <1>7 DEF Install, Workers
<1>9. ASSUME NEW t \in Targets
      PROVE  /\ next.loaded = worker.loaded /\ next.path = worker.path
             /\ t \in worker.loaded => next.wraps[t] = 1
             /\ t \notin worker.loaded => next.wraps[t] = worker.wraps[t] /\ t \in next.finders
             /\ t \in worker.loaded /\ t \notin next.lost => t \notin worker.lost
  BY <1>4, <1>5, <1>6, <1>8
<1>10. ASSUME NEW t \in Targets
       PROVE  /\ next.wraps[t] <= 1
              /\ t \notin next.loaded => next.wraps[t] = 0 /\ next.path[t] = NoPath
              /\ t \in next.loaded \ next.lost => next.wraps[t] = 1
              /\ t \notin next.loaded \cup next.lost => t \in next.finders
              /\ t \notin next.lost => OwnPath(next.path[t], tag)
  BY <1>9 DEF WorkerInv, OwnPath
<1>. QED BY <1>7, <1>8, <1>10 DEF WorkerInv

\* An import is patched exactly if a finder waits for it, and the finder is then gone.
LEMMA ImportKeeps ==
    ASSUME NEW tag, NEW worker, WorkerInv(worker, tag), NEW t \in Targets \ worker.loaded,
           NEW raises \in BOOLEAN
    PROVE  WorkerInv(Import(worker, t, raises), tag)
<1>1. /\ worker \in Workers(tag) /\ worker.wraps[t] = 0 /\ worker.path[t] = NoPath
      /\ worker.hooked /\ t \notin worker.lost => t \in worker.finders
  BY DEF WorkerInv
<1>2. PICK found : found = [worker EXCEPT !.finders = worker.finders \ {t}]  OBVIOUS
<1>3. /\ found \in Workers(tag) /\ found.finders = worker.finders \ {t} /\ found.loaded = worker.loaded
      /\ found.wraps = worker.wraps /\ found.hooked = worker.hooked /\ found.lost = worker.lost
      /\ found.path = worker.path
  <2>1. worker.finders \ {t} \in SUBSET Targets
    BY <1>1 DEF Workers
  <2>. QED BY <1>1, <1>2, <2>1 DEF Workers
<1>4. PICK next : next = Import(worker, t, raises)  OBVIOUS
<1>5. CASE raises
  <2>1. PICK lost : lost = IF t \in worker.finders THEN worker.lost \cup {t} ELSE worker.lost  OBVIOUS
  <2>2. lost \in SUBSET Targets
    BY <1>1, <2>1 DEF Workers
  <2>3. next = [found EXCEPT !.lost = lost]
    BY <1>2, <1>3, <1>4, <1>5, <2>1 DEF Import
  <2>4. /\ next \in Workers(tag) /\ next.finders = found.finders /\ next.loaded = found.loaded
        /\ next.wraps = found.wraps /\ next.hooked = found.hooked /\ next.lost = lost
        /\ next.path = found.path
    BY <1>3, <2>2, <2>3 DEF Workers
  <2>5. ASSUME NEW u \in Targets
        PROVE  /\ next.wraps[u] <= 1
               /\ u \notin next.loaded => next.wraps[u] = 0 /\ next.path[u] = NoPath
               /\ next.hooked /\ u \in next.loaded \ next.lost => next.wraps[u] = 1
               /\ next.hooked /\ u \notin next.loaded \cup next.lost => u \in next.finders
               /\ u \notin next.lost => OwnPath(next.path[u], tag)
    <3>1. CASE u = t
      BY <1>1, <1>3, <2>1, <2>4, <3>1 DEF OwnPath
    <3>2. CASE u # t
      BY <1>3, <2>1, <2>4, <3>2 DEF WorkerInv
    <3>. QED BY <3>1, <3>2
  <2>. QED BY <1>4, <2>4, <2>5 DEF WorkerInv
<1>6. CASE ~raises
  <2>1. PICK loaded : loaded = [found EXCEPT !.loaded = worker.loaded \cup {t}]  OBVIOUS
  <2>2. /\ loaded \in Workers(tag) /\ loaded.finders = worker.finders \ {t}
        /\ loaded.loaded = worker.loaded \cup {t}
        /\ loaded.wraps = worker.wraps /\ loaded.hooked = worker.hooked /\ loaded.lost = worker.lost
        /\ loaded.path = worker.path
    <3>1. worker.loaded \cup {t} \in SUBSET Targets
      BY <1>1 DEF Workers
    <3>. QED BY <1>3, <2>1, <3>1 DEF Workers
  <2>3. next = IF t \in worker.finders THEN WrapInit(loaded, t) ELSE loaded
    BY <1>2, <1>3, <1>4, <1>6, <2>1 DEF Import
  <2>4. /\ next \in Workers(tag) /\ next.finders = worker.finders \ {t}
        /\ next.loaded = worker.loaded \cup {t} /\ next.hooked = worker.hooked
        /\ next.lost = worker.lost /\ next.path = worker.path
        /\ next.wraps[t] = IF t \in worker.finders THEN 1 ELSE 0
        /\ \A u \in Targets : u # t => next.wraps[u] = worker.wraps[u]
    <3>1. CASE t \in worker.finders
      <4>1. loaded.wraps[t] <= 1 /\ next = WrapInit(loaded, t)
        BY <1>1, <2>2, <2>3, <3>1
      <4>. QED BY <2>2, <3>1, <4>1, WrapIs
    <3>2. CASE t \notin worker.finders
      BY <1>1, <2>2, <2>3, <3>2
    <3>. QED BY <3>1, <3>2
  <2>5. ASSUME NEW u \in Targets
        PROVE  /\ next.wraps[u] <= 1
               /\ u \notin next.loaded => next.wraps[u] = 0 /\ next.path[u] = NoPath
               /\ next.hooked /\ u \in next.loaded \ next.lost => next.wraps[u] = 1
               /\ next.hooked /\ u \notin next.loaded \cup next.lost => u \in next.finders
               /\ u \notin next.lost => OwnPath(next.path[u], tag)
    <3>1. CASE u = t
      BY <1>1, <2>4, <3>1 DEF OwnPath
    <3>2. CASE u # t
      BY <2>4, <3>2 DEF WorkerInv
    <3>. QED BY <3>1, <3>2
  <2>. QED BY <1>4, <2>4, <2>5 DEF WorkerInv
<1>. QED BY <1>5, <1>6

\* What is made of a class that the hook has reached goes to the run's own path.
LEMMA MadePathKeeps ==
    ASSUME NEW tag, NEW worker, WorkerInv(worker, tag), worker.hooked, NEW t \in worker.loaded
    PROVE  WorkerInv(MadePath(worker, t, tag), tag)
<1>1. /\ worker \in Workers(tag) /\ t \in Targets /\ worker.wraps[t] \in Nat /\ worker.wraps[t] <= 1
      /\ t \notin worker.lost => worker.wraps[t] = 1
  BY DEF WorkerInv, Workers
<1>2. PICK times : times = IF tag = <<>> THEN 0 ELSE IF t = "server" /\ worker.wraps[t] > 1 THEN 1 ELSE worker.wraps[t]
  OBVIOUS
<1>3. times \in Nat /\ (t \notin worker.lost => times = IF tag = <<>> THEN 0 ELSE 1)
  BY <1>1, <1>2
<1>4. PICK path : path = [tags |-> [i \in 1 .. times |-> tag], job |-> "01000000"]  OBVIOUS
<1>5. path \in [tags : Seq({tag}), job : {"none", "01000000"}]
  <2>1. [i \in 1 .. times |-> tag] \in Seq({tag})
    BY <1>3
  <2>. QED BY <1>4, <2>1
<1>6. t \notin worker.lost => OwnPath(path, tag)
  <2>1. ASSUME times = 0 PROVE [i \in 1 .. times |-> tag] = <<>>
    BY <2>1
  <2>2. ASSUME times = 1 PROVE [i \in 1 .. times |-> tag] = <<tag>>
    BY <2>2
  <2>. QED BY <1>3, <1>4, <2>1, <2>2 DEF OwnPath
<1>7. PICK paths : paths = [worker.path EXCEPT ![t] = path]  OBVIOUS
<1>8. /\ paths \in [Targets -> [tags : Seq({tag}), job : {"none", "01000000"}]] /\ paths[t] = path
      /\ \A u \in Targets : u # t => paths[u] = worker.path[u]
  BY <1>1, <1>5, <1>7 DEF Workers
<1>9. PICK next : next = MadePath(worker, t, tag)  OBVIOUS
<1>10. next = [worker EXCEPT !.path = paths]
  BY <1>2, <1>4, <1>7, <1>9 DEF MadePath
<1>11. /\ next \in Workers(tag) /\ next.finders = worker.finders /\ next.loaded = worker.loaded
       /\ next.wraps = worker.wraps /\ next.hooked = worker.hooked /\ next.lost = worker.lost
       /\ next.path = paths
  BY <1>1, <1>8, <1>10 DEF Workers
<1>12. ASSUME NEW u \in Targets
       PROVE  /\ next.wraps[u] <= 1
              /\ u \notin next.loaded => next.wraps[u] = 0 /\ next.path[u] = NoPath
              /\ next.hooked /\ u \in next.loaded \ next.lost => next.wraps[u] = 1
              /\ next.hooked /\ u \notin next.loaded \cup next.lost => u \in next.finders
              /\ u \notin next.lost => OwnPath(next.path[u], tag)
  BY <1>6, <1>8, <1>11 DEF WorkerInv
<1>. QED BY <1>9, <1>11, <1>12 DEF WorkerInv

\* The invariant of a worker says that its sockets are its run's own.
LEMMA WorkerInvIsOwn ==
    ASSUME NEW name, NEW worker, WorkerInv(worker, RunTag(name))
    PROVE  SocketsAreOwn(worker, name)
BY DEF WorkerInv, OwnPath, SocketsAreOwn

-----------------------------------------------------------------------------
(* Micro-batches.  First the order in which the sequences are placed.        *)

IsLengths(lengths, n) == lengths \in [1 .. n -> Nat]
Rank(lengths, i) == Cardinality({j \in DOMAIN lengths : Before(lengths, j, i)})

\* An index that comes before another one has a smaller rank, and ranks are below n.
LEMMA RankGrows ==
    ASSUME NEW n \in Nat, NEW lengths, IsLengths(lengths, n), NEW i \in 1 .. n, NEW j \in 1 .. n,
           Before(lengths, i, j)
    PROVE  Rank(lengths, i) < Rank(lengths, j)
<1>. DEFINE I == {m \in 1 .. n : Before(lengths, m, i)}
            J == {m \in 1 .. n : Before(lengths, m, j)}
<1>1. DOMAIN lengths = 1 .. n /\ \A m \in 1 .. n : lengths[m] \in Nat
  BY DEF IsLengths
<1>2. I \subseteq J /\ i \in J /\ i \notin I
  BY <1>1 DEF Before
<1>3. IsFiniteSet(J) /\ IsFiniteSet(I)
  <2>1. IsFiniteSet(1 .. n)
    BY FS_Interval
  <2>2. I \in SUBSET (1 .. n) /\ J \in SUBSET (1 .. n)  OBVIOUS
  <2>. HIDE DEF I, J
  <2>. QED BY <2>1, <2>2, FS_Subset
<1>4. /\ Cardinality(I) \in Nat /\ Cardinality(J) \in Nat
      /\ Cardinality(I) <= Cardinality(J) /\ Cardinality(I) # Cardinality(J)
  BY <1>2, <1>3, FS_Subset, FS_CardinalityType
<1>5. Rank(lengths, i) = Cardinality(I) /\ Rank(lengths, j) = Cardinality(J)
  BY <1>1 DEF Rank
<1>. HIDE DEF I, J
<1>. QED BY <1>4, <1>5

\* A rank is below the number of sequences.
LEMMA RankIsBelow ==
    ASSUME NEW n \in Nat, NEW lengths, IsLengths(lengths, n), NEW i \in 1 .. n
    PROVE  Rank(lengths, i) \in 0 .. n - 1
<1>. DEFINE I == {m \in 1 .. n : Before(lengths, m, i)}
<1>1. DOMAIN lengths = 1 .. n /\ \A m \in 1 .. n : lengths[m] \in Nat
  BY DEF IsLengths
<1>2. I \subseteq 1 .. n /\ i \notin I
  BY <1>1 DEF Before
<1>3. IsFiniteSet(1 .. n) /\ Cardinality(1 .. n) = n
  BY FS_Interval
<1>4. /\ Cardinality(I) \in Nat /\ Cardinality(I) <= n /\ Cardinality(I) # n
  BY <1>2, <1>3, FS_Subset, FS_CardinalityType
<1>5. Rank(lengths, i) = Cardinality(I)
  BY <1>1 DEF Rank
<1>. HIDE DEF I
<1>. QED BY <1>4, <1>5

IsOrder(ord, lengths, n) ==
    /\ ord \in [1 .. n -> 1 .. n]
    /\ \A a, b \in 1 .. n : ord[a] = ord[b] => a = b
    /\ \A h \in 1 .. n : \E a \in 1 .. n : ord[a] = h
    /\ \A a, b \in 1 .. n : a <= b => lengths[ord[a]] <= lengths[ord[b]]

\* The order takes every index once, and lengths do not fall along it.
LEMMA OrderSorts ==
    ASSUME NEW n \in Nat, NEW lengths, IsLengths(lengths, n), NEW ord, ord = Order(lengths)
    PROVE  IsOrder(ord, lengths, n)
<1>1. DOMAIN lengths = 1 .. n /\ \A m \in 1 .. n : lengths[m] \in Nat
  BY DEF IsLengths
<1>. DEFINE place == [i \in 1 .. n |-> Rank(lengths, i) + 1]
<1>2. \A i \in 1 .. n : Rank(lengths, i) \in Nat /\ place[i] \in 1 .. n
  BY RankIsBelow
<1>3. \A i, j \in 1 .. n : Rank(lengths, i) = Rank(lengths, j) => i = j
  <2>1. ASSUME NEW i \in 1 .. n, NEW j \in 1 .. n, i # j PROVE Rank(lengths, i) # Rank(lengths, j)
    <3>1. Before(lengths, i, j) \/ Before(lengths, j, i)
      BY <1>1, <2>1 DEF Before
    <3>. QED BY <1>2, <3>1, RankGrows
  <2>. QED BY <2>1
<1>4. place \in Injection(1 .. n, 1 .. n)
  <2>1. place \in [1 .. n -> 1 .. n]
    BY <1>2
  <2>2. \A i, j \in 1 .. n : place[i] = place[j] => i = j
    BY <1>2, <1>3
  <2>. HIDE DEF place
  <2>. QED BY <2>1, <2>2 DEF Injection, IsInjective
<1>5. place \in Surjection(1 .. n, 1 .. n)
  BY <1>4, FS_Interval, FS_Injection
<1>6. \A a \in 1 .. n : \E i \in 1 .. n : Rank(lengths, i) = a - 1
  <2>1. ASSUME NEW a \in 1 .. n PROVE \E i \in 1 .. n : Rank(lengths, i) = a - 1
    <3>1. PICK i \in 1 .. n : place[i] = a
      BY <1>5 DEF Surjection
    <3>. QED BY <1>2, <3>1
  <2>. QED BY <2>1
<1>7. \A a \in 1 .. n : ord[a] \in 1 .. n /\ Rank(lengths, ord[a]) = a - 1
  BY <1>1, <1>6 DEF Order, Rank
<1>8. ord \in [1 .. n -> 1 .. n]
  BY <1>1, <1>7 DEF Order
<1>9. ASSUME NEW a \in 1 .. n, NEW b \in 1 .. n, ord[a] = ord[b] PROVE a = b
  BY <1>7, <1>9
<1>10. ASSUME NEW i \in 1 .. n PROVE \E a \in 1 .. n : ord[a] = i
  <2>1. Rank(lengths, i) + 1 \in 1 .. n
    BY <1>2
  <2>2. Rank(lengths, ord[Rank(lengths, i) + 1]) = Rank(lengths, i)
    BY <1>2, <1>7, <2>1
  <2>. QED BY <1>3, <1>7, <2>1, <2>2
<1>11. ASSUME NEW a \in 1 .. n, NEW b \in 1 .. n, a <= b PROVE lengths[ord[a]] <= lengths[ord[b]]
  <2>1. Before(lengths, ord[b], ord[a]) => b - 1 < a - 1
    BY <1>7, RankGrows
  <2>2. lengths[ord[a]] \in Nat /\ lengths[ord[b]] \in Nat /\ ~(b - 1 < a - 1)
    BY <1>1, <1>7, <1>11
  <2>. QED BY <2>1, <2>2 DEF Before
<1>. QED BY <1>8, <1>9, <1>10, <1>11 DEF IsOrder

\* The order of the numbers as a relation, for the library's theorems on well-founded ones.
Below == {p \in Nat \X Nat : p[1] < p[2]}

\* A set of numbers that is not empty has a least one.
LEMMA LeastNumber ==
    ASSUME NEW T, T \subseteq Nat, T # {}
    PROVE  \E x \in T : \A y \in T : x <= y
<1>1. IsWellFoundedOn(Below, Nat)
  BY NatLessThanWellFounded, SMT DEF OpToRel, Below
<1>2. PICK x \in T : \A y \in T : <<y, x>> \notin Below
  BY <1>1, WFMin
<1>3. ASSUME NEW y \in T, y < x PROVE <<y, x>> \in Below
  BY <1>3 DEF Below
<1>4. ASSUME NEW y \in T PROVE x <= y
  <2>1. x \in Nat /\ y \in Nat /\ ~(y < x)
    BY <1>2, <1>3
  <2>. QED BY <2>1
<1>. QED BY <1>4

\* The largest number of a part of 1 .. n.
LEMMA MaxOfPart ==
    ASSUME NEW n \in Nat, NEW T \in SUBSET (1 .. n), T # {}
    PROVE  Max(T) \in T /\ \A x \in T : x <= Max(T)
<1>. DEFINE D == {n - x : x \in T}
<1>1. ASSUME NEW x \in T PROVE x \in Int /\ n - x \in Nat
  <2>1. x \in 1 .. n  OBVIOUS
  <2>. QED BY <2>1
<1>2. D \subseteq Nat /\ D # {}
  BY <1>1
<1>3. PICK k \in D : \A y \in D : k <= y
  <2>. HIDE DEF D
  <2>. QED BY <1>2, LeastNumber
<1>4. PICK x \in T : k = n - x  OBVIOUS
<1>5. ASSUME NEW y \in T PROVE y <= x
  <2>1. n - x <= n - y
    BY <1>3, <1>4
  <2>2. x \in Int /\ y \in Int
    BY <1>1
  <2>. QED BY <2>1, <2>2
<1>. QED BY <1>5 DEF Max

\* g places the parts of a list of indices, as the fold over it does: the last index of a part last.
IsPlacing(g, ord, lengths, budget, D) ==
    g = [T \in SUBSET D |-> IF T = {} THEN <<>> ELSE Place(g[T \ {Max(T)}], ord[Max(T)], lengths, budget)]

\* The fold of the model, unfolded once.
LEMMA PartitionsArePlaced ==
    ASSUME NEW lengths, NEW budget, NEW ord, ord = Order(lengths)
    PROVE  SortedPartitions(lengths, budget)
           = Reverse((CHOOSE g : IsPlacing(g, ord, lengths, budget, DOMAIN ord))[DOMAIN ord])
    BY DEF SortedPartitions, FoldLeft, MapThenFoldSet, IsPlacing

\* The first n indices can be placed, for every n.
LEMMA PlacingsExist ==
    ASSUME NEW ord, NEW lengths, NEW budget, NEW n \in Nat
    PROVE  \E g : IsPlacing(g, ord, lengths, budget, 1 .. n)
<1>. DEFINE Bad == {k \in Nat : ~\E g : IsPlacing(g, ord, lengths, budget, 1 .. k)}
<1>1. SUFFICES ASSUME Bad # {} PROVE FALSE  OBVIOUS
<1>2. PICK k \in Bad : \A y \in Bad : k <= y
  BY <1>1, LeastNumber
<1>3. k \in Nat /\ ~\E g : IsPlacing(g, ord, lengths, budget, 1 .. k)  OBVIOUS
<1>4. CASE k = 0
  <2>1. SUBSET (1 .. k) = {{}}
    BY <1>4
  <2>2. IsPlacing([T \in SUBSET (1 .. k) |-> <<>>], ord, lengths, budget, 1 .. k)
    BY <2>1 DEF IsPlacing
  <2>. QED BY <1>3, <2>2
<1>5. CASE k # 0
  <2>1. k - 1 \in Nat /\ k - 1 \notin Bad
    BY <1>2, <1>3, <1>5
  <2>2. PICK g : IsPlacing(g, ord, lengths, budget, 1 .. k - 1)
    BY <2>1
  <2>. DEFINE h == [T \in SUBSET (1 .. k) |->
                      IF k \in T THEN Place(g[T \ {k}], ord[k], lengths, budget) ELSE g[T]]
  <2>3. ASSUME NEW T \in SUBSET (1 .. k)
        PROVE  h[T] = IF T = {} THEN <<>> ELSE Place(h[T \ {Max(T)}], ord[Max(T)], lengths, budget)
    <3>1. CASE T = {}
      <4>1. {} \in SUBSET (1 .. k - 1)  OBVIOUS
      <4>2. g[{}] = <<>>
        BY <2>2, <4>1 DEF IsPlacing
      <4>. QED BY <3>1, <4>2
    <3>2. CASE k \in T
      <4>1. Max(T) \in T /\ \A x \in T : x <= Max(T)
        BY <3>2, <1>3, MaxOfPart
      <4>2. Max(T) = k
        <5>1. Max(T) \in 1 .. k /\ k <= Max(T)
          BY <3>2, <4>1
        <5>. QED BY <1>3, <5>1
      <4>3. T \ {k} \in SUBSET (1 .. k) /\ k \notin T \ {k}  OBVIOUS
      <4>4. h[T \ {k}] = g[T \ {k}]
        BY <4>3
      <4>5. h[T] = Place(g[T \ {k}], ord[k], lengths, budget)
        BY <3>2
      <4>. QED BY <3>2, <4>2, <4>4, <4>5
    <3>3. CASE T # {} /\ k \notin T
      <4>1. T \in SUBSET (1 .. k - 1)
        BY <1>3, <3>3
      <4>2. Max(T) \in T
        BY <2>1, <3>3, <4>1, MaxOfPart
      <4>3. T \ {Max(T)} \in SUBSET (1 .. k) /\ k \notin T \ {Max(T)}
        BY <3>3
      <4>4. h[T \ {Max(T)}] = g[T \ {Max(T)}] /\ h[T] = g[T]
        BY <3>3, <4>3
      <4>5. g[T] = Place(g[T \ {Max(T)}], ord[Max(T)], lengths, budget)
        BY <2>2, <3>3, <4>1 DEF IsPlacing
      <4>. QED BY <3>3, <4>4, <4>5
    <3>. QED BY <3>1, <3>2, <3>3
  <2>4. IsPlacing(h, ord, lengths, budget, 1 .. k)
    <3>. HIDE DEF h
    <3>1. h = [T \in SUBSET (1 .. k) |-> h[T]]
      BY DEF h
    <3>. QED BY <2>3, <3>1 DEF IsPlacing
  <2>. QED BY <1>3, <2>4
<1>. QED BY <1>4, <1>5

\* The micro-batches, one index at a time: parts[k] is what the first k indices give.
PlacedInSteps(parts, n, ord, lengths, budget) ==
    /\ parts[0] = <<>>
    /\ \A k \in 1 .. n : parts[k] = Place(parts[k - 1], ord[k], lengths, budget)
    /\ SortedPartitions(lengths, budget) = Reverse(parts[n])

\* The model's fold does take one index at a time.
LEMMA PartitionsStepByStep ==
    ASSUME NEW n \in Nat, NEW lengths, NEW budget, NEW ord, ord = Order(lengths), DOMAIN lengths = 1 .. n
    PROVE  \E parts : PlacedInSteps(parts, n, ord, lengths, budget)
<1>1. DOMAIN ord = 1 .. n
  BY DEF Order
<1>2. PICK g : g = CHOOSE f : IsPlacing(f, ord, lengths, budget, DOMAIN ord)  OBVIOUS
<1>3. IsPlacing(g, ord, lengths, budget, 1 .. n)
  <2>1. \E f : IsPlacing(f, ord, lengths, budget, DOMAIN ord)
    BY <1>1, PlacingsExist
  <2>. QED BY <1>1, <1>2, <2>1
<1>4. SortedPartitions(lengths, budget) = Reverse(g[1 .. n])
  BY <1>1, <1>2, PartitionsArePlaced
<1>5. PICK parts : parts = [k \in 0 .. n |-> g[1 .. k]]  OBVIOUS
<1>6. parts[0] = <<>>
  <2>1. {} \in SUBSET (1 .. n) /\ 1 .. 0 = {}  OBVIOUS
  <2>2. g[{}] = <<>>
    BY <1>3, <2>1 DEF IsPlacing
  <2>. QED BY <1>5, <2>1, <2>2
<1>7. ASSUME NEW k \in 1 .. n PROVE parts[k] = Place(parts[k - 1], ord[k], lengths, budget)
  <2>1. /\ 1 .. k \in SUBSET (1 .. n) /\ k \in 1 .. k /\ 1 .. k # {} /\ k \in Nat /\ 1 .. k \in SUBSET (1 .. k)
        /\ (1 .. k) \ {k} = 1 .. k - 1
    OBVIOUS
  <2>2. Max(1 .. k) = k
    <3>1. Max(1 .. k) \in 1 .. k /\ k <= Max(1 .. k)
      BY <2>1, MaxOfPart
    <3>. QED BY <3>1
  <2>3. g[1 .. k] = Place(g[(1 .. k) \ {Max(1 .. k)}], ord[Max(1 .. k)], lengths, budget)
    BY <1>3, <2>1 DEF IsPlacing
  <2>4. g[1 .. k] = Place(g[1 .. k - 1], ord[k], lengths, budget)
    BY <2>1, <2>2, <2>3
  <2>. QED BY <1>5, <2>4
<1>8. SortedPartitions(lengths, budget) = Reverse(parts[n])
  BY <1>4, <1>5
<1>. QED BY <1>6, <1>7, <1>8 DEF PlacedInSteps

IsAppended(t, s, e, L, S) == t \in Seq(S) /\ Len(t) = L + 1 /\ t[L + 1] = e /\ \A m \in 1 .. L : t[m] = s[m]

\* A sequence of L elements and one more.
LEMMA Appended ==
    ASSUME NEW S, NEW s \in Seq(S), NEW e \in S, NEW L \in Nat, L = Len(s), NEW t, t = Append(s, e)
    PROVE  IsAppended(t, s, e, L, S)
BY AppendProperties DEF IsAppended

(* A cut of the first k indices of the order: micro-batch m holds those from cut[m] up to the one     *)
(* before cut[m + 1], fits when padded to its longest, and has no room for the index after it.        *)
IsCut(parts, M, cut, k, n, ord, lengths, budget) ==
    /\ M \in Nat /\ parts \in Seq(Seq(1 .. n)) /\ Len(parts) = M
    /\ cut \in [1 .. M + 1 -> 1 .. k + 1] /\ cut[1] = 1 /\ cut[M + 1] = k + 1
    /\ \A a, b \in 1 .. M + 1 : a < b => cut[a] < cut[b]
    /\ \A j \in 1 .. k : \E m \in 1 .. M : cut[m] <= j /\ j < cut[m + 1]
    /\ \A m \in 1 .. M :
         /\ Len(parts[m]) = cut[m + 1] - cut[m]
         /\ \A x \in 1 .. Len(parts[m]) : parts[m][x] = ord[cut[m] + x - 1]
         /\ lengths[ord[cut[m + 1] - 1]] * Len(parts[m]) <= budget
    /\ \A m \in 1 .. M - 1 : ~(lengths[ord[cut[m + 1]]] * (Len(parts[m]) + 1) <= budget)

\* An index that starts a micro-batch of its own.
LEMMA StartsAnother ==
    ASSUME NEW n \in Nat, NEW lengths, IsLengths(lengths, n), NEW ord \in [1 .. n -> 1 .. n],
           NEW budget \in Int, NEW k \in 0 .. n - 1, NEW parts, NEW M \in Nat, NEW cut,
           IsCut(parts, M, cut, k, n, ord, lengths, budget), lengths[ord[k + 1]] <= budget,
           M # 0 => ~(lengths[ord[k + 1]] * (Len(parts[M]) + 1) <= budget)
    PROVE  \E next : IsCut(Append(parts, <<ord[k + 1]>>), M + 1, next, k + 1, n, ord, lengths, budget)
<1>1. /\ parts \in Seq(Seq(1 .. n)) /\ Len(parts) = M /\ DOMAIN cut = 1 .. M + 1
      /\ \A m \in 1 .. M + 1 : cut[m] \in 1 .. k + 1
      /\ cut[1] = 1 /\ cut[M + 1] = k + 1
      /\ \A a, b \in 1 .. M + 1 : a < b => cut[a] < cut[b]
      /\ \A j \in 1 .. k : \E m \in 1 .. M : cut[m] <= j /\ j < cut[m + 1]
  BY DEF IsCut
<1>2. k \in Nat /\ k + 1 \in 1 .. n /\ ord[k + 1] \in 1 .. n /\ lengths[ord[k + 1]] \in Nat
  BY DEF IsLengths
<1>3. PICK single : single = <<ord[k + 1]>>  OBVIOUS
<1>4. single \in Seq(1 .. n) /\ Len(single) = 1 /\ single[1] = ord[k + 1]
  BY <1>2, <1>3
<1>5. PICK all : all = Append(parts, single)  OBVIOUS
<1>6. /\ all \in Seq(Seq(1 .. n)) /\ Len(all) = M + 1 /\ all[M + 1] = single
      /\ \A m \in 1 .. M : all[m] = parts[m]
  <2>1. PICK S : S = Seq(1 .. n)  OBVIOUS
  <2>2. parts \in Seq(S) /\ single \in S /\ Len(parts) = M
    BY <1>1, <1>4, <2>1
  <2>3. IsAppended(all, parts, single, M, S)
    BY <1>5, <2>2, Appended
  <2>. QED BY <2>1, <2>3 DEF IsAppended
<1>7. PICK next : next = [m \in 1 .. M + 2 |-> IF m = M + 2 THEN k + 2 ELSE cut[m]]  OBVIOUS
<1>8. /\ next \in [1 .. M + 2 -> 1 .. k + 2] /\ next[M + 2] = k + 2
      /\ \A m \in 1 .. M + 1 : next[m] = cut[m] /\ cut[m] \in 1 .. k + 1
  <2>1. \A m \in 1 .. M + 1 : next[m] = cut[m] /\ cut[m] \in 1 .. k + 1 /\ cut[m] \in 1 .. k + 2
    <3>1. ASSUME NEW m \in 1 .. M + 1
          PROVE  next[m] = cut[m] /\ cut[m] \in 1 .. k + 1 /\ cut[m] \in 1 .. k + 2
      <4>1. m \in 1 .. M + 2 /\ m # M + 2  OBVIOUS
      <4>2. cut[m] \in 1 .. k + 1
        BY <1>1
      <4>. QED BY <1>2, <1>7, <4>1, <4>2
    <3>. QED BY <3>1
  <2>2. k + 2 \in 1 .. k + 2 /\ next[M + 2] = k + 2
    BY <1>7
  <2>3. \A m \in 1 .. M + 2 : next[m] \in 1 .. k + 2
    <3>1. ASSUME NEW m \in 1 .. M + 2 PROVE m \in 1 .. M + 1 \/ m = M + 2  OBVIOUS
    <3>. QED BY <2>1, <2>2, <3>1
  <2>. QED BY <1>7, <2>1, <2>2, <2>3
<1>9. next[1] = 1 /\ next[M + 1] = k + 1
  BY <1>1, <1>8
<1>10. ASSUME NEW a \in 1 .. M + 2, NEW b \in 1 .. M + 2, a < b PROVE next[a] < next[b]
  <2>1. CASE b = M + 2
    <3>1. a \in 1 .. M + 1
      BY <1>10, <2>1
    <3>2. next[a] = cut[a] /\ cut[a] \in 1 .. k + 1
      BY <1>8, <3>1
    <3>3. next[b] = k + 2
      BY <1>8, <2>1
    <3>4. PICK c \in 1 .. k + 1 : c = cut[a]
      BY <3>2
    <3>5. c < k + 2
      BY <1>2
    <3>. QED BY <3>2, <3>3, <3>4, <3>5
  <2>2. CASE b # M + 2
    <3>1. a \in 1 .. M + 1 /\ b \in 1 .. M + 1
      BY <1>10, <2>2
    <3>. QED BY <1>1, <1>8, <1>10, <3>1
  <2>. QED BY <2>1, <2>2
<1>11. ASSUME NEW j \in 1 .. k + 1 PROVE \E m \in 1 .. M + 1 : next[m] <= j /\ j < next[m + 1]
  <2>1. CASE j = k + 1
    <3>1. M + 1 \in 1 .. M + 1 /\ (M + 1) + 1 = M + 2  OBVIOUS
    <3>2. next[M + 1] <= j /\ j < next[(M + 1) + 1]
      BY <1>8, <1>9, <2>1, <3>1
    <3>. QED BY <3>1, <3>2
  <2>2. CASE j # k + 1
    <3>1. j \in 1 .. k
      BY <1>2, <2>2
    <3>2. PICK m \in 1 .. M : cut[m] <= j /\ j < cut[m + 1]
      BY <1>1, <3>1
    <3>3. m \in 1 .. M + 1 /\ m + 1 \in 1 .. M + 1  OBVIOUS
    <3>. QED BY <1>8, <3>2, <3>3
  <2>. QED BY <2>1, <2>2
<1>12. ASSUME NEW m \in 1 .. M + 1
       PROVE  /\ Len(all[m]) = next[m + 1] - next[m]
              /\ \A x \in 1 .. Len(all[m]) : all[m][x] = ord[next[m] + x - 1]
              /\ lengths[ord[next[m + 1] - 1]] * Len(all[m]) <= budget
  <2>1. CASE m = M + 1
    <3>1. lengths[ord[k + 1]] * 1 = lengths[ord[k + 1]]
      BY <1>2
    <3>2. /\ Len(all[m]) = 1 /\ next[m] = k + 1 /\ next[m + 1] = k + 2 /\ all[m][1] = ord[k + 1]
          /\ (k + 2) - 1 = k + 1 /\ (k + 1) + 1 - 1 = k + 1 /\ 1 .. 1 = {1} /\ (k + 2) - (k + 1) = 1
      <4>1. (M + 1) + 1 = M + 2 /\ M + 1 \in 1 .. M + 1  OBVIOUS
      <4>. QED BY <1>2, <1>4, <1>6, <1>8, <1>9, <2>1, <4>1
    <3>. QED BY <3>1, <3>2
  <2>2. CASE m # M + 1
    <3>1. m \in 1 .. M /\ m + 1 \in 1 .. M + 1
      BY <2>2
    <3>2. all[m] = parts[m] /\ next[m] = cut[m] /\ next[m + 1] = cut[m + 1]
      BY <1>6, <1>8, <3>1
    <3>. QED BY <3>1, <3>2 DEF IsCut
  <2>. QED BY <2>1, <2>2
<1>13. ASSUME NEW m \in 1 .. M PROVE ~(lengths[ord[next[m + 1]]] * (Len(all[m]) + 1) <= budget)
  <2>1. CASE m = M
    <3>1. all[m] = parts[M] /\ next[m + 1] = k + 1 /\ M # 0
      BY <1>6, <1>9, <2>1
    <3>. QED BY <3>1
  <2>2. CASE m # M
    <3>1. m \in 1 .. M - 1 /\ m \in 1 .. M /\ m + 1 \in 1 .. M + 1
      BY <2>2
    <3>2. all[m] = parts[m] /\ next[m + 1] = cut[m + 1]
      BY <1>6, <1>8, <3>1
    <3>. QED BY <3>1, <3>2 DEF IsCut
  <2>. QED BY <2>1, <2>2
<1>14. (M + 1) + 1 = M + 2 /\ (M + 1) - 1 = M /\ (k + 1) + 1 = k + 2 /\ M + 1 \in Nat
  BY <1>2
<1>15. IsCut(all, M + 1, next, k + 1, n, ord, lengths, budget)
  BY <1>6, <1>8, <1>9, <1>10, <1>11, <1>12, <1>13, <1>14 DEF IsCut
<1>. QED BY <1>3, <1>5, <1>15

\* An index that joins the last micro-batch.
LEMMA JoinsTheLast ==
    ASSUME NEW n \in Nat, NEW lengths, IsLengths(lengths, n), NEW ord \in [1 .. n -> 1 .. n],
           NEW budget \in Int, NEW k \in 0 .. n - 1, NEW parts, NEW M \in Nat, NEW cut,
           IsCut(parts, M, cut, k, n, ord, lengths, budget), M # 0,
           lengths[ord[k + 1]] * (Len(parts[M]) + 1) <= budget
    PROVE  \E next : IsCut(Append(Front(parts), Append(parts[M], ord[k + 1])), M, next, k + 1, n, ord, lengths, budget)
<1>1. /\ parts \in Seq(Seq(1 .. n)) /\ Len(parts) = M /\ DOMAIN cut = 1 .. M + 1
      /\ \A m \in 1 .. M + 1 : cut[m] \in 1 .. k + 1
      /\ cut[1] = 1 /\ cut[M + 1] = k + 1
      /\ \A a, b \in 1 .. M + 1 : a < b => cut[a] < cut[b]
      /\ \A j \in 1 .. k : \E m \in 1 .. M : cut[m] <= j /\ j < cut[m + 1]
  BY DEF IsCut
<1>2. k \in Nat /\ k + 1 \in 1 .. n /\ ord[k + 1] \in 1 .. n /\ lengths[ord[k + 1]] \in Nat /\ M \in 1 .. M
  BY DEF IsLengths
<1>3. PICK longer : longer = Append(parts[M], ord[k + 1])  OBVIOUS
<1>4. PICK S : S = Seq(1 .. n)  OBVIOUS
<1>5. PICK L \in Nat : L = Len(parts[M])
  BY <1>1, <1>2
<1>6. /\ longer \in S /\ Len(longer) = L + 1 /\ longer[L + 1] = ord[k + 1]
      /\ \A x \in 1 .. L : longer[x] = parts[M][x]
  <2>1. parts[M] \in Seq(1 .. n)
    BY <1>1, <1>2
  <2>2. IsAppended(longer, parts[M], ord[k + 1], L, 1 .. n)
    BY <1>2, <1>3, <1>5, <2>1, Appended
  <2>. QED BY <1>4, <2>2 DEF IsAppended
<1>7. PICK front : front = Front(parts)  OBVIOUS
<1>8. front \in Seq(S) /\ Len(front) = M - 1 /\ \A m \in 1 .. M - 1 : front[m] = parts[m]
  <2>1. parts \in Seq(S) /\ 1 \in 1 .. Len(parts) + 1 /\ M - 1 \in 0 .. Len(parts) /\ front = SubSeq(parts, 1, M - 1)
    BY <1>1, <1>2, <1>4, <1>7 DEF Front
  <2>2. 1 \in Int /\ M - 1 \in Int /\ \A m \in 1 .. M - 1 : parts[m] \in S
    BY <1>1, <1>4
  <2>3. /\ front \in Seq(S) /\ Len(front) = IF 1 <= M - 1 THEN (M - 1) - 1 + 1 ELSE 0
        /\ \A m \in 1 .. (M - 1) - 1 + 1 : front[m] = parts[1 + m - 1]
    BY <2>1, <2>2, SubSeqProperties
  <2>4. Len(front) = M - 1
    BY <2>3
  <2>5. (M - 1) - 1 + 1 = M - 1 /\ \A m \in 1 .. M - 1 : 1 + m - 1 = m  OBVIOUS
  <2>. QED BY <2>3, <2>4, <2>5
<1>9. PICK all : all = Append(front, longer)  OBVIOUS
<1>10. /\ all \in Seq(Seq(1 .. n)) /\ Len(all) = M /\ all[M] = longer
       /\ \A m \in 1 .. M - 1 : all[m] = parts[m]
  <2>1. all \in Seq(S) /\ Len(all) = M /\ all[M] = longer /\ \A m \in 1 .. M - 1 : all[m] = front[m]
    <3>1. front \in Seq(S) /\ longer \in S /\ M - 1 \in Nat /\ M - 1 = Len(front)
      BY <1>6, <1>8
    <3>2. IsAppended(all, front, longer, M - 1, S)
      BY <1>9, <3>1, Appended
    <3>3. (M - 1) + 1 = M  OBVIOUS
    <3>. QED BY <3>2, <3>3 DEF IsAppended
  <2>. QED BY <1>4, <1>8, <2>1
<1>11. PICK next : next = [m \in 1 .. M + 1 |-> IF m = M + 1 THEN k + 2 ELSE cut[m]]  OBVIOUS
<1>12. /\ next \in [1 .. M + 1 -> 1 .. k + 2] /\ next[M + 1] = k + 2
       /\ \A m \in 1 .. M : next[m] = cut[m] /\ cut[m] \in 1 .. k + 1
  <2>1. ASSUME NEW m \in 1 .. M
        PROVE  next[m] = cut[m] /\ cut[m] \in 1 .. k + 1 /\ cut[m] \in 1 .. k + 2
    <3>1. m \in 1 .. M + 1 /\ m # M + 1  OBVIOUS
    <3>2. cut[m] \in 1 .. k + 1
      BY <1>1, <3>1
    <3>. QED BY <1>2, <1>11, <3>1, <3>2
  <2>2. k + 2 \in 1 .. k + 2 /\ M + 1 \in 1 .. M + 1
    BY <1>2
  <2>3. next[M + 1] = k + 2
    BY <1>11, <2>2
  <2>4. \A m \in 1 .. M + 1 : next[m] \in 1 .. k + 2
    <3>1. ASSUME NEW m \in 1 .. M + 1 PROVE m \in 1 .. M \/ m = M + 1  OBVIOUS
    <3>. QED BY <2>1, <2>2, <2>3, <3>1
  <2>. QED BY <1>11, <2>1, <2>3, <2>4
<1>13. next[1] = 1
  BY <1>1, <1>12
<1>14. ASSUME NEW a \in 1 .. M + 1, NEW b \in 1 .. M + 1, a < b PROVE next[a] < next[b]
  <2>1. a \in 1 .. M
    BY <1>14
  <2>2. CASE b = M + 1
    BY <1>12, <2>1, <2>2
  <2>3. CASE b # M + 1
    <3>1. b \in 1 .. M
      BY <2>3
    <3>2. cut[a] < cut[b]
      BY <1>1, <1>14
    <3>. QED BY <1>12, <2>1, <3>1, <3>2
  <2>. QED BY <2>2, <2>3
<1>15. ASSUME NEW j \in 1 .. k + 1 PROVE \E m \in 1 .. M : next[m] <= j /\ j < next[m + 1]
  <2>1. CASE cut[M] <= j
    <3>1. next[M] = cut[M] /\ next[M + 1] = k + 2 /\ j < k + 2
      BY <1>2, <1>12
    <3>. QED BY <1>2, <2>1, <3>1
  <2>2. CASE ~(cut[M] <= j)
    <3>1. j \in 1 .. k /\ cut[M] \in 1 .. k + 1
      BY <1>1, <1>2, <2>2
    <3>2. PICK m \in 1 .. M : cut[m] <= j /\ j < cut[m + 1]
      BY <1>1, <3>1
    <3>3. m # M
      BY <2>2, <3>1, <3>2
    <3>4. m + 1 \in 1 .. M
      BY <3>3
    <3>. QED BY <1>12, <3>2, <3>4
  <2>. QED BY <2>1, <2>2
<1>16. ASSUME NEW m \in 1 .. M
       PROVE  /\ Len(all[m]) = next[m + 1] - next[m]
              /\ \A x \in 1 .. Len(all[m]) : all[m][x] = ord[next[m] + x - 1]
              /\ lengths[ord[next[m + 1] - 1]] * Len(all[m]) <= budget
  <2>1. CASE m = M
    <3>1. /\ next[m] = cut[M] /\ next[m + 1] = k + 2 /\ cut[M] \in 1 .. k + 1
          /\ all[m] = longer /\ L = (k + 1) - cut[M]
          /\ \A x \in 1 .. L : parts[M][x] = ord[cut[M] + x - 1]
      BY <1>1, <1>2, <1>5, <1>10, <1>12, <2>1 DEF IsCut
    <3>2. (k + 2) - 1 = k + 1 /\ L + 1 = (k + 2) - cut[M] /\ cut[M] + (L + 1) - 1 = k + 1
      <4>1. PICK c \in 1 .. k + 1 : c = cut[M]
        BY <3>1
      <4>2. k \in Nat /\ L = (k + 1) - c
        BY <1>2, <3>1, <4>1
      <4>3. (k + 2) - 1 = k + 1 /\ L + 1 = (k + 2) - c /\ c + (L + 1) - 1 = k + 1
        BY <4>2
      <4>. QED BY <4>1, <4>3
    <3>3. ASSUME NEW x \in 1 .. L + 1 PROVE longer[x] = ord[cut[M] + x - 1]
      <4>1. x \in 1 .. L \/ x = L + 1  OBVIOUS
      <4>. QED BY <1>6, <3>1, <3>2, <4>1
    <3>. QED BY <1>5, <1>6, <3>1, <3>2, <3>3
  <2>2. CASE m # M
    <3>1. m \in 1 .. M - 1 /\ m + 1 \in 1 .. M
      BY <2>2
    <3>2. all[m] = parts[m] /\ next[m] = cut[m] /\ next[m + 1] = cut[m + 1]
      BY <1>10, <1>12, <3>1
    <3>3. /\ Len(parts[m]) = cut[m + 1] - cut[m]
          /\ \A x \in 1 .. Len(parts[m]) : parts[m][x] = ord[cut[m] + x - 1]
          /\ lengths[ord[cut[m + 1] - 1]] * Len(parts[m]) <= budget
      BY DEF IsCut
    <3>. QED BY <3>2, <3>3
  <2>. QED BY <2>1, <2>2
<1>17. ASSUME NEW m \in 1 .. M - 1 PROVE ~(lengths[ord[next[m + 1]]] * (Len(all[m]) + 1) <= budget)
  <2>1. m + 1 \in 1 .. M  OBVIOUS
  <2>2. all[m] = parts[m] /\ next[m + 1] = cut[m + 1]
    BY <1>10, <1>12, <2>1
  <2>. QED BY <2>2 DEF IsCut
<1>18. (k + 1) + 1 = k + 2
  BY <1>2
<1>19. IsCut(all, M, next, k + 1, n, ord, lengths, budget)
  BY <1>10, <1>12, <1>13, <1>14, <1>15, <1>16, <1>17, <1>18 DEF IsCut
<1>. QED BY <1>3, <1>7, <1>9, <1>19

\* Products grow with their factors.
LEMMA Products ==
    ASSUME NEW a \in Nat, NEW b \in Nat, NEW c \in Nat, NEW d \in Nat, a <= b, c <= d
    PROVE  a * c <= b * d
<1>1. PICK e \in Nat : b = a + e  OBVIOUS
<1>2. PICK f \in Nat : d = c + f  OBVIOUS
<1>3. b * d = a * c + a * f + e * c + e * f
  BY <1>1, <1>2
<1>4. a * f \in Nat /\ e * c \in Nat /\ e * f \in Nat /\ a * c \in Nat
  BY <1>1, <1>2
<1>. QED BY <1>3, <1>4

\* All indices placed, in a cut of the order.
LEMMA PartitionsAreACut ==
    ASSUME NEW n \in Nat, NEW lengths, IsLengths(lengths, n), NEW ord, ord = Order(lengths),
           NEW budget \in Int, \A i \in 1 .. n : lengths[i] <= budget
    PROVE  \E parts, cut : \E M \in Nat :
             IsCut(parts, M, cut, n, n, ord, lengths, budget) /\ SortedPartitions(lengths, budget) = Reverse(parts)
<1>1. ord \in [1 .. n -> 1 .. n] /\ DOMAIN lengths = 1 .. n
  BY OrderSorts DEF IsLengths, IsOrder
<1>2. PICK ps : /\ ps[0] = <<>>
                /\ \A k \in 1 .. n : ps[k] = Place(ps[k - 1], ord[k], lengths, budget)
                /\ SortedPartitions(lengths, budget) = Reverse(ps[n])
  <2>1. DOMAIN lengths = 1 .. n
    BY <1>1
  <2>2. PICK ps : PlacedInSteps(ps, n, ord, lengths, budget)
    BY <2>1, PartitionsStepByStep
  <2>. QED BY <2>2 DEF PlacedInSteps
<1>. DEFINE Holds(k) == \E cut : \E M \in Nat : IsCut(ps[k], M, cut, k, n, ord, lengths, budget)
            Bad == {k \in 0 .. n : ~Holds(k)}
<1>3. Holds(0)
  <2>1. PICK cut : cut = [m \in 1 .. 1 |-> 1]  OBVIOUS
  <2>2. /\ 0 \in Nat /\ <<>> \in Seq(Seq(1 .. n)) /\ Len(<<>>) = 0 /\ 0 + 1 = 1 /\ 1 .. 0 = {} /\ 1 .. 0 - 1 = {}
        /\ cut \in [1 .. 1 -> 1 .. 1] /\ cut[1] = 1 /\ 1 .. 1 = {1} /\ ~(1 < 1)
    BY <2>1
  <2>3. IsCut(<<>>, 0, cut, 0, n, ord, lengths, budget)
    BY <2>2 DEF IsCut
  <2>. QED BY <1>2, <2>2, <2>3
<1>4. ASSUME NEW k \in 0 .. n - 1, Holds(k) PROVE Holds(k + 1)
  <2>1. PICK parts : parts = ps[k]  OBVIOUS
  <2>2. PICK cut : \E M \in Nat : IsCut(parts, M, cut, k, n, ord, lengths, budget)
    BY <1>4, <2>1
  <2>3. PICK M \in Nat : IsCut(parts, M, cut, k, n, ord, lengths, budget)
    BY <2>2
  <2>4. k + 1 \in 1 .. n /\ (k + 1) - 1 = k  OBVIOUS
  <2>5. PICK i : i = ord[k + 1]  OBVIOUS
  <2>6. ps[k + 1] = Place(parts, i, lengths, budget)
    BY <1>2, <2>1, <2>4, <2>5
  <2>7. lengths[i] <= budget
    BY <1>1, <2>4, <2>5
  <2>8. parts # <<>> <=> M # 0
    BY <2>3 DEF IsCut
  <2>9. Last(parts) = parts[M]
    BY <2>3 DEF IsCut, Last
  <2>10. CASE parts # <<>> /\ lengths[i] * (Len(parts[M]) + 1) <= budget
    <3>1. ps[k + 1] = Append(Front(parts), Append(parts[M], i))
      BY <2>6, <2>9, <2>10 DEF Place
    <3>2. \E next : IsCut(Append(Front(parts), Append(parts[M], ord[k + 1])), M, next, k + 1, n, ord, lengths, budget)
      BY <1>1, <2>3, <2>5, <2>8, <2>10, JoinsTheLast
    <3>. QED BY <2>5, <3>1, <3>2
  <2>11. CASE ~(parts # <<>> /\ lengths[i] * (Len(parts[M]) + 1) <= budget)
    <3>1. ps[k + 1] = Append(parts, <<i>>)
      BY <2>6, <2>9, <2>11 DEF Place
    <3>2. \E next : IsCut(Append(parts, <<ord[k + 1]>>), M + 1, next, k + 1, n, ord, lengths, budget)
      BY <1>1, <2>3, <2>5, <2>7, <2>8, <2>11, StartsAnother
    <3>. QED BY <2>5, <3>1, <3>2
  <2>. QED BY <2>10, <2>11
<1>5. Holds(n)
  <2>1. SUFFICES ASSUME ~Holds(n) PROVE FALSE  OBVIOUS
  <2>2. Bad \subseteq Nat /\ n \in Bad
    BY <2>1
  <2>3. PICK k \in Bad : \A y \in Bad : k <= y
    <3>. HIDE DEF Bad
    <3>. QED BY <2>2, LeastNumber
  <2>4. k \in 0 .. n /\ ~Holds(k)  OBVIOUS
  <2>. HIDE DEF Holds
  <2>5. k # 0
    BY <1>3, <2>4
  <2>6. k - 1 \in 0 .. n - 1 /\ k - 1 \in 0 .. n /\ ~(k <= k - 1) /\ (k - 1) + 1 = k
    BY <2>4, <2>5
  <2>7. Holds(k - 1)
    BY <2>3, <2>6
  <2>. QED BY <1>4, <2>4, <2>6, <2>7
<1>. QED BY <1>2, <1>5

\* A finite set has a finite image, no larger than itself.
LEMMA ImageIsNoLarger ==
    ASSUME NEW S, IsFiniteSet(S), NEW f
    PROVE  IsFiniteSet({f[x] : x \in S}) /\ Cardinality({f[x] : x \in S}) <= Cardinality(S)
<1>. DEFINE T == {f[x] : x \in S}
            g == [x \in S |-> f[x]]
<1>1. g \in [S -> T] /\ \A t \in T : \E x \in S : g[x] = t  OBVIOUS
<1>2. g \in Surjection(S, T)
  <2>. HIDE DEF g, T
  <2>. QED BY <1>1 DEF Surjection
<1>3. IsFiniteSet(T) /\ Cardinality(T) <= Cardinality(S)
  <2>. HIDE DEF g, T
  <2>. QED BY <1>2, FS_Surjection
<1>. QED BY <1>3

OfPart(parts, cut, m, n, ord) ==
    /\ cut[m] \in 1 .. n /\ cut[m + 1] \in 1 .. n + 1 /\ cut[m] < cut[m + 1]
    /\ Len(parts[m]) \in 1 .. n /\ Len(parts[m]) = cut[m + 1] - cut[m]
    /\ DOMAIN parts[m] = 1 .. Len(parts[m])
    /\ \A x \in 1 .. Len(parts[m]) :
         cut[m] + x - 1 \in cut[m] .. cut[m + 1] - 1 /\ cut[m] + x - 1 \in 1 .. n /\ parts[m][x] = ord[cut[m] + x - 1]

\* What a cut says of one micro-batch, and of the index at one place of it.
LEMMA OfMicroBatch ==
    ASSUME NEW n \in Nat, NEW lengths, IsLengths(lengths, n), NEW ord, ord = Order(lengths), NEW budget \in Int,
           NEW M \in Nat, NEW parts, NEW cut, IsCut(parts, M, cut, n, n, ord, lengths, budget), NEW m \in 1 .. M
    PROVE  OfPart(parts, cut, m, n, ord)
<1>1. /\ m \in 1 .. M + 1 /\ m + 1 \in 1 .. M + 1 /\ m < m + 1  OBVIOUS
<1>2. cut[m] \in 1 .. n + 1 /\ cut[m + 1] \in 1 .. n + 1 /\ cut[m] < cut[m + 1]
  BY <1>1 DEF IsCut
<1>3. parts[m] \in Seq(1 .. n) /\ Len(parts[m]) = cut[m + 1] - cut[m]
  <2>1. parts \in Seq(Seq(1 .. n)) /\ Len(parts) = M
    BY DEF IsCut
  <2>2. parts[m] \in Seq(1 .. n)
    BY <2>1
  <2>. QED BY <2>2 DEF IsCut
<1>4. Len(parts[m]) \in Nat /\ DOMAIN parts[m] = 1 .. Len(parts[m])
  BY <1>3
<1>5. ASSUME NEW x \in 1 .. Len(parts[m])
      PROVE  cut[m] + x - 1 \in cut[m] .. cut[m + 1] - 1 /\ cut[m] + x - 1 \in 1 .. n
  <2>1. PICK c \in 1 .. n + 1, d \in 1 .. n + 1 : c = cut[m] /\ d = cut[m + 1]
    BY <1>2
  <2>2. x \in 1 .. d - c
    BY <1>3, <2>1
  <2>3. c + x - 1 \in c .. d - 1 /\ c + x - 1 \in 1 .. n
    BY <2>2
  <2>. QED BY <2>1, <2>3
<1>6. \A x \in 1 .. Len(parts[m]) : parts[m][x] = ord[cut[m] + x - 1]
  BY DEF IsCut
<1>7. cut[m] \in 1 .. n /\ Len(parts[m]) \in 1 .. n
  <2>1. PICK c \in 1 .. n + 1, d \in 1 .. n + 1 : c = cut[m] /\ d = cut[m + 1] /\ c < d
    BY <1>2
  <2>2. c \in 1 .. n /\ d - c \in 1 .. n
    BY <2>1
  <2>. QED BY <1>3, <2>1, <2>2
<1>. QED BY <1>2, <1>3, <1>4, <1>5, <1>6, <1>7 DEF OfPart

IsThePlace(parts, M, n, i, m, x) ==
    /\ x \in DOMAIN parts[m] /\ parts[m][x] = i
    /\ \A b \in 1 .. M, y \in 1 .. n : y \in DOMAIN parts[b] /\ parts[b][y] = i => b = m /\ y = x

\* Every index is at exactly one place of the micro-batches, whatever order they are listed in.
LEMMA EachOnce ==
    ASSUME NEW n \in Nat, NEW lengths, IsLengths(lengths, n), NEW ord, ord = Order(lengths), NEW budget \in Int,
           NEW M \in Nat, NEW parts, NEW cut, IsCut(parts, M, cut, n, n, ord, lengths, budget), NEW i \in 1 .. n
    PROVE  \E m \in 1 .. M : \E x \in 1 .. n : IsThePlace(parts, M, n, i, m, x)
<1>1. /\ ord \in [1 .. n -> 1 .. n]
      /\ \A a, b \in 1 .. n : ord[a] = ord[b] => a = b
      /\ \A h \in 1 .. n : \E a \in 1 .. n : ord[a] = h
  <2>1. IsOrder(ord, lengths, n)
    BY OrderSorts
  <2>. QED BY <2>1 DEF IsOrder
<1>2. PICK a \in 1 .. n : ord[a] = i
  BY <1>1
<1>3. PICK m \in 1 .. M : cut[m] <= a /\ a < cut[m + 1]
  BY DEF IsCut
<1>4. /\ cut[m] \in 1 .. n /\ cut[m + 1] \in 1 .. n + 1
      /\ Len(parts[m]) \in 1 .. n /\ Len(parts[m]) = cut[m + 1] - cut[m]
      /\ DOMAIN parts[m] = 1 .. Len(parts[m])
      /\ \A x \in 1 .. Len(parts[m]) : parts[m][x] = ord[cut[m] + x - 1]
  <2>1. OfPart(parts, cut, m, n, ord)
    BY OfMicroBatch
  <2>. QED BY <2>1 DEF OfPart
<1>5. PICK x \in 1 .. Len(parts[m]) : x = a - cut[m] + 1
  BY <1>3, <1>4
<1>6. x \in 1 .. n /\ x \in DOMAIN parts[m] /\ cut[m] + x - 1 = a
  <2>1. PICK c \in 1 .. n : c = cut[m]
    BY <1>4
  <2>2. x = a - c + 1 /\ x \in 1 .. n /\ c + x - 1 = a
    <3>1. PICK L \in 1 .. n : L = Len(parts[m])
      BY <1>4
    <3>2. x \in 1 .. L /\ x = a - c + 1
      BY <1>5, <2>1, <3>1
    <3>. QED BY <3>2
  <2>. QED BY <1>4, <2>1, <2>2
<1>7. parts[m][x] = i
  BY <1>2, <1>4, <1>6
<1>8. ASSUME NEW b \in 1 .. M, NEW y \in 1 .. n, y \in DOMAIN parts[b], parts[b][y] = i
      PROVE  b = m /\ y = x
  <2>1. /\ cut[b] \in 1 .. n /\ cut[b + 1] \in 1 .. n + 1 /\ DOMAIN parts[b] = 1 .. Len(parts[b])
        /\ \A z \in 1 .. Len(parts[b]) :
             cut[b] + z - 1 \in cut[b] .. cut[b + 1] - 1 /\ cut[b] + z - 1 \in 1 .. n /\ parts[b][z] = ord[cut[b] + z - 1]
    <3>1. OfPart(parts, cut, b, n, ord)
      BY OfMicroBatch
    <3>. QED BY <3>1 DEF OfPart
  <2>2. y \in 1 .. Len(parts[b])
    BY <1>8, <2>1
  <2>3. cut[b] + y - 1 \in cut[b] .. cut[b + 1] - 1 /\ cut[b] + y - 1 \in 1 .. n /\ ord[cut[b] + y - 1] = i
    BY <1>8, <2>1, <2>2
  <2>4. cut[b] + y - 1 = a
    BY <1>1, <1>2, <2>3
  <2>5. cut[b] <= a /\ a < cut[b + 1]
    BY <2>1, <2>3, <2>4
  <2>6. b = m
    <3>1. ASSUME NEW c \in 1 .. M, NEW d \in 1 .. M, c < d PROVE cut[c + 1] <= cut[d]
      <4>1. c + 1 \in 1 .. M + 1 /\ d \in 1 .. M + 1 /\ (c + 1 < d \/ c + 1 = d)
        BY <3>1
      <4>2. cut[c + 1] \in 1 .. n + 1 /\ cut[d] \in 1 .. n + 1 /\ (c + 1 < d => cut[c + 1] < cut[d])
        BY <4>1 DEF IsCut
      <4>. QED BY <4>1, <4>2
    <3>2. ~(b < m)
      <4>1. b < m => cut[b + 1] <= cut[m]
        BY <3>1
      <4>2. ~(cut[b + 1] <= cut[m])
        <5>1. PICK p \in Int : p = cut[b + 1]
          BY <1>4, <2>1
        <5>2. PICK q \in Int : q = cut[m]
          BY <1>4, <2>1
        <5>3. q <= a /\ a < p
          BY <1>3, <2>5, <5>1, <5>2
        <5>. QED BY <5>1, <5>2, <5>3
      <4>. QED BY <4>1, <4>2
    <3>3. ~(m < b)
      <4>1. m < b => cut[m + 1] <= cut[b]
        BY <3>1
      <4>2. ~(cut[m + 1] <= cut[b])
        <5>1. PICK p \in Int : p = cut[m + 1]
          BY <1>4, <2>1
        <5>2. PICK q \in Int : q = cut[b]
          BY <1>4, <2>1
        <5>3. q <= a /\ a < p
          BY <1>3, <2>5, <5>1, <5>2
        <5>. QED BY <5>1, <5>2, <5>3
      <4>. QED BY <4>1, <4>2
    <3>. QED BY <3>2, <3>3
  <2>7. y = x
    <3>1. PICK c \in 1 .. n : c = cut[m]
      BY <1>4
    <3>2. c + y - 1 = a /\ c + x - 1 = a
      BY <1>6, <2>4, <2>6, <3>1
    <3>. QED BY <3>2
  <2>. QED BY <2>6, <2>7
<1>. QED BY <1>6, <1>7, <1>8 DEF IsThePlace

\* A micro-batch of the cut fits when it is padded to its longest.
LEMMA PartFits ==
    ASSUME NEW n \in Nat, NEW lengths, IsLengths(lengths, n), NEW ord, ord = Order(lengths), NEW budget \in Int,
           NEW M \in Nat, NEW parts, NEW cut, IsCut(parts, M, cut, n, n, ord, lengths, budget), NEW m \in 1 .. M
    PROVE  Fits(ToSet(parts[m]), lengths, budget)
<1>0. OfPart(parts, cut, m, n, ord)
  BY OfMicroBatch
<1>1. PICK L \in 1 .. n : L = Len(parts[m])
  BY <1>0 DEF OfPart
<1>2. /\ cut[m] \in 1 .. n /\ cut[m + 1] \in 1 .. n + 1 /\ L = cut[m + 1] - cut[m]
      /\ DOMAIN parts[m] = 1 .. L
      /\ \A x \in 1 .. L :
           cut[m] + x - 1 \in cut[m] .. cut[m + 1] - 1 /\ cut[m] + x - 1 \in 1 .. n /\ parts[m][x] = ord[cut[m] + x - 1]
  BY <1>0, <1>1 DEF OfPart
<1>3. PICK last : last = cut[m + 1] - 1  OBVIOUS
<1>4. last \in 1 .. n /\ L \in 1 .. L /\ cut[m] + L - 1 = last /\ parts[m][L] = ord[last]
  <2>0. PICK c \in 1 .. n, d \in 1 .. n + 1 : c = cut[m] /\ d = cut[m + 1] /\ L = d - c /\ last = d - 1
    BY <1>2, <1>3
  <2>1. L \in 1 .. L /\ cut[m] + L - 1 = last
    BY <2>0
  <2>. QED BY <1>2, <2>1
<1>5. lengths[ord[last]] * L <= budget
  BY <1>1, <1>3 DEF IsCut
<1>6. PICK part : part = parts[m]  OBVIOUS
<1>7. PICK I : I = {part[x] : x \in 1 .. L}  OBVIOUS
<1>8. ToSet(parts[m]) = I
  BY <1>2, <1>6, <1>7 DEF ToSet
<1>9. PICK f : f = [x \in 1 .. L |-> part[x]]  OBVIOUS
<1>10. I = {f[x] : x \in 1 .. L}
  BY <1>7, <1>9
<1>11. IsFiniteSet(1 .. L) /\ Cardinality(1 .. L) = L
  BY FS_Interval
<1>12. Cardinality(I) \in Nat /\ Cardinality(I) <= L
  BY <1>10, <1>11, ImageIsNoLarger, FS_CardinalityType
<1>13. ASSUME NEW i \in I PROVE lengths[i] <= lengths[ord[last]]
  <2>1. PICK x \in 1 .. L : i = part[x]
    BY <1>7
  <2>2. PICK a \in 1 .. n : a = cut[m] + x - 1 /\ a <= last
    BY <1>2, <1>3
  <2>3. i = ord[a]
    BY <1>2, <1>6, <2>1, <2>2
  <2>. QED BY <1>4, <2>2, <2>3, OrderSorts DEF IsOrder
<1>14. ord[last] \in I
  BY <1>4, <1>6, <1>7
<1>15. ord[last] \in 1 .. n /\ lengths[ord[last]] \in Nat
  <2>1. ord \in [1 .. n -> 1 .. n] /\ lengths \in [1 .. n -> Nat]
    BY OrderSorts DEF IsLengths, IsOrder
  <2>. QED BY <1>4, <2>1
<1>16. ASSUME NEW i \in I PROVE i \in 1 .. n /\ lengths[i] \in Nat
  <2>1. PICK x \in 1 .. L : i = part[x]
    BY <1>7
  <2>2. PICK a \in 1 .. n : i = ord[a]
    BY <1>2, <1>6, <2>1
  <2>. QED
    <3>1. ord \in [1 .. n -> 1 .. n] /\ lengths \in [1 .. n -> Nat]
      BY OrderSorts DEF IsLengths, IsOrder
    <3>. QED BY <2>2, <3>1
<1>17. Longest(I, lengths) = lengths[ord[last]]
  <2>. DEFINE Ls == {lengths[i] : i \in I}
  <2>1. lengths[ord[last]] \in Ls /\ \A i \in I : lengths[i] <= lengths[ord[last]]
    BY <1>13, <1>14
  <2>2. ASSUME NEW z \in Ls, \A i \in I : lengths[i] <= z PROVE z = lengths[ord[last]]
    <3>1. PICK i \in I : z = lengths[i]  OBVIOUS
    <3>. QED BY <1>13, <1>14, <1>15, <1>16, <2>2, <3>1
  <2>. HIDE DEF Ls
  <2>3. (CHOOSE z \in Ls : \A i \in I : lengths[i] <= z) = lengths[ord[last]]
    BY <2>1, <2>2
  <2>. QED BY <2>3 DEF Longest, Ls
<1>18. Cardinality(I) * lengths[ord[last]] <= L * lengths[ord[last]]
  BY <1>12, <1>15, Products
<1>19. L * lengths[ord[last]] = lengths[ord[last]] * L
  BY <1>15
<1>20. Cardinality(I) * lengths[ord[last]] <= budget
  <2>1. PICK c \in Nat : c = Cardinality(I) * lengths[ord[last]]
    BY <1>12, <1>15
  <2>2. PICK d \in Nat : d = lengths[ord[last]] * L
    BY <1>15
  <2>. QED BY <1>5, <1>18, <1>19, <2>1, <2>2
<1>. QED BY <1>8, <1>17, <1>20 DEF Fits

\* sorted_partitions: every sequence in one micro-batch, every micro-batch within the budget.
LEMMA MicroBatchesFit ==
    ASSUME NEW n \in Nat, NEW lengths, IsLengths(lengths, n), NEW budget \in Int, NEW args
    PROVE  EachOnceAndFitting(args, lengths, budget)
<1>1. SUFFICES ASSUME \A i \in 1 .. n : lengths[i] <= budget
               PROVE  /\ \A i \in 1 .. n :
                           Cardinality({p \in (DOMAIN SortedPartitions(lengths, budget)) \X (1 .. n) :
                                          /\ p[2] \in DOMAIN SortedPartitions(lengths, budget)[p[1]]
                                          /\ SortedPartitions(lengths, budget)[p[1]][p[2]] = i}) = 1
                      /\ \A m \in DOMAIN SortedPartitions(lengths, budget) :
                           Fits(ToSet(SortedPartitions(lengths, budget)[m]), lengths, budget)
  <2>1. DOMAIN lengths = 1 .. n
    BY DEF IsLengths
  <2>. QED BY <2>1 DEF EachOnceAndFitting, Applies
<1>2. PICK ord : ord = Order(lengths)  OBVIOUS
<1>3. PICK parts, cut : \E M \in Nat :
        IsCut(parts, M, cut, n, n, ord, lengths, budget) /\ SortedPartitions(lengths, budget) = Reverse(parts)
  BY <1>1, <1>2, PartitionsAreACut
<1>4. PICK M \in Nat :
        IsCut(parts, M, cut, n, n, ord, lengths, budget) /\ SortedPartitions(lengths, budget) = Reverse(parts)
  BY <1>3
<1>5. PICK R : R = Reverse(parts)  OBVIOUS
<1>6. DOMAIN R = 1 .. M /\ \A r \in 1 .. M : R[r] = parts[(M - r) + 1] /\ (M - r) + 1 \in 1 .. M
  <2>1. Len(parts) = M
    BY <1>4 DEF IsCut
  <2>2. ASSUME NEW r \in 1 .. M PROVE (M - r) + 1 \in 1 .. M  OBVIOUS
  <2>. QED BY <1>5, <2>1, <2>2 DEF Reverse
<1>7. ASSUME NEW i \in 1 .. n
      PROVE  Cardinality({p \in (1 .. M) \X (1 .. n) : p[2] \in DOMAIN R[p[1]] /\ R[p[1]][p[2]] = i}) = 1
  <2>1. PICK m \in 1 .. M : \E x \in 1 .. n : IsThePlace(parts, M, n, i, m, x)
    BY <1>2, <1>4, EachOnce
  <2>2. PICK x \in 1 .. n :
           /\ x \in DOMAIN parts[m] /\ parts[m][x] = i
           /\ \A b \in 1 .. M, y \in 1 .. n : y \in DOMAIN parts[b] /\ parts[b][y] = i => b = m /\ y = x
    BY <2>1 DEF IsThePlace
  <2>3. PICK r \in 1 .. M : r = (M - m) + 1 /\ (M - r) + 1 = m  OBVIOUS
  <2>4. PICK places : places = {p \in (1 .. M) \X (1 .. n) : p[2] \in DOMAIN R[p[1]] /\ R[p[1]][p[2]] = i}
    OBVIOUS
  <2>5. <<r, x>> \in places
    BY <1>6, <2>2, <2>3, <2>4
  <2>6. ASSUME NEW p \in places PROVE p = <<r, x>>
    <3>1. /\ p \in (1 .. M) \X (1 .. n) /\ p = <<p[1], p[2]>> /\ p[1] \in 1 .. M /\ p[2] \in 1 .. n
          /\ p[2] \in DOMAIN R[p[1]] /\ R[p[1]][p[2]] = i
      BY <2>4
    <3>2. R[p[1]] = parts[(M - p[1]) + 1] /\ (M - p[1]) + 1 \in 1 .. M
      BY <1>6, <3>1
    <3>3. (M - p[1]) + 1 = m /\ p[2] = x
      BY <2>2, <3>1, <3>2
    <3>4. p[1] = r
      BY <2>3, <3>1, <3>3
    <3>. QED BY <3>1, <3>3, <3>4
  <2>7. places = {<<r, x>>}
    BY <2>5, <2>6
  <2>8. Cardinality(places) = 1
    BY <2>7, FS_Singleton
  <2>. QED BY <2>4, <2>8
<1>8. ASSUME NEW r \in 1 .. M PROVE Fits(ToSet(R[r]), lengths, budget)
  <2>1. Fits(ToSet(parts[(M - r) + 1]), lengths, budget)
    BY <1>2, <1>4, <1>6, PartFits
  <2>. QED BY <1>6, <2>1
<1>. QED BY <1>4, <1>5, <1>6, <1>7, <1>8

\* The longest sequence of a part.
LEMMA LongestIs ==
    ASSUME NEW n \in Nat, NEW lengths, IsLengths(lengths, n), NEW F \in SUBSET (1 .. n), NEW y \in F
    PROVE  Longest(F, lengths) \in Nat /\ lengths[y] <= Longest(F, lengths)
<1>1. PICK ord : ord = Order(lengths)  OBVIOUS
<1>2. IsOrder(ord, lengths, n)
  BY <1>1, OrderSorts
<1>3. PICK A : A = {a \in 1 .. n : ord[a] \in F}  OBVIOUS
<1>4. PICK b \in A : ord[b] = y
  BY <1>2, <1>3 DEF IsOrder
<1>5. Max(A) \in A /\ \A a \in A : a <= Max(A)
  <2>1. A \in SUBSET (1 .. n) /\ A # {}
    BY <1>3, <1>4
  <2>. QED BY <2>1, MaxOfPart
<1>6. PICK top \in A : \A a \in A : a <= top
  BY <1>5
<1>7. PICK Ls : Ls = {lengths[i] : i \in F}  OBVIOUS
<1>8. lengths[ord[top]] \in Ls
  BY <1>3, <1>7
<1>9. ASSUME NEW i \in F PROVE lengths[i] <= lengths[ord[top]]
  <2>1. PICK a \in 1 .. n : ord[a] = i
    BY <1>2 DEF IsOrder
  <2>2. a \in A /\ a <= top /\ top \in 1 .. n
    BY <1>3, <1>6, <2>1
  <2>. QED BY <1>2, <2>1, <2>2 DEF IsOrder
<1>10. \E z \in Ls : \A i \in F : lengths[i] <= z
  BY <1>8, <1>9
<1>11. PICK longest : longest = CHOOSE z \in Ls : \A i \in F : lengths[i] <= z  OBVIOUS
<1>12. longest \in Ls /\ \A i \in F : lengths[i] <= longest
  BY <1>10, <1>11
<1>13. Ls \subseteq Nat
  BY <1>7 DEF IsLengths
<1>14. Longest(F, lengths) = longest
  BY <1>7, <1>11 DEF Longest
<1>. QED BY <1>12, <1>13, <1>14

(* Any distribution into micro-batches that fit spreads enough indices over t of them, when it takes  *)
(* the cut cut[t] indices to get to its own t-th micro-batch.                                         *)
AllFit(into, n, lengths, budget) == \A y \in 1 .. n : Fits({i \in 1 .. n : into[i] = into[y]}, lengths, budget)
Spreads(into, n, size, t) ==
    \A X \in SUBSET (1 .. n) : size <= Cardinality(X) => t <= Cardinality({into[x] : x \in X})

\* More than s indices cannot all be among the first s of the order.
LEMMA OneIsLate ==
    ASSUME NEW n \in Nat, NEW lengths, NEW ord, IsOrder(ord, lengths, n), NEW s \in 1 .. n,
           NEW X \in SUBSET (1 .. n), s <= Cardinality(X)
    PROVE  \E a \in 1 .. n : ord[a] \in X /\ s <= a
<1>1. SUFFICES ASSUME \A a \in 1 .. n : ord[a] \in X => a < s
               PROVE FALSE
  BY DEF IsOrder
<1>2. PICK early : early = {ord[a] : a \in 1 .. s - 1}  OBVIOUS
<1>3. ASSUME NEW x \in X PROVE x \in early
  <2>1. PICK a \in 1 .. n : ord[a] = x
    BY DEF IsOrder
  <2>2. a \in 1 .. s - 1
    BY <1>1, <2>1
  <2>. QED BY <1>2, <2>1, <2>2
<1>4. IsFiniteSet(1 .. s - 1) /\ Cardinality(1 .. s - 1) = s - 1
  BY FS_Interval
<1>5. IsFiniteSet(early) /\ Cardinality(early) <= s - 1
  BY <1>2, <1>4, ImageIsNoLarger
<1>6. Cardinality(X) <= Cardinality(early) /\ Cardinality(X) \in Nat /\ Cardinality(early) \in Nat
  BY <1>3, <1>5, FS_Subset, FS_CardinalityType
<1>. QED BY <1>5, <1>6

\* Of the indices that are together with a long one, no more than the cut has in its micro-batch.
LEMMA GroupIsNoLarger ==
    ASSUME NEW n \in Nat, NEW lengths, IsLengths(lengths, n), NEW budget \in Int,
           NEW into, AllFit(into, n, lengths, budget),
           NEW y \in 1 .. n, NEW l \in Nat, l <= lengths[y], NEW L \in Nat, ~(l * (L + 1) <= budget),
           NEW G, G \subseteq {i \in 1 .. n : into[i] = into[y]}
    PROVE  IsFiniteSet(G) /\ Cardinality(G) \in Nat /\ Cardinality(G) <= L
<1>1. PICK F : F = {i \in 1 .. n : into[i] = into[y]}  OBVIOUS
<1>2. F \in SUBSET (1 .. n) /\ y \in F /\ G \in SUBSET F
  BY <1>1
<1>3. IsFiniteSet(1 .. n)
  BY FS_Interval
<1>4. IsFiniteSet(F) /\ Cardinality(F) \in Nat
  BY <1>2, <1>3, FS_Subset, FS_CardinalityType
<1>5. IsFiniteSet(G) /\ Cardinality(G) \in Nat /\ Cardinality(G) <= Cardinality(F)
  BY <1>2, <1>4, FS_Subset, FS_CardinalityType
<1>6. Longest(F, lengths) \in Nat /\ lengths[y] <= Longest(F, lengths)
  BY <1>2, LongestIs
<1>7. Fits(F, lengths, budget)
  BY <1>1 DEF AllFit
<1>8. Cardinality(F) * Longest(F, lengths) <= budget
  BY <1>7 DEF Fits
<1>9. l <= Longest(F, lengths)
  <2>1. lengths[y] \in Nat
    BY DEF IsLengths
  <2>. QED BY <1>6, <2>1
<1>10. ASSUME L + 1 <= Cardinality(G) PROVE FALSE
  <2>1. L + 1 \in Nat /\ L + 1 <= Cardinality(F)
    BY <1>4, <1>5, <1>10
  <2>2. (L + 1) * l <= Cardinality(F) * Longest(F, lengths)
    BY <1>4, <1>6, <1>9, <2>1, Products
  <2>3. (L + 1) * l = l * (L + 1)  OBVIOUS
  <2>4. PICK a \in Nat : a = l * (L + 1)  OBVIOUS
  <2>5. PICK b \in Nat : b = Cardinality(F) * Longest(F, lengths)
    BY <1>4, <1>6
  <2>. QED BY <1>8, <2>2, <2>3, <2>4, <2>5
<1>. QED BY <1>5, <1>10

\* One more micro-batch of the cut takes one more of any distribution.
LEMMA OneMoreIsNeeded ==
    ASSUME NEW n \in Nat, NEW lengths, IsLengths(lengths, n), NEW budget \in Int,
           NEW ord, IsOrder(ord, lengths, n),
           NEW into, AllFit(into, n, lengths, budget), NEW t \in Nat, NEW size \in 1 .. n, NEW L \in Nat,
           ~(lengths[ord[size]] * (L + 1) <= budget), Spreads(into, n, size - L, t)
    PROVE  Spreads(into, n, size, t + 1)
<1>1. SUFFICES ASSUME NEW X \in SUBSET (1 .. n), size <= Cardinality(X)
               PROVE  t + 1 <= Cardinality({into[x] : x \in X})
  BY DEF Spreads
<1>2. PICK a \in 1 .. n : ord[a] \in X /\ size <= a
  BY <1>1, OneIsLate
<1>3. PICK y \in X : y = ord[a]
  BY <1>2
<1>4. PICK l \in Nat : l = lengths[ord[size]] /\ l <= lengths[y]
  BY <1>2, <1>3 DEF IsLengths, IsOrder
<1>5. PICK G : G = {x \in X : into[x] = into[y]}  OBVIOUS
<1>6. y \in 1 .. n /\ y \in G /\ G \in SUBSET X /\ G \subseteq {i \in 1 .. n : into[i] = into[y]}
  BY <1>5
<1>7. IsFiniteSet(G) /\ Cardinality(G) \in Nat /\ Cardinality(G) <= L
  BY <1>4, <1>6, GroupIsNoLarger
<1>8. IsFiniteSet(X) /\ Cardinality(X) \in Nat
  <2>1. IsFiniteSet(1 .. n)
    BY FS_Interval
  <2>. QED BY <2>1, FS_Subset, FS_CardinalityType
<1>9. PICK Y : Y = X \ G  OBVIOUS
<1>10. X \cap G = G /\ Y \in SUBSET (1 .. n)
  BY <1>6, <1>9
<1>11. IsFiniteSet(Y) /\ Cardinality(Y) = Cardinality(X) - Cardinality(G)
  BY <1>8, <1>9, <1>10, FS_Difference
<1>12. size - L <= Cardinality(Y)
  BY <1>1, <1>7, <1>8, <1>11
<1>13. PICK I : I = {into[x] : x \in Y}  OBVIOUS
<1>14. t <= Cardinality(I)
  BY <1>10, <1>12, <1>13 DEF Spreads
<1>15. IsFiniteSet(I) /\ Cardinality(I) \in Nat
  BY <1>11, <1>13, ImageIsNoLarger, FS_CardinalityType
<1>16. into[y] \notin I
  BY <1>5, <1>9, <1>13
<1>17. Cardinality(I \cup {into[y]}) = Cardinality(I) + 1
  BY <1>15, <1>16, FS_AddElement
<1>18. {into[x] : x \in X} = I \cup {into[y]}
  <2>1. ASSUME NEW x \in X PROVE into[x] \in I \cup {into[y]}
    BY <1>5, <1>9, <1>13
  <2>2. ASSUME NEW e \in I \cup {into[y]} PROVE e \in {into[x] : x \in X}
    BY <1>9, <1>13
  <2>. QED BY <2>1, <2>2
<1>19. Cardinality({into[x] : x \in X}) = Cardinality(I) + 1
  BY <1>17, <1>18
<1>. QED BY <1>14, <1>15, <1>19

\* No distribution that fits uses fewer micro-batches than the cut.
LEMMA CutIsFewest ==
    ASSUME NEW n \in Nat \ {0}, NEW lengths, IsLengths(lengths, n), NEW ord, ord = Order(lengths),
           NEW budget \in Int, NEW M \in Nat, NEW parts, NEW cut, IsCut(parts, M, cut, n, n, ord, lengths, budget),
           NEW into \in [1 .. n -> 1 .. M - 1], AllFit(into, n, lengths, budget)
    PROVE  FALSE
<1>1. IsOrder(ord, lengths, n)
  BY OrderSorts
<1>2. M # 0
  <2>1. 1 \in 1 .. n  OBVIOUS
  <2>2. PICK m \in 1 .. M : cut[m] <= 1
    BY <2>1 DEF IsCut
  <2>. QED OBVIOUS
<1>3. cut[1] = 1 /\ \A t \in 1 .. M : cut[t] \in 1 .. n
  <2>1. cut[1] = 1
    BY DEF IsCut
  <2>2. ASSUME NEW t \in 1 .. M PROVE cut[t] \in 1 .. n
    <3>1. OfPart(parts, cut, t, n, ord)
      BY OfMicroBatch
    <3>. QED BY <3>1 DEF OfPart
  <2>. QED BY <2>1, <2>2
<1>4. IsFiniteSet(1 .. n) /\ Cardinality(1 .. n) = n
  BY FS_Interval
<1>. DEFINE Bad == {t \in 1 .. M : ~Spreads(into, n, cut[t], t)}
<1>5. Spreads(into, n, 1, 1)
  <2>1. ASSUME NEW X \in SUBSET (1 .. n), 1 <= Cardinality(X) PROVE 1 <= Cardinality({into[x] : x \in X})
    <3>1. IsFiniteSet(X)
      BY <1>4, FS_Subset
    <3>2. X # {}
      <4>1. Cardinality(X) \in Nat /\ Cardinality(X) # 0
        BY <2>1, <3>1, FS_CardinalityType
      <4>. QED BY <3>1, <4>1, FS_EmptySet
    <3>3. PICK I : I = {into[x] : x \in X}  OBVIOUS
    <3>4. IsFiniteSet(I) /\ I # {}
      BY <3>1, <3>2, <3>3, ImageIsNoLarger
    <3>5. Cardinality(I) \in Nat /\ Cardinality(I) # 0
      BY <3>4, FS_EmptySet, FS_CardinalityType
    <3>. QED BY <3>3, <3>5
  <2>. QED BY <2>1 DEF Spreads
<1>6. ASSUME NEW t \in 1 .. M - 1, Spreads(into, n, cut[t], t) PROVE Spreads(into, n, cut[t + 1], t + 1)
  <2>1. t \in 1 .. M /\ t + 1 \in 1 .. M /\ t \in Nat  OBVIOUS
  <2>2. PICK size \in 1 .. n : size = cut[t + 1]
    BY <1>3, <2>1
  <2>3. PICK L \in Nat : L = Len(parts[t]) /\ L = size - cut[t]
    <3>1. Len(parts[t]) \in 1 .. n /\ Len(parts[t]) = cut[t + 1] - cut[t]
      <4>1. OfPart(parts, cut, t, n, ord)
        BY <2>1, OfMicroBatch
      <4>. QED BY <4>1 DEF OfPart
    <3>. QED BY <2>2, <3>1
  <2>4. ~(lengths[ord[size]] * (L + 1) <= budget)
    BY <2>2, <2>3 DEF IsCut
  <2>5. size - L = cut[t]
    BY <1>3, <2>1, <2>2, <2>3
  <2>6. Spreads(into, n, size - L, t)
    BY <1>6, <2>5
  <2>. QED BY <1>1, <2>1, <2>2, <2>4, <2>6, OneMoreIsNeeded
<1>7. Bad = {}
  <2>1. SUFFICES ASSUME Bad # {} PROVE FALSE  OBVIOUS
  <2>2. Bad \subseteq Nat  OBVIOUS
  <2>3. PICK t \in Bad : \A y \in Bad : t <= y
    <3>. HIDE DEF Bad
    <3>. QED BY <2>1, <2>2, LeastNumber
  <2>4. t \in 1 .. M /\ ~Spreads(into, n, cut[t], t)  OBVIOUS
  <2>5. t # 1
    BY <1>3, <1>5, <2>4
  <2>6. t - 1 \in 1 .. M - 1 /\ t - 1 \in 1 .. M /\ ~(t <= t - 1) /\ (t - 1) + 1 = t
    BY <2>4, <2>5
  <2>7. Spreads(into, n, cut[t - 1], t - 1)
    BY <2>3, <2>6
  <2>. QED BY <1>6, <2>4, <2>6, <2>7
<1>8. Spreads(into, n, cut[M], M)
  <2>1. M \in 1 .. M
    BY <1>2
  <2>. QED BY <1>7, <2>1
<1>9. PICK I : I = {into[x] : x \in 1 .. n}  OBVIOUS
<1>10. M <= Cardinality(I)
  <2>1. 1 .. n \in SUBSET (1 .. n) /\ M \in 1 .. M
    BY <1>2
  <2>2. cut[M] <= Cardinality(1 .. n)
    BY <1>3, <1>4, <2>1
  <2>. QED BY <1>8, <1>9, <2>1, <2>2 DEF Spreads
<1>11. IsFiniteSet(1 .. M - 1) /\ Cardinality(1 .. M - 1) = M - 1
  BY <1>2, FS_Interval
<1>12. I \in SUBSET (1 .. M - 1)
  BY <1>9
<1>13. Cardinality(I) <= M - 1 /\ Cardinality(I) \in Nat
  <2>1. IsFiniteSet(I) /\ Cardinality(I) <= Cardinality(1 .. M - 1)
    BY <1>11, <1>12, FS_Subset
  <2>. QED BY <1>11, <2>1, FS_CardinalityType
<1>. QED BY <1>10, <1>13

\* sorted_partitions: no other way to distribute the sequences needs fewer micro-batches.
LEMMA MicroBatchesAreFewest ==
    ASSUME NEW n \in Nat \ {0}, NEW lengths, IsLengths(lengths, n), NEW budget \in Int, NEW args
    PROVE  Fewest(args, lengths, budget)
<1>1. DOMAIN lengths = 1 .. n
  BY DEF IsLengths
<1>2. SUFFICES ASSUME \A i \in 1 .. n : lengths[i] <= budget,
                      NEW into \in [1 .. n -> 1 .. Len(SortedPartitions(lengths, budget)) - 1],
                      \A m \in {into[i] : i \in 1 .. n} : Fits({i \in 1 .. n : into[i] = m}, lengths, budget)
               PROVE  FALSE
  BY <1>1 DEF Fewest, Applies
<1>3. PICK ord : ord = Order(lengths)  OBVIOUS
<1>4. PICK parts, cut : \E M \in Nat :
        IsCut(parts, M, cut, n, n, ord, lengths, budget) /\ SortedPartitions(lengths, budget) = Reverse(parts)
  BY <1>2, <1>3, PartitionsAreACut
<1>5. PICK M \in Nat :
        IsCut(parts, M, cut, n, n, ord, lengths, budget) /\ SortedPartitions(lengths, budget) = Reverse(parts)
  BY <1>4
<1>6. Len(SortedPartitions(lengths, budget)) = M
  <2>1. PICK R : R = Reverse(parts)  OBVIOUS
  <2>2. DOMAIN R = 1 .. M
    BY <1>5, <2>1 DEF Reverse, IsCut
  <2>3. R = [r \in 1 .. M |-> R[r]]
    BY <1>5, <2>1 DEF Reverse, IsCut
  <2>4. Len(R) = M
    BY <2>3
  <2>. QED BY <1>5, <2>1, <2>4
<1>7. AllFit(into, n, lengths, budget)
  BY <1>2 DEF AllFit
<1>8. into \in [1 .. n -> 1 .. M - 1]
  BY <1>6
<1>. QED BY <1>3, <1>5, <1>7, <1>8, CutIsFewest

\* A step that takes lengths takes those of at least one sequence.
LEMMA LengthsAreTaken ==
    ASSUME TakeLengths
    PROVE  /\ input'.of = "lengths" /\ input'.budget \in Int
           /\ \E n \in Nat \ {0} : IsLengths(input'.lengths, n)
<1>1. PICK l \in UpTo(MaxSequences, 1 .. MaxLength), b \in Budgets, args \in MicroArgs :
        input' = [of |-> "lengths", lengths |-> l, budget |-> b, args |-> args]
  BY DEF TakeLengths
<1>2. input'.of = "lengths" /\ input'.lengths = l /\ input'.budget = b
  BY <1>1
<1>3. PICK n \in 1 .. MaxSequences : l \in [1 .. n -> 1 .. MaxLength]
  BY DEF UpTo
<1>4. n \in Nat \ {0} /\ l \in [1 .. n -> Nat]
  BY <1>3
<1>5. b \in Int
  BY BudgetsAssumption
<1>. QED BY <1>2, <1>4, <1>5 DEF IsLengths

(* The invariant of both patches: what is proved of micro-batches for every input, and the worker's  *)
(* own invariant, which its calls keep.                                                              *)
IsWorker == input = [of |-> "worker", name |-> input.name, worker |-> input.worker]
PatchesInv ==
    /\ Named
    /\ input.of = "lengths" => input.budget \in Int /\ \E n \in Nat \ {0} : IsLengths(input.lengths, n)
    /\ input.of = "worker" => IsWorker /\ WorkerInv(input.worker, RunTag(input.name))

\* A worker's calls keep its invariant.
LEMMA SetUpKeeps ==
    ASSUME SetUp, input.of = "worker" => IsWorker /\ WorkerInv(input.worker, RunTag(input.name))
    PROVE  IsWorker' /\ WorkerInv(input'.worker, RunTag(input'.name))
<1>1. input.of = "worker" /\ IsWorker
  BY DEF SetUp
<1>2. PICK tag, worker : tag = RunTag(input.name) /\ worker = input.worker  OBVIOUS
<1>3. WorkerInv(worker, tag)
  BY <1>1, <1>2
<1>4. PICK next : next = input'.worker  OBVIOUS
<1>5. input' = [of |-> "worker", name |-> input.name, worker |-> next]
  <2>1. \E w : input' = [input EXCEPT !.worker = w]
    BY DEF SetUp
  <2>2. PICK w : input' = [input EXCEPT !.worker = w]
    BY <2>1
  <2>3. PICK name : name = input.name  OBVIOUS
  <2>4. input = [of |-> "worker", name |-> name, worker |-> worker]
    BY <1>1, <1>2, <2>3 DEF IsWorker
  <2>5. input' = [of |-> "worker", name |-> name, worker |-> w]
    BY <2>2, <2>4
  <2>. QED BY <1>4, <2>3, <2>5
<1>6. \/ next = Install(worker)
      \/ \E t \in Targets \ worker.loaded, raises \in BOOLEAN : next = Import(worker, t, raises)
      \/ \E t \in worker.loaded : worker.hooked /\ next = MadePath(worker, t, tag)
  BY <1>1, <1>2, <1>4 DEF SetUp, IsWorker
<1>7. WorkerInv(next, tag)
  <2>1. CASE next = Install(worker)
    BY <1>3, <2>1, InstallKeeps
  <2>2. CASE \E t \in Targets \ worker.loaded, raises \in BOOLEAN : next = Import(worker, t, raises)
    BY <1>3, <2>2, ImportKeeps
  <2>3. CASE \E t \in worker.loaded : worker.hooked /\ next = MadePath(worker, t, tag)
    BY <1>3, <2>3, MadePathKeeps
  <2>. QED BY <1>6, <2>1, <2>2, <2>3
<1>. QED BY <1>2, <1>5, <1>7 DEF IsWorker

\* The invariant holds at first.
LEMMA PatchesInit == Init => PatchesInv
BY NamedInit DEF PatchesInv

\* Every step keeps it.
LEMMA PatchesStep == PatchesInv /\ [Next]_input => PatchesInv'
<1>1. SUFFICES ASSUME PatchesInv, [Next]_input PROVE PatchesInv'  OBVIOUS
<1>2. CASE UNCHANGED input
  BY <1>1, <1>2 DEF PatchesInv, Named, IsWorker
<1>3. CASE Next
  <2>1. /\ Named' /\ (input'.of = "lengths" => TakeLengths)
        /\ input'.of = "worker" =>
             SetUp \/ \E name \in Names : input' = [of |-> "worker", name |-> name, worker |-> NewWorker]
    BY <1>1, <1>3, StepsByName DEF PatchesInv
  <2>2. input'.of = "lengths" => input'.budget \in Int /\ \E n \in Nat \ {0} : IsLengths(input'.lengths, n)
    BY <2>1, LengthsAreTaken
  <2>3. ASSUME input'.of = "worker" PROVE IsWorker' /\ WorkerInv(input'.worker, RunTag(input'.name))
    <3>1. CASE SetUp
      BY <1>1, <3>1, SetUpKeeps DEF PatchesInv
    <3>2. ASSUME NEW name \in Names, input' = [of |-> "worker", name |-> name, worker |-> NewWorker]
          PROVE  IsWorker' /\ WorkerInv(input'.worker, RunTag(input'.name))
      BY <3>2, NewWorkerIs DEF IsWorker
    <3>. QED BY <2>1, <2>3, <3>1, <3>2
  <2>. QED BY <2>1, <2>2, <2>3 DEF PatchesInv
<1>. QED BY <1>1, <1>2, <1>3

\* What the patches of verl promise, for any lengths, any budget and any order of a worker's imports:
\* micro-batches take every sequence once, fit the budget and are as few as can be
\* (microbatch_patch.py), and the two sides of a run's weight sync meet on the run's own socket
\* (zmq_socket_patch.py).
THEOREM PatchesAlwaysHold == Spec => []PatchesHold
<1>1. PatchesInv => PatchesHold
  <2>1. SUFFICES ASSUME PatchesInv PROVE PatchesHold  OBVIOUS
  <2>2. ASSUME input.of = "lengths"
        PROVE  /\ EachOnceAndFitting(input.args, input.lengths, input.budget)
               /\ Fewest(input.args, input.lengths, input.budget)
    <3>1. PICK n \in Nat \ {0} : IsLengths(input.lengths, n) /\ input.budget \in Int
      BY <2>1, <2>2 DEF PatchesInv
    <3>2. PICK lengths, budget, args : lengths = input.lengths /\ budget = input.budget /\ args = input.args
      OBVIOUS
    <3>3. n \in Nat /\ IsLengths(lengths, n) /\ budget \in Int
      BY <3>1, <3>2
    <3>4. EachOnceAndFitting(args, lengths, budget)
      BY <3>3, MicroBatchesFit
    <3>5. Fewest(args, lengths, budget)
      BY <3>3, MicroBatchesAreFewest
    <3>. QED BY <3>2, <3>4, <3>5
  <2>3. ASSUME input.of = "worker" PROVE SocketsAreOwn(input.worker, input.name)
    BY <2>1, <2>3, WorkerInvIsOwn DEF PatchesInv
  <2>. QED BY <2>2, <2>3 DEF PatchesHold
<1>. QED BY <1>1, PatchesInit, PatchesStep, PTL DEF Spec

-----------------------------------------------------------------------------
\* Induction, over a set of numbers instead of a formula.
LEMMA NaturalSteps ==
    ASSUME NEW G, 0 \in G, \A k \in Nat : k \in G => k + 1 \in G
    PROVE  Nat \subseteq G
<1>. DEFINE Bad == Nat \ G
<1>1. SUFFICES ASSUME Bad # {} PROVE FALSE  OBVIOUS
<1>2. PICK k \in Bad : \A y \in Bad : k <= y
  BY <1>1, LeastNumber
<1>3. k \in Nat /\ k \notin G /\ k # 0  OBVIOUS
<1>4. k - 1 \in Nat /\ k - 1 \notin Bad
  BY <1>2, <1>3
<1>. QED BY <1>3, <1>4

\* The same over the parts of a finite set: each part is reached by adding its elements one by one.
LEMMA PartSteps ==
    ASSUME NEW S, IsFiniteSet(S), NEW G, {} \in G,
           \A U \in SUBSET S : U # {} /\ (\A x \in U : U \ {x} \in G) => U \in G
    PROVE  SUBSET S \subseteq G
<1>. DEFINE Sizes == {k \in Nat : \A U \in SUBSET S : Cardinality(U) = k => U \in G}
<1>1. \A U \in SUBSET S : IsFiniteSet(U) /\ Cardinality(U) \in Nat
  BY FS_Subset, FS_CardinalityType
<1>2. 0 \in Sizes
  <2>1. ASSUME NEW U \in SUBSET S, Cardinality(U) = 0 PROVE U \in G
    BY <1>1, <2>1, FS_EmptySet
  <2>. QED BY <2>1
<1>3. ASSUME NEW k \in Nat, k \in Sizes PROVE k + 1 \in Sizes
  <2>1. ASSUME NEW U \in SUBSET S, Cardinality(U) = k + 1 PROVE U \in G
    <3>1. U # {}
      <4>1. Cardinality(U) # 0
        BY <2>1
      <4>. QED BY <1>1, <4>1, FS_EmptySet
    <3>2. ASSUME NEW x \in U PROVE U \ {x} \in G
      <4>1. Cardinality(U \ {x}) = Cardinality(U) - 1
        BY <1>1, FS_RemoveElement
      <4>2. Cardinality(U \ {x}) = k /\ U \ {x} \in SUBSET S
        BY <2>1, <4>1
      <4>. QED BY <1>3, <4>2
    <3>. QED BY <3>1, <3>2
  <2>. QED BY <2>1
<1>4. Nat \subseteq Sizes
  <2>. HIDE DEF Sizes
  <2>. QED BY <1>2, <1>3, NaturalSteps
<1>. QED BY <1>1, <1>4

(* Sums over the parts of a set.                                             *)

\* g sums f over the parts of S, whichever element is taken off first.
IsSum(g, f, S) ==
    /\ g \in [SUBSET S -> Int] /\ g[{}] = 0
    /\ \A U \in SUBSET S : \A x \in U : g[U] = f[x] + g[U \ {x}]

\* One element more.
LEMMA SumOfOneMore ==
    ASSUME NEW S, NEW f \in [S -> Int], NEW U \in SUBSET S, NEW x \in S, x \notin U,
           NEW g, IsSum(g, f, U)
    PROVE  \E h : IsSum(h, f, U \cup {x})
<1>. DEFINE T == U \cup {x}
            h == [V \in SUBSET T |-> IF x \in V THEN f[x] + g[V \ {x}] ELSE g[V]]
<1>1. ASSUME NEW V \in SUBSET T
      PROVE  /\ x \in V => V \ {x} \in SUBSET U /\ h[V] = f[x] + g[V \ {x}]
             /\ x \notin V => V \in SUBSET U /\ h[V] = g[V]
  OBVIOUS
<1>2. g \in [SUBSET U -> Int] /\ g[{}] = 0 /\ \A V \in SUBSET U : \A y \in V : g[V] = f[y] + g[V \ {y}]
  BY DEF IsSum
<1>3. \A y \in T : f[y] \in Int  OBVIOUS
<1>4. \A V \in SUBSET T : h[V] \in Int
  <2>1. ASSUME NEW V \in SUBSET T PROVE h[V] \in Int
    <3>1. CASE x \in V
      <4>1. PICK W \in SUBSET U : W = V \ {x}
        BY <1>1, <3>1
      <4>2. g[W] \in Int /\ f[x] \in Int /\ h[V] = f[x] + g[W]
        BY <1>1, <1>2, <3>1, <4>1
      <4>. QED BY <4>2
    <3>2. CASE x \notin V
      BY <1>1, <1>2, <3>2
    <3>. QED BY <3>1, <3>2
  <2>. HIDE DEF h
  <2>. QED BY <2>1
<1>5. h[{}] = 0
  BY <1>1, <1>2
<1>6. ASSUME NEW V \in SUBSET T, NEW y \in V PROVE h[V] = f[y] + h[V \ {y}]
  <2>1. V \ {y} \in SUBSET T /\ y \in T  OBVIOUS
  <2>2. CASE y = x
    BY <1>1, <2>1, <2>2
  <2>3. CASE y # x /\ x \notin V
    BY <1>1, <1>2, <2>1, <2>3
  <2>4. CASE y # x /\ x \in V
    <3>1. PICK W \in SUBSET U : W = V \ {x}
      BY <1>1, <2>4
    <3>2. (V \ {y}) \ {x} = W \ {y} /\ y \in W /\ W \ {y} \in SUBSET U
      BY <2>4, <3>1
    <3>3. h[V] = f[x] + g[W] /\ h[V \ {y}] = f[x] + g[W \ {y}]
      <4>1. h[V] = f[x] + g[W]
        BY <1>1, <2>4, <3>1
      <4>2. x \in V \ {y}
        BY <2>4
      <4>3. h[V \ {y}] = f[x] + g[(V \ {y}) \ {x}]
        BY <1>1, <2>1, <4>2
      <4>. QED BY <3>2, <4>1, <4>3
    <3>4. g[W] = f[y] + g[W \ {y}]
      BY <1>2, <3>2
    <3>5. g[W] \in Int /\ g[W \ {y}] \in Int /\ f[x] \in Int /\ f[y] \in Int
      BY <1>2, <1>3, <2>1, <3>2
    <3>. QED BY <3>3, <3>4, <3>5
  <2>. QED BY <2>2, <2>3, <2>4
<1>7. h \in [SUBSET T -> Int]
  <2>1. h = [V \in SUBSET T |-> h[V]]  OBVIOUS
  <2>. HIDE DEF h
  <2>. QED BY <1>4, <2>1
<1>8. IsSum(h, f, T)
  <2>. HIDE DEF h
  <2>. QED BY <1>5, <1>6, <1>7 DEF IsSum
<1>. QED BY <1>8

\* Every finite set has its sums.
LEMMA SumsExist ==
    ASSUME NEW S, IsFiniteSet(S), NEW f \in [S -> Int]
    PROVE  \E g : IsSum(g, f, S)
<1>. DEFINE G == {U \in SUBSET S : \E g : IsSum(g, f, U)}
<1>1. {} \in G
  <2>. DEFINE g == [U \in SUBSET {} |-> 0]
  <2>1. g \in [SUBSET {} -> Int] /\ g[{}] = 0  OBVIOUS
  <2>2. IsSum(g, f, {})
    BY <2>1 DEF IsSum
  <2>. QED BY <2>2
<1>2. ASSUME NEW U \in SUBSET S, U # {}, \A x \in U : U \ {x} \in G PROVE U \in G
  <2>1. PICK x \in U : TRUE
    BY <1>2
  <2>2. PICK W : W = U \ {x}  OBVIOUS
  <2>3. W \in SUBSET S /\ x \notin W /\ x \in S /\ W \cup {x} = U
    BY <2>2
  <2>4. PICK g : IsSum(g, f, W)
    BY <1>2, <2>2
  <2>5. \E h : IsSum(h, f, W \cup {x})
    BY <2>3, <2>4, SumOfOneMore
  <2>. QED BY <2>3, <2>5
<1>3. SUBSET S \subseteq G
  <2>. HIDE DEF G
  <2>. QED BY <1>1, <1>2, PartSteps
<1>4. S \in G
  BY <1>3
<1>. QED BY <1>4

\* The fold that MapThenSumSet is, over the rewards and over their squares.
RewardFold(iter, rs, I) ==
    iter = [s \in SUBSET I |->
              IF s = {} THEN 0 ELSE rs[CHOOSE x \in s : TRUE].reward + iter[s \ {CHOOSE x \in s : TRUE}]]
SquareFold(iter, rs, I) ==
    iter = [s \in SUBSET I |->
              IF s = {} THEN 0
              ELSE rs[CHOOSE x \in s : TRUE].reward * rs[CHOOSE x \in s : TRUE].reward
                     + iter[s \ {CHOOSE x \in s : TRUE}]]

AreRewards(f, rs, I) == f \in [I -> Int] /\ \A i \in I : f[i] = rs[i].reward
AreSquares(f, rs, I) == f \in [I -> Int] /\ \A i \in I : f[i] = rs[i].reward * rs[i].reward

\* The two totals of the model, unfolded once.
LEMMA TotalUnfolds ==
    ASSUME NEW rs, NEW I
    PROVE  /\ Total(rs, I) = (CHOOSE iter : RewardFold(iter, rs, I))[I]
           /\ Squares(rs, I) = (CHOOSE iter : SquareFold(iter, rs, I))[I]
BY DEF Total, Squares, MapThenSumSet, MapThenFoldSet, RewardFold, SquareFold

\* Both folds take the elements off in an order of their own, which does not matter.
LEMMA TotalOfPart ==
    ASSUME NEW rs, NEW I, IsFiniteSet(I), NEW f, AreRewards(f, rs, I), NEW g, IsSum(g, f, I)
    PROVE  Total(rs, I) = g[I]
<1>. DEFINE first(s) == CHOOSE x \in s : TRUE
<1>1. g \in [SUBSET I -> Int] /\ g[{}] = 0 /\ \A U \in SUBSET I : \A x \in U : g[U] = f[x] + g[U \ {x}]
  BY DEF IsSum
<1>0. \A i \in I : f[i] = rs[i].reward
  BY DEF AreRewards
<1>2. \A U \in SUBSET I : U # {} => first(U) \in U  OBVIOUS
<1>3. RewardFold(g, rs, I)
  <2>1. g = [U \in SUBSET I |-> g[U]]
    BY <1>1
  <2>2. ASSUME NEW U \in SUBSET I
        PROVE  g[U] = IF U = {} THEN 0 ELSE rs[first(U)].reward + g[U \ {first(U)}]
    <3>1. CASE U # {}
      <4>1. first(U) \in U /\ first(U) \in I
        BY <1>2, <3>1
      <4>. HIDE DEF first
      <4>2. g[U] = f[first(U)] + g[U \ {first(U)}]
        BY <1>1, <4>1
      <4>. QED BY <1>0, <3>1, <4>1, <4>2
    <3>. HIDE DEF first
    <3>. QED BY <1>1, <3>1
  <2>. QED BY <2>1, <2>2 DEF RewardFold
<1>4. PICK iter : iter = (CHOOSE h : RewardFold(h, rs, I))  OBVIOUS
<1>5. RewardFold(iter, rs, I)
  BY <1>3, <1>4
<1>6. \A U \in SUBSET I : iter[U] = IF U = {} THEN 0 ELSE rs[first(U)].reward + iter[U \ {first(U)}]
  BY <1>5 DEF RewardFold
<1>. DEFINE G == {U \in SUBSET I : iter[U] = g[U]}
<1>7. {} \in G
  BY <1>1, <1>6
<1>8. ASSUME NEW U \in SUBSET I, U # {}, \A x \in U : U \ {x} \in G PROVE U \in G
  <2>1. PICK x \in U : x = first(U)
    BY <1>2, <1>8
  <2>2. iter[U] = rs[x].reward + iter[U \ {x}] /\ iter[U \ {x}] = g[U \ {x}]
    BY <1>6, <1>8, <2>1
  <2>3. g[U] = f[x] + g[U \ {x}] /\ f[x] = rs[x].reward
    BY <1>0, <1>1
  <2>. QED BY <2>2, <2>3
<1>9. SUBSET I \subseteq G
  <2>. HIDE DEF G
  <2>. QED BY <1>7, <1>8, PartSteps
<1>10. iter[I] = g[I]
  BY <1>9
<1>. QED BY <1>4, <1>10, TotalUnfolds

\* The same of the squares.
LEMMA SquaresOfPart ==
    ASSUME NEW rs, NEW I, IsFiniteSet(I), NEW f, AreSquares(f, rs, I), NEW g, IsSum(g, f, I)
    PROVE  Squares(rs, I) = g[I]
<1>. DEFINE first(s) == CHOOSE x \in s : TRUE
<1>1. g \in [SUBSET I -> Int] /\ g[{}] = 0 /\ \A U \in SUBSET I : \A x \in U : g[U] = f[x] + g[U \ {x}]
  BY DEF IsSum
<1>0. \A i \in I : f[i] = rs[i].reward * rs[i].reward
  BY DEF AreSquares
<1>2. \A U \in SUBSET I : U # {} => first(U) \in U  OBVIOUS
<1>3. SquareFold(g, rs, I)
  <2>1. g = [U \in SUBSET I |-> g[U]]
    BY <1>1
  <2>2. ASSUME NEW U \in SUBSET I
        PROVE  g[U] = IF U = {} THEN 0 ELSE rs[first(U)].reward * rs[first(U)].reward + g[U \ {first(U)}]
    <3>1. CASE U # {}
      <4>1. first(U) \in U /\ first(U) \in I
        BY <1>2, <3>1
      <4>. HIDE DEF first
      <4>2. g[U] = f[first(U)] + g[U \ {first(U)}]
        BY <1>1, <4>1
      <4>. QED BY <1>0, <3>1, <4>1, <4>2
    <3>. HIDE DEF first
    <3>. QED BY <1>1, <3>1
  <2>. QED BY <2>1, <2>2 DEF SquareFold
<1>4. PICK iter : iter = (CHOOSE h : SquareFold(h, rs, I))  OBVIOUS
<1>5. SquareFold(iter, rs, I)
  BY <1>3, <1>4
<1>6. \A U \in SUBSET I :
         iter[U] = IF U = {} THEN 0 ELSE rs[first(U)].reward * rs[first(U)].reward + iter[U \ {first(U)}]
  BY <1>5 DEF SquareFold
<1>. DEFINE G == {U \in SUBSET I : iter[U] = g[U]}
<1>7. {} \in G
  BY <1>1, <1>6
<1>8. ASSUME NEW U \in SUBSET I, U # {}, \A x \in U : U \ {x} \in G PROVE U \in G
  <2>1. PICK x \in U : x = first(U)
    BY <1>2, <1>8
  <2>2. iter[U] = rs[x].reward * rs[x].reward + iter[U \ {x}] /\ iter[U \ {x}] = g[U \ {x}]
    BY <1>6, <1>8, <2>1
  <2>3. g[U] = f[x] + g[U \ {x}] /\ f[x] = rs[x].reward * rs[x].reward
    BY <1>0, <1>1
  <2>. QED BY <2>2, <2>3
<1>9. SUBSET I \subseteq G
  <2>. HIDE DEF G
  <2>. QED BY <1>7, <1>8, PartSteps
<1>10. iter[I] = g[I]
  BY <1>9
<1>. QED BY <1>4, <1>10, TotalUnfolds

(* Totals, squares and variances of a batch.                                 *)

IsBatch(rs, n) ==
    /\ n \in Nat \ {0} /\ DOMAIN rs = 1 .. n /\ Len(rs) = n
    /\ \A i \in 1 .. n : rs[i].reward \in 0 .. One /\ rs[i].kind \in {"std", "cuts"}

Adds(rs, n) ==
    \A I \in SUBSET (1 .. n) :
       /\ Total(rs, I) \in Int /\ Squares(rs, I) \in Int
       /\ I = {} => Total(rs, I) = 0 /\ Squares(rs, I) = 0
       /\ \A x \in I : /\ Total(rs, I) = rs[x].reward + Total(rs, I \ {x})
                       /\ Squares(rs, I) = rs[x].reward * rs[x].reward + Squares(rs, I \ {x})

\* A sum is that of the parts' sums.
LEMMA SumOfPart ==
    ASSUME NEW g, NEW f, NEW S, IsSum(g, f, S), NEW I \in SUBSET S
    PROVE  IsSum([U \in SUBSET I |-> g[U]], f, I)
BY DEF IsSum

\* Total and Squares add up whichever rollout is taken off.
LEMMA TotalsAdd == ASSUME NEW n, NEW rs, IsBatch(rs, n) PROVE Adds(rs, n)
<1>1. n \in Nat /\ \A i \in 1 .. n : rs[i].reward \in Int
  BY DiagnosticsAssumption DEF IsBatch
<1>2. PICK f \in [1 .. n -> Int] : \A i \in 1 .. n : f[i] = rs[i].reward
  <2>1. [i \in 1 .. n |-> rs[i].reward] \in [1 .. n -> Int]
    BY <1>1
  <2>. QED BY <2>1
<1>3. PICK e \in [1 .. n -> Int] : \A i \in 1 .. n : e[i] = rs[i].reward * rs[i].reward
  <2>1. \A i \in 1 .. n : rs[i].reward * rs[i].reward \in Int
    BY <1>1
  <2>2. [i \in 1 .. n |-> rs[i].reward * rs[i].reward] \in [1 .. n -> Int]
    BY <2>1
  <2>. QED BY <2>2
<1>4. IsFiniteSet(1 .. n)
  BY <1>1, FS_Interval
<1>5. PICK t : IsSum(t, f, 1 .. n)
  BY <1>4, SumsExist
<1>6. PICK q : IsSum(q, e, 1 .. n)
  BY <1>4, SumsExist
<1>7. ASSUME NEW I \in SUBSET (1 .. n) PROVE Total(rs, I) = t[I] /\ Squares(rs, I) = q[I]
  <2>1. IsFiniteSet(I)
    BY <1>4, FS_Subset
  <2>2. PICK fi : AreRewards(fi, rs, I)
    <3>1. PICK h : h = [i \in I |-> f[i]]  OBVIOUS
    <3>2. h \in [I -> Int]
      BY <3>1
    <3>3. \A i \in I : h[i] = rs[i].reward
      BY <1>2, <3>1
    <3>. QED BY <3>2, <3>3 DEF AreRewards
  <2>3. PICK ei : AreSquares(ei, rs, I)
    <3>1. PICK h : h = [i \in I |-> e[i]]  OBVIOUS
    <3>2. h \in [I -> Int]
      BY <3>1
    <3>3. \A i \in I : h[i] = rs[i].reward * rs[i].reward
      BY <1>3, <3>1
    <3>. QED BY <3>2, <3>3 DEF AreSquares
  <2>4. PICK ti : ti = [U \in SUBSET I |-> t[U]]  OBVIOUS
  <2>5. PICK qi : qi = [U \in SUBSET I |-> q[U]]  OBVIOUS
  <2>6. IsSum(ti, f, I) /\ IsSum(qi, e, I)
    BY <1>5, <1>6, <2>4, <2>5, SumOfPart
  <2>7. IsSum(ti, fi, I) /\ IsSum(qi, ei, I)
    <3>1. \A i \in I : fi[i] = f[i] /\ ei[i] = e[i]
      BY <1>2, <1>3, <2>2, <2>3 DEF AreRewards, AreSquares
    <3>2. \A U \in SUBSET I : \A x \in U : x \in I  OBVIOUS
    <3>. QED BY <2>6, <3>1, <3>2 DEF IsSum
  <2>8. Total(rs, I) = ti[I]
    BY <2>1, <2>2, <2>7, TotalOfPart
  <2>9. Squares(rs, I) = qi[I]
    BY <2>1, <2>3, <2>7, SquaresOfPart
  <2>. QED BY <2>4, <2>5, <2>8, <2>9
<1>8. ASSUME NEW I \in SUBSET (1 .. n)
      PROVE  /\ t[I] \in Int /\ q[I] \in Int /\ (I = {} => t[I] = 0 /\ q[I] = 0)
             /\ \A x \in I : /\ t[I] = rs[x].reward + t[I \ {x}]
                             /\ q[I] = rs[x].reward * rs[x].reward + q[I \ {x}]
  <2>1. ASSUME NEW x \in I PROVE f[x] = rs[x].reward /\ e[x] = rs[x].reward * rs[x].reward
    BY <1>2, <1>3
  <2>. QED BY <1>5, <1>6, <2>1 DEF IsSum
<1>9. \A I \in SUBSET (1 .. n) : \A x \in I : I \ {x} \in SUBSET (1 .. n)  OBVIOUS
<1>. QED BY <1>7, <1>8, <1>9 DEF Adds

\* Rewards that are all the same.
LEMMA TotalOfSame ==
    ASSUME NEW n, NEW rs, IsBatch(rs, n), NEW I \in SUBSET (1 .. n), NEW r \in 0 .. One, \A i \in I : rs[i].reward = r
    PROVE  Total(rs, I) = r * Cardinality(I) /\ Squares(rs, I) = r * r * Cardinality(I)
<1>1. n \in Nat /\ r \in Int
  BY DiagnosticsAssumption DEF IsBatch
<1>2. Adds(rs, n)
  BY TotalsAdd
<1>3. IsFiniteSet(I)
  <2>1. IsFiniteSet(1 .. n)
    BY <1>1, FS_Interval
  <2>. QED BY <2>1, FS_Subset
<1>. DEFINE G == {U \in SUBSET I : Total(rs, U) = r * Cardinality(U) /\ Squares(rs, U) = r * r * Cardinality(U)}
<1>4. {} \in G
  BY <1>1, <1>2, FS_EmptySet DEF Adds
<1>5. ASSUME NEW U \in SUBSET I, U # {}, \A x \in U : U \ {x} \in G PROVE U \in G
  <2>1. PICK x \in U : TRUE
    BY <1>5
  <2>2. PICK V \in SUBSET I : V = U \ {x}  OBVIOUS
  <2>3. IsFiniteSet(U) /\ IsFiniteSet(V)
    BY <1>3, FS_Subset
  <2>4. PICK k \in Nat : k = Cardinality(V)
    BY <2>3, FS_CardinalityType
  <2>5. Cardinality(U) = k + 1
    <3>1. Cardinality(U) \in Nat /\ Cardinality(V) = Cardinality(U) - 1
      BY <2>2, <2>3, FS_CardinalityType, FS_RemoveElement
    <3>. QED BY <2>4, <3>1
  <2>6. Total(rs, V) = r * k /\ Squares(rs, V) = r * r * k
    BY <1>5, <2>2, <2>4
  <2>7. Total(rs, U) = r + r * k /\ Squares(rs, U) = r * r + r * r * k
    BY <1>2, <2>2, <2>6 DEF Adds
  <2>8. r + r * k = r * (k + 1) /\ r * r + r * r * k = r * r * (k + 1)
    BY <1>1
  <2>. QED BY <2>5, <2>7, <2>8
<1>6. SUBSET I \subseteq G
  <2>. HIDE DEF G
  <2>. QED BY <1>3, <1>4, <1>5, PartSteps
<1>. QED BY <1>6

\* The arithmetic of one more rollout.
LEMMA OneMoreSquare ==
    ASSUME NEW c \in Int, NEW T \in Int, NEW r \in Int, NEW t \in Int, NEW q \in Int, NEW k \in Int
    PROVE  /\ c * c * (r * r + q) - 2 * c * T * (r + t) + T * T * (k + 1)
                = (c * c * q - 2 * c * T * t + T * T * k) + (c * r - T) * (c * r - T)
           /\ (c * r - T) * (c * r - T) >= 0
           /\ (c * r - T) * (c * r - T) = 0 => c * r = T
<1>1. c * c * (r * r + q) - 2 * c * T * (r + t) + T * T * (k + 1)
        = (c * c * q - 2 * c * T * t + T * T * k) + (c * r - T) * (c * r - T)
  OBVIOUS
<1>2. PICK d \in Int : d = c * r - T  OBVIOUS
<1>3. d * d >= 0 /\ (d * d = 0 => d = 0)  OBVIOUS
<1>. QED BY <1>1, <1>2, <1>3

\* A variance is 0 exactly when all rewards are the same.
LEMMA VarianceTells ==
    ASSUME NEW n, NEW rs, IsBatch(rs, n), NEW I \in SUBSET (1 .. n), I # {}
    PROVE  Variance(rs, I) = 0 <=> \E r \in 0 .. One : \A i \in I : rs[i].reward = r
<1>1. n \in Nat /\ \A i \in 1 .. n : rs[i].reward \in 0 .. One /\ rs[i].reward \in Int
  BY DiagnosticsAssumption DEF IsBatch
<1>2. Adds(rs, n)
  BY TotalsAdd
<1>3. IsFiniteSet(I)
  <2>1. IsFiniteSet(1 .. n)
    BY <1>1, FS_Interval
  <2>. QED BY <2>1, FS_Subset
<1>4. ASSUME NEW U \in SUBSET I
      PROVE  /\ U \in SUBSET (1 .. n) /\ Cardinality(U) \in Nat
             /\ Total(rs, U) \in Int /\ Squares(rs, U) \in Int
             /\ \A x \in U : /\ Cardinality(U) = Cardinality(U \ {x}) + 1
                             /\ Total(rs, U) = rs[x].reward + Total(rs, U \ {x})
                             /\ Squares(rs, U) = rs[x].reward * rs[x].reward + Squares(rs, U \ {x})
  <2>1. IsFiniteSet(U)
    BY <1>3, FS_Subset
  <2>2. Cardinality(U) \in Nat /\ \A x \in U : Cardinality(U \ {x}) = Cardinality(U) - 1
    BY <2>1, FS_CardinalityType, FS_RemoveElement
  <2>3. \A x \in U : Cardinality(U) = Cardinality(U \ {x}) + 1
    BY <2>2
  <2>. QED BY <1>2, <2>2, <2>3 DEF Adds
<1>5. PICK c \in Nat : c = Cardinality(I) /\ c # 0
  BY <1>3, FS_CardinalityType, FS_EmptySet
<1>6. PICK T \in Int : T = Total(rs, I)
  BY <1>4
<1>7. PICK Q \in Int : Q = Squares(rs, I)
  BY <1>4
<1>8. Variance(rs, I) = c * Q - T * T
  BY <1>5, <1>6, <1>7 DEF Variance
<1>9. Total(rs, {}) = 0 /\ Squares(rs, {}) = 0 /\ Cardinality({}) = 0
  BY <1>2, FS_EmptySet DEF Adds
<1>10. ASSUME Variance(rs, I) = 0 PROVE \E r \in 0 .. One : \A i \in I : rs[i].reward = r
  <2>. DEFINE P(U) == c * c * Squares(rs, U) - 2 * c * T * Total(rs, U) + T * T * Cardinality(U)
              G == {U \in SUBSET I : P(U) >= 0}
  <2>1. ASSUME NEW U \in SUBSET I, NEW x \in U
        PROVE  /\ P(U) = P(U \ {x}) + (c * rs[x].reward - T) * (c * rs[x].reward - T)
               /\ (c * rs[x].reward - T) * (c * rs[x].reward - T) >= 0
               /\ (c * rs[x].reward - T) * (c * rs[x].reward - T) = 0 => c * rs[x].reward = T
               /\ P(U \ {x}) \in Int /\ (c * rs[x].reward - T) * (c * rs[x].reward - T) \in Int
    <3>0. U \ {x} \in SUBSET I  OBVIOUS
    <3>1. PICK r \in Int : r = rs[x].reward
      BY <1>1
    <3>2. PICK t \in Int : t = Total(rs, U \ {x})
      BY <1>4, <3>0
    <3>3. PICK q \in Int : q = Squares(rs, U \ {x})
      BY <1>4, <3>0
    <3>4. PICK k \in Int : k = Cardinality(U \ {x})
      BY <1>4, <3>0
    <3>5. P(U \ {x}) = c * c * q - 2 * c * T * t + T * T * k
      BY <3>2, <3>3, <3>4
    <3>6. P(U) = c * c * (r * r + q) - 2 * c * T * (r + t) + T * T * (k + 1)
      BY <1>4, <3>1, <3>2, <3>3, <3>4
    <3>7. PICK d \in Int : d = (c * r - T) * (c * r - T)  OBVIOUS
    <3>8. PICK p \in Int : p = c * c * q - 2 * c * T * t + T * T * k  OBVIOUS
    <3>9. /\ c * c * (r * r + q) - 2 * c * T * (r + t) + T * T * (k + 1) = p + d
          /\ d >= 0 /\ (d = 0 => c * r = T)
      BY <3>7, <3>8, OneMoreSquare
    <3>. HIDE DEF P
    <3>. QED BY <3>1, <3>5, <3>6, <3>7, <3>8, <3>9
  <2>2. {} \in G
    BY <1>9
  <2>3. ASSUME NEW U \in SUBSET I, U # {}, \A x \in U : U \ {x} \in G PROVE U \in G
    <3>1. PICK x \in U : TRUE
      BY <2>3
    <3>2. P(U \ {x}) >= 0
      BY <2>3, <3>1
    <3>3. P(U) >= 0
      <4>. HIDE DEF P
      <4>. QED BY <2>1, <3>2
    <3>. QED BY <3>3
  <2>4. SUBSET I \subseteq G
    <3>. HIDE DEF G
    <3>. QED BY <1>3, <2>2, <2>3, PartSteps
  <2>5. P(I) = 0
    <3>1. P(I) = c * c * Q - 2 * c * T * T + T * T * c
      BY <1>5, <1>6, <1>7
    <3>2. c * Q - T * T = 0
      BY <1>8, <1>10
    <3>3. c * c * Q - 2 * c * T * T + T * T * c = c * (c * Q - T * T)  OBVIOUS
    <3>. HIDE DEF P
    <3>. QED BY <3>1, <3>2, <3>3
  <2>6. ASSUME NEW i \in I PROVE c * rs[i].reward = T
    <3>1. P(I \ {i}) >= 0
      BY <2>4
    <3>. HIDE DEF P
    <3>2. PICK p \in Int : p = P(I \ {i})
      BY <2>1
    <3>3. PICK d \in Int : d = (c * rs[i].reward - T) * (c * rs[i].reward - T)
      BY <2>1
    <3>4. 0 = p + d /\ p >= 0 /\ d >= 0 /\ (d = 0 => c * rs[i].reward = T)
      BY <2>1, <2>5, <3>1, <3>2, <3>3
    <3>. QED BY <3>4
  <2>7. PICK i \in I : TRUE  OBVIOUS
  <2>8. ASSUME NEW j \in I PROVE rs[j].reward = rs[i].reward
    <3>1. PICK a \in Int : a = rs[i].reward
      BY <1>1
    <3>2. PICK b \in Int : b = rs[j].reward
      BY <1>1
    <3>3. c * a = c * b
      BY <2>6, <3>1, <3>2
    <3>. QED BY <1>5, <3>1, <3>2, <3>3
  <2>. QED BY <1>1, <2>8
<1>11. ASSUME NEW r \in 0 .. One, \A i \in I : rs[i].reward = r PROVE Variance(rs, I) = 0
  <2>0. r \in Int
    BY DiagnosticsAssumption
  <2>4. Total(rs, I) = r * c /\ Squares(rs, I) = r * r * c
    BY <1>5, <1>11, TotalOfSame
  <2>5. c * (r * r * c) - (r * c) * (r * c) = 0
    BY <2>0
  <2>. QED BY <1>6, <1>7, <1>8, <2>4, <2>5
<1>. QED BY <1>10, <1>11

\* The sums of two parts that share nothing.
LEMMA TotalOfUnion ==
    ASSUME NEW n, NEW rs, IsBatch(rs, n), NEW A \in SUBSET (1 .. n), NEW B \in SUBSET (1 .. n), A \cap B = {}
    PROVE  /\ Total(rs, A \cup B) = Total(rs, A) + Total(rs, B)
           /\ Squares(rs, A \cup B) = Squares(rs, A) + Squares(rs, B)
           /\ Cardinality(A \cup B) = Cardinality(A) + Cardinality(B)
<1>1. n \in Nat /\ \A i \in 1 .. n : rs[i].reward \in Int
  BY DiagnosticsAssumption DEF IsBatch
<1>2. Adds(rs, n)
  BY TotalsAdd
<1>3. IsFiniteSet(1 .. n)
  BY <1>1, FS_Interval
<1>4. \A U \in SUBSET (1 .. n) : /\ IsFiniteSet(U) /\ Cardinality(U) \in Nat
                                 /\ Total(rs, U) \in Int /\ Squares(rs, U) \in Int
  BY <1>2, <1>3, FS_Subset, FS_CardinalityType DEF Adds
<1>. DEFINE G == {U \in SUBSET B : /\ Total(rs, A \cup U) = Total(rs, A) + Total(rs, U)
                                   /\ Squares(rs, A \cup U) = Squares(rs, A) + Squares(rs, U)}
<1>5. {} \in G
  <2>1. A \cup {} = A /\ Total(rs, {}) = 0 /\ Squares(rs, {}) = 0
    BY <1>2 DEF Adds
  <2>. QED BY <1>4, <2>1
<1>6. ASSUME NEW U \in SUBSET B, U # {}, \A x \in U : U \ {x} \in G PROVE U \in G
  <2>1. PICK x \in U : TRUE
    BY <1>6
  <2>2. PICK V : V = U \ {x}  OBVIOUS
  <2>3. V \in SUBSET (1 .. n) /\ U \in SUBSET (1 .. n) /\ A \cup U \in SUBSET (1 .. n)
        /\ (A \cup U) \ {x} = A \cup V /\ x \in A \cup U
    BY <2>2
  <2>4. Total(rs, A \cup V) = Total(rs, A) + Total(rs, V) /\ Squares(rs, A \cup V) = Squares(rs, A) + Squares(rs, V)
    BY <1>6, <2>2
  <2>5. /\ Total(rs, A \cup U) = rs[x].reward + Total(rs, A \cup V)
        /\ Squares(rs, A \cup U) = rs[x].reward * rs[x].reward + Squares(rs, A \cup V)
    BY <1>2, <2>3 DEF Adds
  <2>6. /\ Total(rs, U) = rs[x].reward + Total(rs, V)
        /\ Squares(rs, U) = rs[x].reward * rs[x].reward + Squares(rs, V)
    BY <1>2, <2>2, <2>3 DEF Adds
  <2>7. PICK r \in Int : r = rs[x].reward
    BY <1>1
  <2>8. /\ Total(rs, A) \in Int /\ Total(rs, V) \in Int /\ Squares(rs, A) \in Int /\ Squares(rs, V) \in Int
        /\ r * r \in Int
    BY <1>4, <2>3
  <2>9. /\ Total(rs, A \cup U) = Total(rs, A) + Total(rs, U)
        /\ Squares(rs, A \cup U) = Squares(rs, A) + Squares(rs, U)
    BY <2>4, <2>5, <2>6, <2>7, <2>8
  <2>. QED BY <2>9
<1>7. SUBSET B \subseteq G
  <2>1. IsFiniteSet(B)
    BY <1>4
  <2>. HIDE DEF G
  <2>. QED BY <1>5, <1>6, <2>1, PartSteps
<1>8. B \in G
  BY <1>7
<1>9. Cardinality(A \cup B) = Cardinality(A) + Cardinality(B)
  <2>1. Cardinality(A \cup B) = Cardinality(A) + Cardinality(B) - Cardinality(A \cap B)
    BY <1>4, FS_Union
  <2>2. Cardinality(A \cap B) = 0
    BY FS_EmptySet
  <2>. QED BY <1>4, <2>1, <2>2
<1>. QED BY <1>8, <1>9

\* Eq. 5 of two halves of s rollouts.
LEMMA EvenSplit ==
    ASSUME NEW s \in Int, NEW a \in Int, NEW p \in Int, NEW b \in Int, NEW q \in Int
    PROVE  4 * s * s * s * s * ((s + s) * (p + q) - (a + b) * (a + b))
             - (s + s) * (s + s) * (2 * ((s * p - a * a) * s * s + (s * q - b * b) * s * s)
                                      + (a * s - b * s) * (a * s - b * s)) = 0
<1>1. PICK d \in Int : d = s * s  OBVIOUS
<1>2. (a * s - b * s) * (a * s - b * s) = d * ((a - b) * (a - b))
  BY <1>1
<1>3. (s * p - a * a) * s * s + (s * q - b * b) * s * s = d * (s * (p + q) - a * a - b * b)
  BY <1>1
<1>4. (s + s) * (s + s) = 4 * d /\ 4 * s * s * s * s = 4 * d * d
  BY <1>1
<1>5. (s + s) * (p + q) - (a + b) * (a + b) = 2 * (s * (p + q) - a * a - b * b) + (a - b) * (a - b)  OBVIOUS
<1>. QED BY <1>2, <1>3, <1>4, <1>5

\* The variance decomposition has no residual where the halves are even.
THEOREM HalvesAreExact ==
    ASSUME NEW n, NEW rs, IsBatch(rs, n)
    PROVE  HalvesHaveNoResidual(rs)
<1>1. SUFFICES ASSUME NEW I \in Groups(rs), NEW S, S = OfKind(rs, I, "std"), NEW C, C = OfKind(rs, I, "cuts"),
                      Cardinality(S) = Cardinality(C)
               PROVE  IdentityResidual(rs, S, C) = 0
  BY DEF HalvesHaveNoResidual
<1>2. I \in SUBSET (1 .. n)
  BY DEF Groups, IsBatch
<1>3. S \in SUBSET (1 .. n) /\ C \in SUBSET (1 .. n) /\ S \cap C = {}
  BY <1>1, <1>2 DEF OfKind
<1>4. IsFiniteSet(1 .. n)
  BY FS_Interval DEF IsBatch
<1>5. PICK s \in Int : s = Cardinality(S)
  <2>1. IsFiniteSet(S)
    BY <1>3, <1>4, FS_Subset
  <2>. QED BY <2>1, FS_CardinalityType
<1>6. Adds(rs, n)
  BY TotalsAdd
<1>7. PICK a \in Int : a = Total(rs, S)
  BY <1>3, <1>6 DEF Adds
<1>8. PICK p \in Int : p = Squares(rs, S)
  BY <1>3, <1>6 DEF Adds
<1>9. PICK b \in Int : b = Total(rs, C)
  BY <1>3, <1>6 DEF Adds
<1>10. PICK q \in Int : q = Squares(rs, C)
  BY <1>3, <1>6 DEF Adds
<1>11. Total(rs, S \cup C) = a + b /\ Squares(rs, S \cup C) = p + q /\ Cardinality(S \cup C) = s + s
  BY <1>1, <1>3, <1>5, <1>7, <1>8, <1>9, <1>10, TotalOfUnion
<1>12. /\ Variance(rs, S) = s * p - a * a /\ Variance(rs, C) = s * q - b * b
       /\ Variance(rs, S \cup C) = (s + s) * (p + q) - (a + b) * (a + b)
       /\ Between(rs, S, C) = (a * s - b * s) * (a * s - b * s)
  BY <1>1, <1>5, <1>7, <1>8, <1>9, <1>10, <1>11 DEF Variance, Between
<1>13. IdentityResidual(rs, S, C)
         = 4 * s * s * s * s * ((s + s) * (p + q) - (a + b) * (a + b))
             - (s + s) * (s + s) * (2 * ((s * p - a * a) * s * s + (s * q - b * b) * s * s)
                                      + (a * s - b * s) * (a * s - b * s))
  BY <1>1, <1>5, <1>12 DEF IdentityResidual
<1>. QED BY <1>13, EvenSplit

\* Of rollouts that agree, and of those that do not: the diagnostics of a group by its rewards.
LEMMA CollapsedMeans ==
    ASSUME NEW n, NEW rs, IsBatch(rs, n), NEW I \in SUBSET (1 .. n)
    PROVE  IsCollapsed(rs, I) <=> I # {} /\ \E r \in 0 .. One : \A i \in I : rs[i].reward = r
<1>1. CASE I = {}
  BY <1>1 DEF IsCollapsed
<1>2. CASE I # {}
  BY <1>2, VarianceTells DEF IsCollapsed
<1>. QED BY <1>1, <1>2

\* A group counts as saved exactly when its standard rollouts agree and a CUTS rollout differs.
LEMMA SavedDiffer ==
    ASSUME NEW n, NEW rs, IsBatch(rs, n)
    PROVE  SavedMeansCutsDiffers(rs)
<1>. DEFINE CutsDiffers(I) ==
              \E r \in 0 .. One :
                /\ OfKind(rs, I, "std") # {}
                /\ \A i \in OfKind(rs, I, "std") : rs[i].reward = r
                /\ \E i \in OfKind(rs, I, "cuts") : rs[i].reward # r
            CountsAsSaved(I) == OfKind(rs, I, "std") # {} /\ OfKind(rs, I, "cuts") # {} /\ Saved(rs, I)
<1>1. ASSUME NEW I \in Groups(rs) PROVE CountsAsSaved(I) <=> CutsDiffers(I)
  <2>1. I \in SUBSET (1 .. n)
    BY DEF Groups, IsBatch
  <2>2. PICK S \in SUBSET (1 .. n) : S = OfKind(rs, I, "std")
    BY <2>1 DEF OfKind
  <2>3. PICK C \in SUBSET (1 .. n) : C = OfKind(rs, I, "cuts")
    BY <2>1 DEF OfKind
  <2>4. I = S \cup C
    BY <2>1, <2>2, <2>3 DEF OfKind, IsBatch
  <2>5. /\ IsCollapsed(rs, S) <=> S # {} /\ \E r \in 0 .. One : \A i \in S : rs[i].reward = r
        /\ IsCollapsed(rs, I) <=> I # {} /\ \E r \in 0 .. One : \A i \in I : rs[i].reward = r
    BY <2>1, CollapsedMeans
  <2>6. ASSUME CountsAsSaved(I) PROVE CutsDiffers(I)
    <3>1. IsCollapsed(rs, S) /\ ~IsCollapsed(rs, I)
      BY <2>2, <2>6 DEF Saved
    <3>2. PICK r \in 0 .. One : \A i \in S : rs[i].reward = r
      BY <2>5, <3>1
    <3>3. S # {} /\ I # {} /\ ~\A i \in I : rs[i].reward = r
      BY <2>4, <2>5, <3>1
    <3>4. \E i \in C : rs[i].reward # r
      BY <2>4, <3>2, <3>3
    <3>. QED BY <2>2, <2>3, <3>2, <3>3, <3>4
  <2>7. ASSUME CutsDiffers(I) PROVE CountsAsSaved(I)
    <3>1. PICK r \in 0 .. One : S # {} /\ (\A i \in S : rs[i].reward = r) /\ \E i \in C : rs[i].reward # r
      BY <2>2, <2>3, <2>7
    <3>2. IsCollapsed(rs, S)
      BY <2>5, <3>1
    <3>3. ~IsCollapsed(rs, I)
      BY <2>4, <2>5, <3>1
    <3>. QED BY <2>2, <2>3, <3>1, <3>2, <3>3 DEF Saved
  <2>. QED BY <2>6, <2>7
<1>2. Diagnostics(rs).nSaved = Cardinality({I \in {J \in Groups(rs) : OfKind(rs, J, "std") # {} /\ OfKind(rs, J, "cuts") # {}} :
                                              Saved(rs, I)})
  BY DEF Diagnostics
<1>3. {I \in {J \in Groups(rs) : OfKind(rs, J, "std") # {} /\ OfKind(rs, J, "cuts") # {}} : Saved(rs, I)}
        = {I \in Groups(rs) : CutsDiffers(I)}
  BY <1>1
<1>. QED BY <1>2, <1>3 DEF SavedMeansCutsDiffers

\* Of rewards that are all 0 or One, one that is the mean says that all are the same.
LEMMA MeanOfTwoValues ==
    ASSUME NEW n, NEW rs, IsBatch(rs, n), NEW I \in SUBSET (1 .. n), \A i \in I : rs[i].reward \in {0, One}
    PROVE  /\ Squares(rs, I) = One * Total(rs, I)
           /\ \A i \in I : rs[i].reward * Cardinality(I) = Total(rs, I) => Variance(rs, I) = 0
<1>1. n \in Nat /\ One \in Nat
  BY DiagnosticsAssumption DEF IsBatch
<1>2. Adds(rs, n)
  BY TotalsAdd
<1>3. IsFiniteSet(I)
  <2>1. IsFiniteSet(1 .. n)
    BY <1>1, FS_Interval
  <2>. QED BY <2>1, FS_Subset
<1>. DEFINE G == {U \in SUBSET I : Squares(rs, U) = One * Total(rs, U)}
<1>4. {} \in G
  BY <1>1, <1>2 DEF Adds
<1>5. ASSUME NEW U \in SUBSET I, U # {}, \A x \in U : U \ {x} \in G PROVE U \in G
  <2>1. PICK x \in U : TRUE
    BY <1>5
  <2>2. PICK V \in SUBSET I : V = U \ {x}  OBVIOUS
  <2>3. V \in SUBSET (1 .. n) /\ U \in SUBSET (1 .. n) /\ x \in I  OBVIOUS
  <2>4. PICK t \in Int : t = Total(rs, V)
    BY <1>2, <2>3 DEF Adds
  <2>5. Squares(rs, V) = One * t
    BY <1>5, <2>2, <2>4
  <2>6. PICK r \in {0, One} : r = rs[x].reward
    BY <2>3
  <2>7. Total(rs, U) = r + t /\ Squares(rs, U) = r * r + One * t
    BY <1>2, <2>2, <2>3, <2>4, <2>5, <2>6 DEF Adds
  <2>8. r * r + One * t = One * (r + t)
    <3>1. r * r = One * r
      BY <1>1
    <3>. QED BY <1>1, <3>1
  <2>. QED BY <2>7, <2>8
<1>6. SUBSET I \subseteq G
  <2>. HIDE DEF G
  <2>. QED BY <1>3, <1>4, <1>5, PartSteps
<1>7. Squares(rs, I) = One * Total(rs, I)
  BY <1>6
<1>8. ASSUME NEW i \in I, rs[i].reward * Cardinality(I) = Total(rs, I) PROVE Variance(rs, I) = 0
  <2>1. PICK c \in Int : c = Cardinality(I)
    BY <1>3, FS_CardinalityType
  <2>2. PICK r \in {0, One} : r = rs[i].reward  OBVIOUS
  <2>3. Total(rs, I) = r * c
    BY <1>8, <2>1, <2>2
  <2>4. Variance(rs, I) = c * (One * (r * c)) - (r * c) * (r * c)
    BY <1>7, <2>1, <2>3 DEF Variance
  <2>5. c * (One * (r * c)) - (r * c) * (r * c) = 0
    BY <1>1
  <2>. QED BY <2>4, <2>5
<1>. QED BY <1>7, <1>8

\* Where every reward is 0 or One, the collapsed groups are the all-correct and the all-wrong ones,
\* and the rollouts outside of them are those with an advantage.
THEOREM UtilizationHolds ==
    ASSUME NEW n, NEW rs, IsBatch(rs, n)
    PROVE  UtilizationIsGradient(rs)
<1>1. SUFFICES ASSUME \A i \in DOMAIN rs : rs[i].reward \in {0, One}
               PROVE  /\ Diagnostics(rs).nCollapsed = Diagnostics(rs).nAllCorrect + Diagnostics(rs).nAllWrong
                      /\ Diagnostics(rs).n - Diagnostics(rs).nRolloutsInCollapsed =
                           Cardinality({i \in DOMAIN rs : \E I \in Groups(rs) :
                                          i \in I /\ rs[i].reward * Cardinality(I) # Total(rs, I)})
  BY DEF UtilizationIsGradient
<1>2. n \in Nat /\ DOMAIN rs = 1 .. n /\ Len(rs) = n /\ One \in Nat /\ One # 0
  BY DiagnosticsAssumption DEF IsBatch
<1>3. IsFiniteSet(1 .. n) /\ Cardinality(1 .. n) = n
  BY <1>2, FS_Interval
<1>4. ASSUME NEW I \in Groups(rs)
      PROVE  /\ I \in SUBSET (1 .. n) /\ I # {}
             /\ \A i \in I : rs[i].reward \in {0, One}
  BY <1>1, <1>2 DEF Groups
<1>. DEFINE Collapsed == {I \in Groups(rs) : IsCollapsed(rs, I)}
            First(I) == rs[CHOOSE i \in I : \A j \in I : i <= j].reward
            Correct == {I \in Collapsed : First(I) = One}
            Wrong == {I \in Collapsed : First(I) = 0}
            Inside == UNION Collapsed
            Outside == {i \in DOMAIN rs : \E I \in Groups(rs) :
                          i \in I /\ rs[i].reward * Cardinality(I) # Total(rs, I)}
<1>5. /\ Diagnostics(rs).nCollapsed = Cardinality(Collapsed) /\ Diagnostics(rs).nAllCorrect = Cardinality(Correct)
      /\ Diagnostics(rs).nAllWrong = Cardinality(Wrong) /\ Diagnostics(rs).n = n
      /\ Diagnostics(rs).nRolloutsInCollapsed = Cardinality(Inside)
  BY <1>2 DEF Diagnostics
<1>6. IsFiniteSet(Collapsed)
  <2>1. IsFiniteSet(SUBSET (1 .. n))
    BY <1>3, FS_SUBSET
  <2>2. Collapsed \in SUBSET (SUBSET (1 .. n))
    BY <1>4
  <2>. HIDE DEF Collapsed
  <2>. QED BY <2>1, <2>2, FS_Subset
<1>7. ASSUME NEW I \in Collapsed PROVE First(I) \in {0, One}
  <2>1. I \subseteq Nat /\ I # {}
    BY <1>4
  <2>2. \E i \in I : \A j \in I : i <= j
    BY <2>1, LeastNumber
  <2>3. (CHOOSE i \in I : \A j \in I : i <= j) \in I
    BY <2>2
  <2>. QED BY <1>4, <2>3
<1>8. Cardinality(Collapsed) = Cardinality(Correct) + Cardinality(Wrong)
  <2>1. Collapsed = Correct \cup Wrong /\ Correct \cap Wrong = {} /\ Correct \in SUBSET Collapsed /\ Wrong \in SUBSET Collapsed
    BY <1>2, <1>7
  <2>. HIDE DEF Correct, Wrong, Collapsed
  <2>2. IsFiniteSet(Correct) /\ IsFiniteSet(Wrong)
    BY <1>6, <2>1, FS_Subset
  <2>3. Cardinality(Collapsed) = Cardinality(Correct) + Cardinality(Wrong) - Cardinality(Correct \cap Wrong)
    BY <2>1, <2>2, FS_Union
  <2>4. Cardinality(Correct \cap Wrong) = 0
    BY <2>1, FS_EmptySet
  <2>5. Cardinality(Correct) \in Nat /\ Cardinality(Wrong) \in Nat
    BY <2>2, FS_CardinalityType
  <2>. QED BY <2>3, <2>4, <2>5
<1>9. ASSUME NEW i \in 1 .. n PROVE i \in Outside <=> i \notin Inside
  <2>1. PICK I \in Groups(rs) : i \in I /\ \A J \in Groups(rs) : i \in J => J = I
    <3>1. PICK I : I = {j \in DOMAIN rs : rs[j].uid = rs[i].uid}  OBVIOUS
    <3>2. I \in Groups(rs) /\ i \in I
      BY <1>2, <3>1 DEF Groups
    <3>3. ASSUME NEW J \in Groups(rs), i \in J PROVE J = I
      <4>1. PICK u : J = {j \in DOMAIN rs : rs[j].uid = u}
        BY DEF Groups
      <4>2. rs[i].uid = u
        BY <3>3, <4>1
      <4>. QED BY <3>1, <4>1, <4>2
    <3>. QED BY <3>2, <3>3
  <2>2. i \in Inside <=> IsCollapsed(rs, I)
    BY <2>1
  <2>3. i \in Outside <=> rs[i].reward * Cardinality(I) # Total(rs, I)
    BY <1>2, <2>1
  <2>4. I \in SUBSET (1 .. n) /\ I # {} /\ \A j \in I : rs[j].reward \in {0, One}
    BY <1>4
  <2>5. ASSUME rs[i].reward * Cardinality(I) = Total(rs, I) PROVE IsCollapsed(rs, I)
    <3>1. Variance(rs, I) = 0
      BY <2>1, <2>4, <2>5, MeanOfTwoValues
    <3>. QED BY <2>4, <3>1 DEF IsCollapsed
  <2>6. ASSUME IsCollapsed(rs, I) PROVE rs[i].reward * Cardinality(I) = Total(rs, I)
    <3>1. PICK r \in 0 .. One : \A j \in I : rs[j].reward = r
      BY <2>4, <2>6, CollapsedMeans
    <3>2. rs[i].reward = r /\ Total(rs, I) = r * Cardinality(I)
      BY <2>1, <2>4, <3>1, TotalOfSame
    <3>. QED BY <3>2
  <2>. QED BY <2>2, <2>3, <2>5, <2>6
<1>10. Outside = (1 .. n) \ Inside /\ Inside \subseteq 1 .. n
  <2>1. Outside \subseteq 1 .. n /\ Inside \subseteq 1 .. n
    BY <1>2, <1>4
  <2>. HIDE DEF Outside, Inside
  <2>. QED BY <1>9, <2>1
<1>11. n - Cardinality(Inside) = Cardinality(Outside)
  <2>. HIDE DEF Outside, Inside
  <2>1. IsFiniteSet(Inside) /\ Cardinality(Inside) \in Nat
    BY <1>3, <1>10, FS_Subset, FS_CardinalityType
  <2>2. Cardinality((1 .. n) \ Inside) = Cardinality(1 .. n) - Cardinality((1 .. n) \cap Inside)
    BY <1>3, FS_Difference
  <2>3. (1 .. n) \cap Inside = Inside
    BY <1>10
  <2>. QED BY <1>3, <1>10, <2>2, <2>3
<1>. QED BY <1>5, <1>8, <1>11

\* A leak of the engine's log-probs is counted whole, and raises the alarm when most sets are larger
\* than one.
THEOREM LeaksAreSeen ==
    ASSUME NEW n \in Nat, NEW k \in Nat, NEW tWarm, NEW ts, DOMAIN ts = 1 .. n, \A i \in 1 .. n : ts[i].lp \in 0 .. k
    PROVE  LeakIsSeen(ts, tWarm, k)
<1>1. SUFFICES ASSUME \A i \in 1 .. n : ts[i].lp # 0 <=> ts[i].cuts /\ ts[i].at > tWarm,
                      NEW drawn, drawn = {i \in 1 .. n : ts[i].mask /\ ts[i].lp # 0}
               PROVE  /\ Hits(ts, tWarm, k, 1) = drawn
                      /\ Alarm(ts, tWarm, k) <=>
                           Cardinality({i \in drawn : ts[i].lp >= 2}) > Cardinality({i \in drawn : ts[i].lp = 1})
  BY DEF LeakIsSeen
<1>2. Checked(ts, tWarm) = drawn
  BY <1>1 DEF Checked
<1>3. PICK two \in SUBSET drawn : two = {i \in drawn : ts[i].lp >= 2}  OBVIOUS
<1>4. PICK one \in SUBSET drawn : one = {i \in drawn : ts[i].lp = 1}  OBVIOUS
<1>5. Hits(ts, tWarm, k, 1) = drawn /\ Hits(ts, tWarm, k, 2) = two
  <2>1. \A i \in drawn : ts[i].lp \in Nat /\ ts[i].lp # 0 /\ ts[i].lp <= k
    BY <1>1
  <2>. QED BY <1>2, <1>3, <2>1 DEF Hits
<1>6. drawn = one \cup two /\ one \cap two = {}
  <2>1. \A i \in drawn : ts[i].lp \in Nat /\ ts[i].lp # 0
    BY <1>1
  <2>. QED BY <1>3, <1>4, <2>1
<1>7. IsFiniteSet(one) /\ IsFiniteSet(two)
  <2>1. IsFiniteSet(1 .. n)
    BY FS_Interval
  <2>2. drawn \in SUBSET (1 .. n)
    BY <1>1
  <2>. QED BY <1>3, <1>4, <2>1, <2>2, FS_Subset
<1>8. Cardinality(drawn) = Cardinality(one) + Cardinality(two)
  <2>1. Cardinality(one \cup two) = Cardinality(one) + Cardinality(two) - Cardinality(one \cap two)
    BY <1>7, FS_Union
  <2>2. Cardinality(one \cap two) = 0
    BY <1>6, FS_EmptySet
  <2>3. Cardinality(one) \in Nat /\ Cardinality(two) \in Nat
    BY <1>7, FS_CardinalityType
  <2>. QED BY <1>6, <2>1, <2>2, <2>3
<1>9. Cardinality(one) \in Nat /\ Cardinality(two) \in Nat
  BY <1>7, FS_CardinalityType
<1>10. Alarm(ts, tWarm, k) <=> (Cardinality(drawn) > 0 /\ 2 * Cardinality(two) > Cardinality(drawn))
  BY <1>2, <1>5 DEF Alarm
<1>11. Alarm(ts, tWarm, k) <=> Cardinality(two) > Cardinality(one)
  <2>1. PICK a \in Nat : a = Cardinality(one)
    BY <1>9
  <2>2. PICK b \in Nat : b = Cardinality(two)
    BY <1>9
  <2>3. (Cardinality(drawn) > 0 /\ 2 * Cardinality(two) > Cardinality(drawn)) <=> b > a
    BY <1>8, <2>1, <2>2
  <2>. QED BY <1>10, <2>1, <2>2, <2>3
<1>. QED BY <1>3, <1>4, <1>5, <1>11

(* Folds over 1 .. n.                                                        *)

\* g is the fold of F over the parts of 1 .. n, the largest number of a part last.
IsFold(g, F, base, n, X) ==
    /\ g \in [SUBSET (1 .. n) -> X]
    /\ \A T \in SUBSET (1 .. n) : g[T] = IF T = {} THEN base ELSE F[<<g[T \ {Max(T)}], Max(T)>>]

\* One number more.
LEMMA FoldOfOneMore ==
    ASSUME NEW k \in Nat, NEW X, NEW base, NEW F \in [X \X (1 .. k + 1) -> X], NEW g, IsFold(g, F, base, k, X)
    PROVE  \E h : IsFold(h, F, base, k + 1, X)
<1>. DEFINE h == [T \in SUBSET (1 .. k + 1) |-> IF k + 1 \in T THEN F[<<g[T \ {k + 1}], k + 1>>] ELSE g[T]]
<1>1. /\ g \in [SUBSET (1 .. k) -> X]
      /\ \A T \in SUBSET (1 .. k) : g[T] = IF T = {} THEN base ELSE F[<<g[T \ {Max(T)}], Max(T)>>]
  BY DEF IsFold
<1>2. ASSUME NEW T \in SUBSET (1 .. k + 1), k + 1 \in T
      PROVE  h[T] \in X /\ T # {} /\ Max(T) = k + 1 /\ h[T] = F[<<h[T \ {Max(T)}], Max(T)>>]
  <2>7. \A x \in 1 .. k + 1 : x # k + 1 => x \in 1 .. k  OBVIOUS
  <2>8. T \ {k + 1} \in SUBSET (1 .. k)
    BY <2>7
  <2>1. PICK U \in SUBSET (1 .. k) : U = T \ {k + 1}
    BY <2>8
  <2>2. Max(T) = k + 1
    <3>3. k + 1 \in Nat /\ T # {}
      BY <1>2
    <3>1. Max(T) \in T /\ \A x \in T : x <= Max(T)
      BY <3>3, MaxOfPart
    <3>2. Max(T) \in 1 .. k + 1 /\ k + 1 <= Max(T)
      BY <1>2, <3>1
    <3>. QED BY <3>2
  <2>3. g[U] \in X /\ k + 1 \in 1 .. k + 1
    BY <1>1
  <2>4. <<g[U], k + 1>> \in X \X (1 .. k + 1)
    BY <2>3
  <2>5. h[U] = g[U] /\ h[T] = F[<<g[U], k + 1>>]
    <3>1. k + 1 \notin U /\ U \in SUBSET (1 .. k + 1)  OBVIOUS
    <3>. QED BY <1>2, <2>1, <3>1
  <2>6. h[T] \in X
    BY <2>4, <2>5
  <2>. HIDE DEF h
  <2>. QED BY <1>2, <2>1, <2>2, <2>5, <2>6
<1>3. ASSUME NEW T \in SUBSET (1 .. k + 1), k + 1 \notin T
      PROVE  h[T] \in X /\ h[T] = IF T = {} THEN base ELSE F[<<h[T \ {Max(T)}], Max(T)>>]
  <2>1. T \in SUBSET (1 .. k)
    BY <1>3
  <2>2. h[T] = g[T] /\ g[T] \in X
    BY <1>1, <1>3, <2>1
  <2>3. PICK U \in SUBSET (1 .. k) : U = T \ {Max(T)}
    BY <2>1
  <2>4. h[U] = g[U]
    <3>1. k + 1 \notin U /\ U \in SUBSET (1 .. k + 1)  OBVIOUS
    <3>. QED BY <3>1
  <2>. HIDE DEF h
  <2>. QED BY <1>1, <2>1, <2>2, <2>3, <2>4
<1>4. h = [T \in SUBSET (1 .. k + 1) |-> h[T]]  OBVIOUS
<1>5. IsFold(h, F, base, k + 1, X)
  <2>. HIDE DEF h
  <2>1. \A T \in SUBSET (1 .. k + 1) : h[T] \in X
    BY <1>2, <1>3
  <2>2. h \in [SUBSET (1 .. k + 1) -> X]
    BY <1>4, <2>1
  <2>3. \A T \in SUBSET (1 .. k + 1) : h[T] = IF T = {} THEN base ELSE F[<<h[T \ {Max(T)}], Max(T)>>]
    BY <1>2, <1>3
  <2>. QED BY <2>2, <2>3 DEF IsFold
<1>. QED BY <1>5

\* Every fold exists.
LEMMA FoldsExist ==
    ASSUME NEW n \in Nat, NEW X, NEW base \in X, NEW F \in [X \X (1 .. n) -> X]
    PROVE  \E g : IsFold(g, F, base, n, X)
<1>. DEFINE G == {k \in Nat : k <= n => \E g : IsFold(g, F, base, k, X)}
<1>1. 0 \in G
  <2>. DEFINE g == [T \in SUBSET (1 .. 0) |-> base]
  <2>1. g \in [SUBSET (1 .. 0) -> X] /\ \A T \in SUBSET (1 .. 0) : T = {} /\ g[T] = base  OBVIOUS
  <2>. HIDE DEF g
  <2>2. IsFold(g, F, base, 0, X)
    BY <2>1 DEF IsFold
  <2>. QED BY <2>2
<1>2. ASSUME NEW k \in Nat, k \in G PROVE k + 1 \in G
  <2>1. ASSUME k + 1 <= n PROVE \E g : IsFold(g, F, base, k + 1, X)
    <3>1. k <= n
      BY <2>1
    <3>2. PICK g : IsFold(g, F, base, k, X)
      BY <1>2, <3>1
    <3>3. PICK E : E = [c \in X \X (1 .. k + 1) |-> F[c]]  OBVIOUS
    <3>4. /\ E \in [X \X (1 .. k + 1) -> X]
          /\ \A x \in X, i \in 1 .. k + 1 : E[<<x, i>>] = F[<<x, i>>]
      <4>1. \A c \in X \X (1 .. k + 1) : c \in X \X (1 .. n)
        BY <2>1
      <4>2. \A c \in X \X (1 .. k + 1) : F[c] \in X
        BY <4>1
      <4>. QED BY <3>3, <4>2
    <3>5. ASSUME NEW m \in {k, k + 1}, NEW h
          PROVE  IsFold(h, F, base, m, X) <=> IsFold(h, E, base, m, X)
      <4>1. ASSUME NEW T \in SUBSET (1 .. m), T # {}, h \in [SUBSET (1 .. m) -> X]
            PROVE  F[<<h[T \ {Max(T)}], Max(T)>>] = E[<<h[T \ {Max(T)}], Max(T)>>]
        <5>1. Max(T) \in 1 .. k + 1
          <6>1. m \in Nat /\ 1 .. m \subseteq 1 .. k + 1
            <7>1. m = k \/ m = k + 1  OBVIOUS
            <7>. QED BY <7>1
          <6>2. Max(T) \in T
            BY <4>1, <6>1, MaxOfPart
          <6>. QED BY <6>1, <6>2
        <5>2. h[T \ {Max(T)}] \in X
          BY <4>1
        <5>. QED BY <3>4, <5>1, <5>2
      <4>. QED BY <4>1 DEF IsFold
    <3>6. IsFold(g, E, base, k, X)
      BY <3>2, <3>5
    <3>7. \E h : IsFold(h, E, base, k + 1, X)
      BY <3>4, <3>6, FoldOfOneMore
    <3>. QED BY <3>5, <3>7
  <2>. QED BY <2>1
<1>3. Nat \subseteq G
  <2>. HIDE DEF G
  <2>. QED BY <1>1, <1>2, NaturalSteps
<1>4. n \in G
  BY <1>3
<1>. QED BY <1>4

\* The first k + 1 numbers end in k + 1.
LEMMA UpToNext ==
    ASSUME NEW n \in Nat, NEW k \in Nat, k + 1 <= n
    PROVE  \E T \in SUBSET (1 .. n) : T = 1 .. k + 1 /\ T # {} /\ Max(T) = k + 1 /\ T \ {Max(T)} = 1 .. k
<1>1. PICK T \in SUBSET (1 .. n) : T = 1 .. k + 1  OBVIOUS
<1>2. k + 1 \in T /\ T # {}
  <2>1. k + 1 \in 1 .. k + 1  OBVIOUS
  <2>. QED BY <1>1, <2>1
<1>3. Max(T) = k + 1
  <2>1. Max(T) \in T /\ \A x \in T : x <= Max(T)
    BY <1>2, MaxOfPart
  <2>2. Max(T) \in 1 .. k + 1 /\ k + 1 <= Max(T)
    BY <1>1, <1>2, <2>1
  <2>. QED BY <2>2
<1>4. T \ {k + 1} = 1 .. k
  <2>1. \A x : x \in 1 .. k <=> x \in 1 .. k + 1 /\ x # k + 1  OBVIOUS
  <2>. QED BY <1>1, <2>1
<1>5. T \ {Max(T)} = 1 .. k
  BY <1>3, <1>4
<1>. QED BY <1>1, <1>2, <1>3, <1>5

FoldsOn(h, F, T, n, X) ==
    Max(T) \in 1 .. n /\ h[T \ {Max(T)}] \in X /\ h[T] = F[<<h[T \ {Max(T)}], Max(T)>>]

\* What a fold makes of a part that has a largest number.
LEMMA FoldAt ==
    ASSUME NEW n \in Nat, NEW X, NEW F, NEW base, NEW h, IsFold(h, F, base, n, X), NEW T \in SUBSET (1 .. n), T # {}
    PROVE  FoldsOn(h, F, T, n, X)
<1>1. Max(T) \in 1 .. n
  BY MaxOfPart
<1>2. PICK V \in SUBSET (1 .. n) : V = T \ {Max(T)}  OBVIOUS
<1>3. h[V] \in X /\ h[T] = F[<<h[V], Max(T)>>]
  BY <1>2 DEF IsFold
<1>. QED BY <1>1, <1>2, <1>3 DEF FoldsOn

\* g folds F as long as it stays within X; p does so number by number and ends in last.
IsFolded(g, F, base, n, X) ==
    /\ g[{}] = base
    /\ \A T \in SUBSET (1 .. n) : T # {} /\ g[T \ {Max(T)}] \in X => g[T] = F[<<g[T \ {Max(T)}], Max(T)>>]
IsSteps(p, F, base, n, X, last) ==
    /\ p \in [0 .. n -> X] /\ p[0] = base /\ p[n] = last
    /\ \A k \in Nat : k + 1 <= n => p[k + 1] = F[<<p[k], k + 1>>]

\* It then stays within X, and comes about number by number.
LEMMA FoldsAreSteps ==
    ASSUME NEW n \in Nat, NEW X, NEW base \in X, NEW F \in [X \X (1 .. n) -> X], NEW g, IsFolded(g, F, base, n, X)
    PROVE  \E p : IsSteps(p, F, base, n, X, g[1 .. n])
<1>1. ASSUME NEW k \in Nat, k + 1 <= n, g[1 .. k] \in X
      PROVE  g[1 .. k + 1] = F[<<g[1 .. k], k + 1>>] /\ g[1 .. k + 1] \in X
  <2>1. PICK T \in SUBSET (1 .. n) : T = 1 .. k + 1 /\ T # {} /\ Max(T) = k + 1 /\ T \ {Max(T)} = 1 .. k
    BY <1>1, UpToNext
  <2>2. g[T] = F[<<g[1 .. k], k + 1>>]
    BY <1>1, <2>1 DEF IsFolded
  <2>3. k + 1 \in 1 .. n
    BY <1>1
  <2>. QED BY <1>1, <2>1, <2>2, <2>3
<1>. DEFINE G == {k \in Nat : k <= n => g[1 .. k] \in X}
<1>2. g[1 .. 0] = base
  <2>1. 1 .. 0 = {}  OBVIOUS
  <2>. QED BY <2>1 DEF IsFolded
<1>3. ASSUME NEW k \in Nat, k \in G PROVE k + 1 \in G
  <2>1. ASSUME k + 1 <= n PROVE g[1 .. k + 1] \in X
    <3>1. k <= n
      BY <2>1
    <3>. QED BY <1>1, <1>3, <2>1, <3>1
  <2>2. k + 1 \in Nat  OBVIOUS
  <2>. QED BY <2>1, <2>2
<1>4. Nat \subseteq G
  <2>1. 0 \in G
    BY <1>2
  <2>. HIDE DEF G
  <2>. QED BY <1>3, <2>1, NaturalSteps
<1>5. PICK p : p = [k \in 0 .. n |-> g[1 .. k]]  OBVIOUS
<1>6. ASSUME NEW k \in 0 .. n PROVE p[k] = g[1 .. k] /\ p[k] \in X
  <2>1. k \in Nat /\ k <= n  OBVIOUS
  <2>. QED BY <1>4, <1>5, <2>1
<1>7. p \in [0 .. n -> X]
  BY <1>5, <1>6
<1>8. ASSUME NEW k \in Nat, k + 1 <= n PROVE p[k + 1] = F[<<p[k], k + 1>>]
  <2>1. k \in 0 .. n /\ k + 1 \in 0 .. n
    BY <1>8
  <2>. QED BY <1>1, <1>6, <1>8, <2>1
<1>9. 0 \in 0 .. n /\ n \in 0 .. n  OBVIOUS
<1>10. p[0] = base /\ p[n] = g[1 .. n]
  BY <1>2, <1>6, <1>9
<1>. QED BY <1>7, <1>8, <1>10 DEF IsSteps

-----------------------------------------------------------------------------
(* Orders of finite sets by rank.                                            *)

\* R is a strict order of S in which any two members are comparable.
IsStrictOrder(R, S) ==
    /\ \A i \in S : <<i, i>> \notin R
    /\ \A i, j \in S : i # j => <<i, j>> \in R \/ <<j, i>> \in R
    /\ \A i, j, h \in S : <<i, j>> \in R /\ <<j, h>> \in R => <<i, h>> \in R

Lower(R, S, i) == {j \in S : <<j, i>> \in R}

\* Where a member of S has a - 1 others below it, such a member is the a-th.
IsByRank(ord, S, R) ==
    /\ ord = [a \in 1 .. Cardinality(S) |-> ord[a]]
    /\ \A a \in 1 .. Cardinality(S) :
          (\E i \in S : Cardinality(Lower(R, S, i)) = a - 1)
             => ord[a] \in S /\ Cardinality(Lower(R, S, ord[a])) = a - 1

\* ord lists the members of S along R, each of them once.
IsListing(ord, S, R) ==
    /\ ord \in [1 .. Cardinality(S) -> S]
    /\ \A a, b \in 1 .. Cardinality(S) : ord[a] = ord[b] => a = b
    /\ \A i \in S : \E a \in 1 .. Cardinality(S) : ord[a] = i
    /\ \A a, b \in 1 .. Cardinality(S) : a < b => <<ord[a], ord[b]>> \in R

\* Ranks are below the number of members, and grow along the order.
LEMMA LowerGrows ==
    ASSUME NEW S, IsFiniteSet(S), NEW R, IsStrictOrder(R, S)
    PROVE  /\ \A i \in S : Cardinality(Lower(R, S, i)) \in 0 .. Cardinality(S) - 1
           /\ \A i, j \in S : <<i, j>> \in R => Cardinality(Lower(R, S, i)) < Cardinality(Lower(R, S, j))
<1>1. Cardinality(S) \in Nat
  BY FS_CardinalityType
<1>2. ASSUME NEW i \in S PROVE IsFiniteSet(Lower(R, S, i)) /\ Cardinality(Lower(R, S, i)) \in Nat
  <2>1. Lower(R, S, i) \in SUBSET S
    BY DEF Lower
  <2>2. IsFiniteSet(Lower(R, S, i))
    BY <2>1, FS_Subset
  <2>. QED BY <2>2, FS_CardinalityType
<1>3. ASSUME NEW i \in S PROVE Cardinality(Lower(R, S, i)) \in 0 .. Cardinality(S) - 1
  <2>1. Lower(R, S, i) \in SUBSET S /\ i \notin Lower(R, S, i)
    BY DEF Lower, IsStrictOrder
  <2>2. Cardinality(Lower(R, S, i)) <= Cardinality(S) /\ Cardinality(S) # Cardinality(Lower(R, S, i))
    BY <2>1, FS_Subset
  <2>. QED BY <1>1, <1>2, <2>2
<1>4. ASSUME NEW i \in S, NEW j \in S, <<i, j>> \in R
      PROVE  Cardinality(Lower(R, S, i)) < Cardinality(Lower(R, S, j))
  <2>1. Lower(R, S, i) \in SUBSET Lower(R, S, j) /\ i \in Lower(R, S, j) /\ i \notin Lower(R, S, i)
    BY <1>4 DEF Lower, IsStrictOrder
  <2>2. /\ Cardinality(Lower(R, S, i)) <= Cardinality(Lower(R, S, j))
        /\ Cardinality(Lower(R, S, j)) # Cardinality(Lower(R, S, i))
    BY <1>2, <2>1, FS_Subset
  <2>. QED BY <1>2, <2>2
<1>. QED BY <1>3, <1>4

\* An order by ranks is a listing.
LEMMA RanksList ==
    ASSUME NEW S, IsFiniteSet(S), NEW R, IsStrictOrder(R, S), NEW ord, IsByRank(ord, S, R)
    PROVE  IsListing(ord, S, R)
<1>1. PICK N \in Nat : N = Cardinality(S)
  BY FS_CardinalityType
<1>2. PICK rank : rank = [i \in S |-> Cardinality(Lower(R, S, i))]  OBVIOUS
<1>3. \A i \in S : rank[i] = Cardinality(Lower(R, S, i)) /\ rank[i] \in 0 .. N - 1
  BY <1>1, <1>2, LowerGrows
<1>4. \A i, j \in S : <<i, j>> \in R => rank[i] < rank[j]
  BY <1>3, LowerGrows
<1>5. \A i, j \in S : rank[i] = rank[j] => i = j
  <2>1. ASSUME NEW i \in S, NEW j \in S, i # j PROVE rank[i] # rank[j]
    <3>1. <<i, j>> \in R \/ <<j, i>> \in R
      BY <2>1 DEF IsStrictOrder
    <3>2. rank[i] < rank[j] \/ rank[j] < rank[i]
      BY <1>4, <3>1
    <3>3. rank[i] \in Int /\ rank[j] \in Int
      BY <1>3
    <3>. QED BY <3>2, <3>3
  <2>. QED BY <2>1
<1>6. \A k \in 0 .. N - 1 : \E i \in S : rank[i] = k
  <2>1. PICK place : place = [i \in S |-> rank[i] + 1]  OBVIOUS
  <2>2. \A i \in S : place[i] \in 1 .. N /\ place[i] = rank[i] + 1
    BY <1>3, <2>1
  <2>3. place \in [S -> 1 .. N]
    BY <2>1, <2>2
  <2>4. \A i, j \in S : place[i] = place[j] => i = j
    <3>1. ASSUME NEW i \in S, NEW j \in S, place[i] = place[j] PROVE i = j
      <4>1. rank[i] \in Int /\ rank[j] \in Int /\ rank[i] + 1 = rank[j] + 1
        BY <1>3, <2>2, <3>1
      <4>2. rank[i] = rank[j]
        BY <4>1
      <4>. QED BY <1>5, <4>2
    <3>. QED BY <3>1
  <2>5. place \in Injection(S, 1 .. N)
    BY <2>3, <2>4 DEF Injection, IsInjective
  <2>6. IsFiniteSet(1 .. N) /\ Cardinality(1 .. N) = N
    BY FS_Interval
  <2>7. place \in Surjection(S, 1 .. N)
    BY <1>1, <2>5, <2>6, FS_Injection
  <2>8. ASSUME NEW k \in 0 .. N - 1 PROVE \E i \in S : rank[i] = k
    <3>1. k + 1 \in 1 .. N /\ k \in Int  OBVIOUS
    <3>2. PICK i \in S : place[i] = k + 1
      BY <2>7, <3>1 DEF Surjection
    <3>3. rank[i] \in Int /\ rank[i] + 1 = k + 1
      BY <1>3, <2>2, <3>2
    <3>4. rank[i] = k
      BY <3>1, <3>3
    <3>. QED BY <3>4
  <2>. QED BY <2>8
<1>7. ASSUME NEW a \in 1 .. N PROVE ord[a] \in S /\ rank[ord[a]] = a - 1
  <2>1. a - 1 \in 0 .. N - 1  OBVIOUS
  <2>2. PICK i \in S : rank[i] = a - 1
    BY <1>6, <2>1
  <2>3. Cardinality(Lower(R, S, i)) = a - 1
    BY <1>3, <2>2
  <2>4. ord[a] \in S /\ Cardinality(Lower(R, S, ord[a])) = a - 1
    BY <1>1, <2>3 DEF IsByRank
  <2>. QED BY <1>3, <2>4
<1>8. ord \in [1 .. N -> S]
  <2>1. ord = [a \in 1 .. N |-> ord[a]]
    BY <1>1 DEF IsByRank
  <2>. QED BY <1>7, <2>1
<1>9. ASSUME NEW a \in 1 .. N, NEW b \in 1 .. N, ord[a] = ord[b] PROVE a = b
  <2>1. a - 1 = b - 1
    BY <1>7, <1>9
  <2>. QED BY <2>1
<1>10. ASSUME NEW i \in S PROVE \E a \in 1 .. N : ord[a] = i
  <2>1. PICK a \in 1 .. N : a - 1 = rank[i]
    <3>1. PICK k \in 0 .. N - 1 : k = rank[i]
      BY <1>3
    <3>2. k + 1 \in 1 .. N /\ (k + 1) - 1 = k  OBVIOUS
    <3>. QED BY <3>1, <3>2
  <2>2. ord[a] = i
    BY <1>5, <1>7, <2>1
  <2>. QED BY <2>2
<1>11. ASSUME NEW a \in 1 .. N, NEW b \in 1 .. N, a < b PROVE <<ord[a], ord[b]>> \in R
  <2>1. ord[a] \in S /\ ord[b] \in S /\ ord[a] # ord[b]
    BY <1>7, <1>9, <1>11
  <2>2. <<ord[b], ord[a]>> \notin R
    <3>1. <<ord[b], ord[a]>> \in R => b - 1 < a - 1
      BY <1>4, <1>7, <2>1
    <3>2. ~(b - 1 < a - 1)
      BY <1>11
    <3>. QED BY <3>1, <3>2
  <2>. QED BY <2>1, <2>2 DEF IsStrictOrder
<1>. QED BY <1>1, <1>8, <1>9, <1>10, <1>11 DEF IsListing

\* The places of a part of S are as many as its members.
LEMMA PlacesOfPart ==
    ASSUME NEW S, IsFiniteSet(S), NEW R, NEW ord, IsListing(ord, S, R), NEW P \in SUBSET S
    PROVE  Cardinality({a \in 1 .. Cardinality(S) : ord[a] \in P}) = Cardinality(P)
<1>1. PICK N \in Nat : N = Cardinality(S)
  BY FS_CardinalityType
<1>2. PICK A \in SUBSET (1 .. N) : A = {a \in 1 .. N : ord[a] \in P}  OBVIOUS
<1>3. PICK f : f = [a \in A |-> ord[a]]  OBVIOUS
<1>4. f \in [A -> P] /\ \A a \in A : f[a] = ord[a]
  BY <1>2, <1>3
<1>5. \A a, b \in A : f[a] = f[b] => a = b
  BY <1>1, <1>4 DEF IsListing
<1>6. \A i \in P : \E a \in A : f[a] = i
  BY <1>1, <1>2, <1>4 DEF IsListing
<1>7. f \in Bijection(A, P)
  BY <1>4, <1>5, <1>6 DEF Bijection, Injection, Surjection, IsInjective
<1>8. ExistsBijection(A, P)
  BY <1>7 DEF ExistsBijection
<1>9. IsFiniteSet(A)
  <2>1. IsFiniteSet(1 .. N)
    BY FS_Interval
  <2>. QED BY <2>1, FS_Subset
<1>. QED BY <1>1, <1>2, <1>8, <1>9, FS_Bijection

(* The groups that are dumped.                                               *)

\* rs is a batch of n rollouts with their sessions, U the uids of its groups.
IsKeyed(rs, n, U) ==
    rs \in [1 .. n -> [uid : U, kind : {"std", "cuts"}, session : Int]]

Uids(rs) == [i \in DOMAIN rs |-> rs[i].uid]

\* The loop's body for one more uid.
TakeUid(chosen, u, maxGroups) ==
    IF (chosen # <<>> /\ Len(chosen) >= maxGroups) \/ Contains(chosen, u) THEN chosen ELSE Append(chosen, u)

\* g is the fold of TakeUid over the parts of D.
IsChoosing(g, uids, maxGroups, D) ==
    g = [T \in SUBSET D |-> IF T = {} THEN <<>> ELSE TakeUid(g[T \ {Max(T)}], uids[Max(T)], maxGroups)]

\* The loop as a fold.
LEMMA ChosenIsFold ==
    ASSUME NEW rs, NEW maxGroups, NEW uids, uids = Uids(rs)
    PROVE  Chosen(rs, maxGroups) = (CHOOSE g : IsChoosing(g, uids, maxGroups, DOMAIN uids))[DOMAIN uids]
BY DEF Chosen, FoldLeft, MapThenFoldSet, IsChoosing, TakeUid, Uids

\* c lists uids of the first k rows of rs, each once and at most `most` of them, and all of them if
\* there are fewer.
IsChoice(c, rs, k, U, most) ==
    /\ c \in Seq(U) /\ Len(c) <= most
    /\ \A g, h \in 1 .. Len(c) : c[g] = c[h] => g = h
    /\ \A g \in 1 .. Len(c) : \E i \in 1 .. k : rs[i].uid = c[g]
    /\ Len(c) < most => \A i \in 1 .. k : \E g \in 1 .. Len(c) : c[g] = rs[i].uid

Most(maxGroups) == IF maxGroups = 0 THEN 1 ELSE maxGroups

\* One more row.
LEMMA ChoiceGoesOn ==
    ASSUME NEW U, NEW n \in Nat, NEW rs, IsKeyed(rs, n, U), NEW k \in Nat, k + 1 <= n, NEW maxGroups \in Nat,
           NEW c, IsChoice(c, rs, k, U, Most(maxGroups))
    PROVE  IsChoice(TakeUid(c, rs[k + 1].uid, maxGroups), rs, k + 1, U, Most(maxGroups))
<1>1. PICK most \in Nat : most = Most(maxGroups) /\ most >= 1
  BY DEF Most
<1>2. PICK u \in U : u = rs[k + 1].uid
  <2>1. k + 1 \in 1 .. n  OBVIOUS
  <2>. QED BY <2>1 DEF IsKeyed
<1>3. /\ c \in Seq(U) /\ Len(c) <= most /\ Len(c) \in Nat
      /\ \A g, h \in 1 .. Len(c) : c[g] = c[h] => g = h
      /\ \A g \in 1 .. Len(c) : \E i \in 1 .. k : rs[i].uid = c[g]
      /\ Len(c) < most => \A i \in 1 .. k : \E g \in 1 .. Len(c) : c[g] = rs[i].uid
  <2>1. IsChoice(c, rs, k, U, most)
    BY <1>1
  <2>2. c \in Seq(U) /\ Len(c) <= most
    BY <2>1 DEF IsChoice
  <2>3. Len(c) \in Nat
    BY <2>2
  <2>. QED BY <2>1, <2>3 DEF IsChoice
<1>4. \A i \in 1 .. k + 1 : i \in 1 .. k \/ i = k + 1  OBVIOUS
<1>5. 1 .. k \subseteq 1 .. k + 1 /\ k + 1 \in 1 .. k + 1  OBVIOUS
<1>6. CASE Contains(c, u)
  <2>1. TakeUid(c, u, maxGroups) = c
    BY <1>6 DEF TakeUid
  <2>2. \E g \in 1 .. Len(c) : c[g] = u
    BY <1>6 DEF Contains
  <2>3. \A g \in 1 .. Len(c) : \E i \in 1 .. k + 1 : rs[i].uid = c[g]
    BY <1>3, <1>5
  <2>4. Len(c) < most => \A i \in 1 .. k + 1 : \E g \in 1 .. Len(c) : c[g] = rs[i].uid
    BY <1>2, <1>3, <1>4, <2>2
  <2>. QED BY <1>1, <1>2, <1>3, <2>1, <2>3, <2>4 DEF IsChoice
<1>7. CASE ~Contains(c, u) /\ c # <<>> /\ Len(c) >= maxGroups
  <2>1. TakeUid(c, u, maxGroups) = c
    BY <1>7 DEF TakeUid
  <2>2. Len(c) >= most
    <3>1. Len(c) # 0
      BY <1>3, <1>7
    <3>. QED BY <1>1, <1>3, <1>7, <3>1 DEF Most
  <2>3. \A g \in 1 .. Len(c) : \E i \in 1 .. k + 1 : rs[i].uid = c[g]
    BY <1>3, <1>5
  <2>4. ~(Len(c) < most)
    BY <1>3, <2>2
  <2>. QED BY <1>1, <1>2, <1>3, <2>1, <2>3, <2>4 DEF IsChoice
<1>8. CASE ~Contains(c, u) /\ ~(c # <<>> /\ Len(c) >= maxGroups)
  <2>1. PICK d : d = Append(c, u)  OBVIOUS
  <2>2. TakeUid(c, u, maxGroups) = d
    BY <1>8, <2>1 DEF TakeUid
  <2>3. PICK l \in Nat : l = Len(c)
    BY <1>3
  <2>4. /\ d \in Seq(U) /\ Len(d) = l + 1 /\ d[l + 1] = u
        /\ \A g \in 1 .. l : d[g] = c[g]
    BY <1>3, <2>1, <2>3
  <2>5. l < most
    <3>1. c = <<>> => l = 0
      BY <2>3
    <3>2. c # <<>> => l < maxGroups
      BY <1>8, <2>3
    <3>. QED BY <1>1, <3>1, <3>2 DEF Most
  <2>6. \A g \in 1 .. l : c[g] # u
    BY <1>8, <2>3 DEF Contains
  <2>7. \A g \in 1 .. l + 1 : g \in 1 .. l \/ g = l + 1  OBVIOUS
  <2>8. \A g, h \in 1 .. l + 1 : d[g] = d[h] => g = h
    BY <1>3, <2>3, <2>4, <2>6, <2>7
  <2>9. \A g \in 1 .. l + 1 : \E i \in 1 .. k + 1 : rs[i].uid = d[g]
    <3>1. ASSUME NEW g \in 1 .. l PROVE \E i \in 1 .. k + 1 : rs[i].uid = d[g]
      <4>1. PICK i \in 1 .. k : rs[i].uid = c[g]
        BY <1>3, <2>3
      <4>. QED BY <1>5, <2>4, <4>1
    <3>2. rs[k + 1].uid = d[l + 1]
      BY <1>2, <2>4
    <3>. QED BY <1>5, <2>7, <3>1, <3>2
  <2>10. \A i \in 1 .. k + 1 : \E g \in 1 .. l + 1 : d[g] = rs[i].uid
    <3>1. 1 .. l \subseteq 1 .. l + 1 /\ l + 1 \in 1 .. l + 1  OBVIOUS
    <3>. QED BY <1>2, <1>3, <1>4, <2>3, <2>4, <2>5, <3>1
  <2>11. l + 1 <= most
    BY <2>5
  <2>12. IsChoice(d, rs, k + 1, U, most)
    BY <2>4, <2>8, <2>9, <2>10, <2>11 DEF IsChoice
  <2>. QED BY <1>1, <1>2, <2>2, <2>12
<1>. QED BY <1>2, <1>6, <1>7, <1>8

\* The groups that are chosen.
LEMMA ChosenIsChoice ==
    ASSUME NEW U, NEW n \in Nat, NEW rs, IsKeyed(rs, n, U), NEW maxGroups \in Nat
    PROVE  IsChoice(Chosen(rs, maxGroups), rs, n, U, Most(maxGroups))
<1>1. DOMAIN rs = 1 .. n /\ \A i \in 1 .. n : rs[i].uid \in U
  BY DEF IsKeyed
<1>2. PICK uids : uids = Uids(rs)  OBVIOUS
<1>3. DOMAIN uids = 1 .. n /\ \A i \in 1 .. n : uids[i] = rs[i].uid /\ uids[i] \in U
  BY <1>1, <1>2 DEF Uids
<1>4. PICK F : F = [x \in Seq(U) \X (1 .. n) |-> TakeUid(x[1], uids[x[2]], maxGroups)]  OBVIOUS
<1>5. ASSUME NEW c \in Seq(U), NEW i \in 1 .. n
      PROVE  F[<<c, i>>] = TakeUid(c, uids[i], maxGroups) /\ F[<<c, i>>] \in Seq(U)
  <2>1. F[<<c, i>>] = TakeUid(c, uids[i], maxGroups)
    BY <1>4
  <2>2. Append(c, uids[i]) \in Seq(U)
    BY <1>3
  <2>. QED BY <2>1, <2>2 DEF TakeUid
<1>6. F \in [Seq(U) \X (1 .. n) -> Seq(U)]
  BY <1>4, <1>5
<1>7. <<>> \in Seq(U)  OBVIOUS
<1>8. PICK h : IsFold(h, F, <<>>, n, Seq(U))
  BY <1>6, <1>7, FoldsExist
<1>9. h = [T \in SUBSET (1 .. n) |-> h[T]] /\ h[{}] = <<>>
  BY <1>8 DEF IsFold
<1>10. ASSUME NEW T \in SUBSET (1 .. n)
       PROVE  h[T] = IF T = {} THEN <<>> ELSE TakeUid(h[T \ {Max(T)}], uids[Max(T)], maxGroups)
  <2>1. CASE T # {}
    <3>1. FoldsOn(h, F, T, n, Seq(U))
      BY <1>8, <2>1, FoldAt
    <3>. QED BY <1>5, <2>1, <3>1 DEF FoldsOn
  <2>. QED BY <1>9, <2>1
<1>11. IsChoosing(h, uids, maxGroups, 1 .. n)
  BY <1>9, <1>10 DEF IsChoosing
<1>12. PICK g : g = CHOOSE f : IsChoosing(f, uids, maxGroups, DOMAIN uids)  OBVIOUS
<1>13. IsChoosing(g, uids, maxGroups, 1 .. n)
  BY <1>3, <1>11, <1>12
<1>14. IsFolded(g, F, <<>>, n, Seq(U))
  <2>1. ASSUME NEW T \in SUBSET (1 .. n), T # {}, g[T \ {Max(T)}] \in Seq(U)
        PROVE  g[T] = F[<<g[T \ {Max(T)}], Max(T)>>]
    <3>1. Max(T) \in 1 .. n
      BY <2>1, MaxOfPart
    <3>. QED BY <1>5, <1>13, <2>1, <3>1 DEF IsChoosing
  <2>2. g[{}] = <<>>
    BY <1>13 DEF IsChoosing
  <2>. QED BY <2>1, <2>2 DEF IsFolded
<1>15. PICK p : IsSteps(p, F, <<>>, n, Seq(U), g[1 .. n])
  BY <1>6, <1>7, <1>14, FoldsAreSteps
<1>. DEFINE G == {k \in Nat : k <= n => IsChoice(p[k], rs, k, U, Most(maxGroups))}
<1>16. 0 \in G
  <2>1. Len(<<>>) = 0 /\ 0 <= Most(maxGroups)
    BY DEF Most
  <2>2. IsChoice(<<>>, rs, 0, U, Most(maxGroups))
    BY <1>7, <2>1 DEF IsChoice
  <2>. QED BY <1>15, <2>2 DEF IsSteps
<1>17. ASSUME NEW k \in Nat, k \in G PROVE k + 1 \in G
  <2>1. ASSUME k + 1 <= n PROVE IsChoice(p[k + 1], rs, k + 1, U, Most(maxGroups))
    <3>1. k <= n /\ k \in 0 .. n /\ k + 1 \in 1 .. n
      BY <2>1
    <3>2. PICK c \in Seq(U) : c = p[k] /\ IsChoice(c, rs, k, U, Most(maxGroups))
      BY <1>15, <1>17, <3>1 DEF IsSteps
    <3>3. IsChoice(TakeUid(c, rs[k + 1].uid, maxGroups), rs, k + 1, U, Most(maxGroups))
      BY <2>1, <3>2, ChoiceGoesOn
    <3>4. p[k + 1] = F[<<c, k + 1>>]
      BY <1>15, <2>1, <3>2 DEF IsSteps
    <3>5. p[k + 1] = TakeUid(c, rs[k + 1].uid, maxGroups)
      BY <1>3, <1>5, <3>1, <3>4
    <3>. QED BY <3>3, <3>5
  <2>2. k + 1 \in Nat  OBVIOUS
  <2>. QED BY <2>1, <2>2
<1>18. Nat \subseteq G
  <2>. HIDE DEF G
  <2>. QED BY <1>16, <1>17, NaturalSteps
<1>19. IsChoice(p[n], rs, n, U, Most(maxGroups))
  BY <1>18
<1>20. Chosen(rs, maxGroups) = (CHOOSE f : IsChoosing(f, uids, maxGroups, DOMAIN uids))[DOMAIN uids]
  BY <1>2, ChosenIsFold
<1>. QED BY <1>3, <1>12, <1>15, <1>19, <1>20 DEF IsSteps

\* What Precedes compares.
IsKeys(a, b, s, rs, c, rows) ==
    /\ a \in [rows -> 1 .. Len(c)] /\ b \in [rows -> {0, 1}] /\ s \in [rows -> Int]
    /\ \A i \in rows : c[a[i]] = rs[i].uid /\ (b[i] = 0 <=> rs[i].kind = "std")
    /\ \A i, j \in rows :
          Precedes(rs, c, i, j) <=>
             \/ a[i] < a[j]
             \/ a[i] = a[j] /\ b[i] < b[j]
             \/ a[i] = a[j] /\ b[i] = b[j] /\ s[i] < s[j]
             \/ a[i] = a[j] /\ b[i] = b[j] /\ s[i] = s[j] /\ i < j

\* A row has a group, a half and a session.
LEMMA RowsHaveKeys ==
    ASSUME NEW U, NEW n \in Nat, NEW rs, IsKeyed(rs, n, U), NEW c, c \in Seq(U), NEW rows, rows = DumpRows(rs, c)
    PROVE  rows \in SUBSET (1 .. n) /\ \E a, b, s : IsKeys(a, b, s, rs, c, rows)
<1>1. DOMAIN rs = 1 .. n /\ \A i \in 1 .. n : rs[i].kind \in {"std", "cuts"} /\ rs[i].session \in Int
  BY DEF IsKeyed
<1>2. rows \in SUBSET (1 .. n) /\ \A i \in rows : Contains(c, rs[i].uid)
  BY <1>1 DEF DumpRows
<1>3. DOMAIN c = 1 .. Len(c)  OBVIOUS
<1>4. PICK a : a = [i \in rows |-> GroupOf(c, rs[i])]  OBVIOUS
<1>5. PICK b : b = [i \in rows |-> Half(rs[i])]  OBVIOUS
<1>6. PICK s : s = [i \in rows |-> rs[i].session]  OBVIOUS
<1>7. ASSUME NEW i \in rows
      PROVE  a[i] = GroupOf(c, rs[i]) /\ GroupOf(c, rs[i]) \in 1 .. Len(c) /\ c[a[i]] = rs[i].uid
  <2>1. \E g \in DOMAIN c : c[g] = rs[i].uid
    BY <1>2, <1>3 DEF Contains
  <2>. QED BY <1>3, <1>4, <2>1 DEF GroupOf
<1>8. ASSUME NEW i \in rows
      PROVE  b[i] = Half(rs[i]) /\ b[i] \in {0, 1} /\ (b[i] = 0 <=> rs[i].kind = "std")
  BY <1>5 DEF Half
<1>9. ASSUME NEW i \in rows PROVE s[i] = rs[i].session /\ s[i] \in Int
  BY <1>1, <1>2, <1>6
<1>10. a \in [rows -> 1 .. Len(c)] /\ b \in [rows -> {0, 1}] /\ s \in [rows -> Int]
  <2>1. a \in [rows -> 1 .. Len(c)]
    BY <1>4, <1>7
  <2>2. b \in [rows -> {0, 1}]
    BY <1>5, <1>8
  <2>3. s \in [rows -> Int]
    BY <1>6, <1>9
  <2>. QED BY <2>1, <2>2, <2>3
<1>11. ASSUME NEW i \in rows, NEW j \in rows
       PROVE  Precedes(rs, c, i, j) <=>
                \/ a[i] < a[j]
                \/ a[i] = a[j] /\ b[i] < b[j]
                \/ a[i] = a[j] /\ b[i] = b[j] /\ s[i] < s[j]
                \/ a[i] = a[j] /\ b[i] = b[j] /\ s[i] = s[j] /\ i < j
  <2>1. /\ a[i] = GroupOf(c, rs[i]) /\ a[j] = GroupOf(c, rs[j]) /\ b[i] = Half(rs[i]) /\ b[j] = Half(rs[j])
        /\ s[i] = rs[i].session /\ s[j] = rs[j].session
    BY <1>7, <1>8, <1>9
  <2>. QED BY <2>1 DEF Precedes
<1>12. IsKeys(a, b, s, rs, c, rows)
  BY <1>7, <1>8, <1>10, <1>11 DEF IsKeys
<1>. QED BY <1>2, <1>12

DumpRelation(rs, c, rows) == {p \in rows \X rows : Precedes(rs, c, p[1], p[2])}

\* The dump's order is an order, and the dump is listed along it.
LEMMA DumpIsListed ==
    ASSUME NEW U, NEW n \in Nat, NEW rs, IsKeyed(rs, n, U), NEW c, c \in Seq(U), NEW rows, rows = DumpRows(rs, c)
    PROVE  IsFiniteSet(rows) /\ IsListing(DumpOrder(rs, c), rows, DumpRelation(rs, c, rows))
<1>1. rows \in SUBSET (1 .. n)
  BY RowsHaveKeys
<1>2. PICK a, b, s : IsKeys(a, b, s, rs, c, rows)
  BY RowsHaveKeys
<1>3. IsFiniteSet(rows)
  <2>1. IsFiniteSet(1 .. n)
    BY FS_Interval
  <2>. QED BY <1>1, <2>1, FS_Subset
<1>4. PICK R : R = DumpRelation(rs, c, rows)  OBVIOUS
<1>5. \A i, j \in rows : <<i, j>> \in R <=> Precedes(rs, c, i, j)
  BY <1>4 DEF DumpRelation
<1>6. ASSUME NEW i \in rows PROVE a[i] \in Int /\ b[i] \in Int /\ s[i] \in Int /\ i \in Int
  <2>1. a[i] \in 1 .. Len(c) /\ b[i] \in {0, 1} /\ s[i] \in Int
    BY <1>2 DEF IsKeys
  <2>2. i \in 1 .. n
    BY <1>1
  <2>3. Len(c) \in Nat  OBVIOUS
  <2>. QED BY <2>1, <2>2, <2>3
<1>7. ASSUME NEW i \in rows, NEW j \in rows
      PROVE  <<i, j>> \in R <=>
                \/ a[i] < a[j]
                \/ a[i] = a[j] /\ b[i] < b[j]
                \/ a[i] = a[j] /\ b[i] = b[j] /\ s[i] < s[j]
                \/ a[i] = a[j] /\ b[i] = b[j] /\ s[i] = s[j] /\ i < j
  BY <1>2, <1>5 DEF IsKeys
<1>8. IsStrictOrder(R, rows)
  <2>1. ASSUME NEW i \in rows PROVE <<i, i>> \notin R
    BY <1>6, <1>7
  <2>2. ASSUME NEW i \in rows, NEW j \in rows, i # j PROVE <<i, j>> \in R \/ <<j, i>> \in R
    BY <1>6, <1>7, <2>2
  <2>3. ASSUME NEW i \in rows, NEW j \in rows, NEW h \in rows, <<i, j>> \in R, <<j, h>> \in R
        PROVE  <<i, h>> \in R
    <3>1. PICK a1, a2, a3 \in Int : a1 = a[i] /\ a2 = a[j] /\ a3 = a[h]
      BY <1>6
    <3>2. PICK b1, b2, b3 \in Int : b1 = b[i] /\ b2 = b[j] /\ b3 = b[h]
      BY <1>6
    <3>3. PICK s1, s2, s3 \in Int : s1 = s[i] /\ s2 = s[j] /\ s3 = s[h]
      BY <1>6
    <3>4. \/ a1 < a2
          \/ a1 = a2 /\ b1 < b2
          \/ a1 = a2 /\ b1 = b2 /\ s1 < s2
          \/ a1 = a2 /\ b1 = b2 /\ s1 = s2 /\ i < j
      BY <1>7, <2>3, <3>1, <3>2, <3>3
    <3>5. \/ a2 < a3
          \/ a2 = a3 /\ b2 < b3
          \/ a2 = a3 /\ b2 = b3 /\ s2 < s3
          \/ a2 = a3 /\ b2 = b3 /\ s2 = s3 /\ j < h
      BY <1>7, <2>3, <3>1, <3>2, <3>3
    <3>6. \/ a1 < a3
          \/ a1 = a3 /\ b1 < b3
          \/ a1 = a3 /\ b1 = b3 /\ s1 < s3
          \/ a1 = a3 /\ b1 = b3 /\ s1 = s3 /\ i < h
      BY <1>6, <3>4, <3>5
    <3>. QED BY <1>7, <3>1, <3>2, <3>3, <3>6
  <2>. QED BY <2>1, <2>2, <2>3 DEF IsStrictOrder
<1>9. PICK ord : ord = DumpOrder(rs, c)  OBVIOUS
<1>10. ASSUME NEW i \in rows
       PROVE  {j \in rows : Precedes(rs, c, j, i)} = Lower(R, rows, i)
  BY <1>5 DEF Lower
<1>11. ord = [m \in 1 .. Cardinality(rows) |->
                CHOOSE i \in rows : Cardinality({j \in rows : Precedes(rs, c, j, i)}) = m - 1]
  BY <1>9 DEF DumpOrder
<1>12. ASSUME NEW m \in 1 .. Cardinality(rows), NEW i \in rows, Cardinality(Lower(R, rows, i)) = m - 1
       PROVE  ord[m] \in rows /\ Cardinality(Lower(R, rows, ord[m])) = m - 1
  <2>1. Cardinality({j \in rows : Precedes(rs, c, j, i)}) = m - 1
    BY <1>10, <1>12
  <2>2. ord[m] = CHOOSE h \in rows : Cardinality({j \in rows : Precedes(rs, c, j, h)}) = m - 1
    BY <1>11
  <2>3. ord[m] \in rows /\ Cardinality({j \in rows : Precedes(rs, c, j, ord[m])}) = m - 1
    BY <2>1, <2>2
  <2>. QED BY <1>10, <2>3
<1>13. ord = [m \in 1 .. Cardinality(rows) |-> ord[m]]
  <2>. DEFINE place(m) == CHOOSE i \in rows : Cardinality({j \in rows : Precedes(rs, c, j, i)}) = m - 1
  <2>1. ord = [m \in 1 .. Cardinality(rows) |-> place(m)]
    BY <1>11
  <2>. HIDE DEF place
  <2>. QED BY <2>1
<1>14. IsByRank(ord, rows, R)
  BY <1>12, <1>13 DEF IsByRank
<1>. QED BY <1>3, <1>4, <1>8, <1>9, <1>14, RanksList

\* d lists the rows of the groups in c along the order.
IsDump(d, ord, rs, n, c, rows) ==
    /\ rows \in SUBSET (1 .. n) /\ IsFiniteSet(rows)
    /\ \A i \in 1 .. n : i \in rows <=> \E g \in 1 .. Len(c) : c[g] = rs[i].uid
    /\ IsListing(ord, rows, DumpRelation(rs, c, rows))
    /\ DOMAIN d = 1 .. Cardinality(rows)
    /\ \A a \in 1 .. Cardinality(rows) : d[a] = rs[ord[a]]

\* What is dumped.
LEMMA DumpIs ==
    ASSUME NEW U, NEW n \in Nat, NEW rs, IsKeyed(rs, n, U), NEW maxGroups \in Nat,
           NEW c, c = Chosen(rs, maxGroups), NEW rows, rows = DumpRows(rs, c)
    PROVE  IsDump(DumpSampledGroups(rs, maxGroups), DumpOrder(rs, c), rs, n, c, rows)
<1>1. IsChoice(c, rs, n, U, Most(maxGroups))
  BY ChosenIsChoice
<1>2. c \in Seq(U)
  BY <1>1 DEF IsChoice
<1>3. PICK ord : ord = DumpOrder(rs, c)  OBVIOUS
<1>4. IsFiniteSet(rows) /\ IsListing(ord, rows, DumpRelation(rs, c, rows))
  BY <1>2, <1>3, DumpIsListed
<1>5. rows \in SUBSET (1 .. n)
  BY <1>2, RowsHaveKeys
<1>6. \A i \in 1 .. n : i \in rows <=> \E g \in 1 .. Len(c) : c[g] = rs[i].uid
  <2>1. DOMAIN rs = 1 .. n
    BY DEF IsKeyed
  <2>. QED BY <2>1 DEF DumpRows, Contains
<1>7. DOMAIN ord = 1 .. Cardinality(rows)
  BY <1>4 DEF IsListing
<1>8. DumpSampledGroups(rs, maxGroups) = [a \in DOMAIN ord |-> rs[ord[a]]]
  BY <1>3 DEF DumpSampledGroups
<1>9. PICK d : d = [a \in DOMAIN ord |-> rs[ord[a]]]  OBVIOUS
<1>10. DOMAIN d = 1 .. Cardinality(rows) /\ \A a \in 1 .. Cardinality(rows) : d[a] = rs[ord[a]]
  BY <1>7, <1>9
<1>11. IsDump(d, ord, rs, n, c, rows)
  BY <1>4, <1>5, <1>6, <1>10 DEF IsDump
<1>. QED BY <1>3, <1>8, <1>9, <1>11

\* The uids of some rows, and those in a list.
UidSet(rs) == {rs[i].uid : i \in DOMAIN rs}
Listed(c) == {c[g] : g \in 1 .. Len(c)}

\* A row's group is in the dump if and only if it was chosen.
LEMMA DumpedUids ==
    ASSUME NEW U, NEW n \in Nat, NEW rs, IsKeyed(rs, n, U), NEW most \in Nat, NEW c, IsChoice(c, rs, n, U, most),
           NEW ord, NEW rows, NEW d, IsDump(d, ord, rs, n, c, rows)
    PROVE  UidSet(d) = Listed(c)
<1>1. PICK N \in Nat : N = Cardinality(rows)
  BY FS_CardinalityType DEF IsDump
<1>2. /\ rows \in SUBSET (1 .. n) /\ \A i \in 1 .. n : i \in rows <=> \E g \in 1 .. Len(c) : c[g] = rs[i].uid
      /\ DOMAIN d = 1 .. N /\ \A a \in 1 .. N : d[a] = rs[ord[a]]
  BY <1>1 DEF IsDump
<1>3. (\A a \in 1 .. N : ord[a] \in rows) /\ \A i \in rows : \E a \in 1 .. N : ord[a] = i
  BY <1>1 DEF IsDump, IsListing
<1>4. ASSUME NEW a \in 1 .. N PROVE \E g \in 1 .. Len(c) : d[a].uid = c[g]
  <2>1. ord[a] \in rows /\ ord[a] \in 1 .. n
    BY <1>2, <1>3
  <2>. QED BY <1>2, <2>1
<1>5. ASSUME NEW g \in 1 .. Len(c) PROVE \E a \in 1 .. N : d[a].uid = c[g]
  <2>1. PICK i \in 1 .. n : rs[i].uid = c[g]
    BY DEF IsChoice
  <2>2. i \in rows
    BY <1>2, <2>1
  <2>3. PICK a \in 1 .. N : ord[a] = i
    BY <1>3, <2>2
  <2>. QED BY <1>2, <2>1, <2>3
<1>6. {d[a].uid : a \in 1 .. N} = {c[g] : g \in 1 .. Len(c)}
  <2>1. PICK A : A = {d[a].uid : a \in 1 .. N}  OBVIOUS
  <2>2. PICK B : B = {c[g] : g \in 1 .. Len(c)}  OBVIOUS
  <2>3. ASSUME NEW u PROVE u \in A <=> u \in B
    <3>1. u \in A <=> \E a \in 1 .. N : u = d[a].uid
      BY <2>1
    <3>2. u \in B <=> \E g \in 1 .. Len(c) : u = c[g]
      BY <2>2
    <3>3. ASSUME u \in A PROVE u \in B
      <4>1. PICK a \in 1 .. N : u = d[a].uid
        BY <3>1, <3>3
      <4>. QED BY <1>4, <3>2, <4>1
    <3>4. ASSUME u \in B PROVE u \in A
      <4>1. PICK g \in 1 .. Len(c) : u = c[g]
        BY <3>2, <3>4
      <4>. QED BY <1>5, <3>1, <4>1
    <3>. QED BY <3>3, <3>4
  <2>. QED BY <2>1, <2>2, <2>3
<1>. QED BY <1>2, <1>6 DEF UidSet, Listed

\* As many groups as are asked for, or all of them.
LEMMA DumpTakesGroups ==
    ASSUME NEW U, NEW n \in Nat, NEW rs, IsKeyed(rs, n, U), NEW most \in Nat, NEW c, IsChoice(c, rs, n, U, most),
           NEW uids, uids = UidSet(rs), NEW taken, taken = Listed(c)
    PROVE  Cardinality(taken) = Min({most, Cardinality(uids)})
<1>1. DOMAIN rs = 1 .. n
  BY DEF IsKeyed
<1>2. PICK m \in Nat : m = Len(c)
  BY DEF IsChoice
<1>3. /\ m <= most /\ \A g, h \in 1 .. m : c[g] = c[h] => g = h
      /\ \A g \in 1 .. m : \E i \in 1 .. n : rs[i].uid = c[g]
      /\ m < most => \A i \in 1 .. n : \E g \in 1 .. m : c[g] = rs[i].uid
  BY <1>2 DEF IsChoice
<1>4. taken \subseteq uids /\ (m < most => taken = uids)
  <2>1. \A u \in taken : \E g \in 1 .. m : u = c[g]
    BY <1>2 DEF Listed
  <2>2. \A i \in 1 .. n : rs[i].uid \in uids
    BY <1>1 DEF UidSet
  <2>3. \A u \in uids : \E i \in 1 .. n : u = rs[i].uid
    BY <1>1 DEF UidSet
  <2>4. \A g \in 1 .. m : c[g] \in taken
    BY <1>2 DEF Listed
  <2>5. taken \subseteq uids
    <3>1. ASSUME NEW u \in taken PROVE u \in uids
      <4>1. PICK g \in 1 .. m : u = c[g]
        BY <2>1
      <4>2. PICK i \in 1 .. n : rs[i].uid = c[g]
        BY <1>3
      <4>. QED BY <2>2, <4>1, <4>2
    <3>. QED BY <3>1
  <2>6. ASSUME m < most, NEW u \in uids PROVE u \in taken
    <3>1. PICK i \in 1 .. n : u = rs[i].uid
      BY <2>3
    <3>2. PICK g \in 1 .. m : c[g] = rs[i].uid
      BY <1>3, <2>6
    <3>. QED BY <2>4, <3>1, <3>2
  <2>. QED BY <2>5, <2>6
<1>5. IsFiniteSet(taken) /\ Cardinality(taken) = m
  <2>1. PICK f : f = [g \in 1 .. m |-> c[g]]  OBVIOUS
  <2>2. f \in [1 .. m -> taken] /\ \A g \in 1 .. m : f[g] = c[g]
    BY <1>2, <2>1 DEF Listed
  <2>3. \A g, h \in 1 .. m : f[g] = f[h] => g = h
    BY <1>3, <2>2
  <2>4. \A u \in taken : \E g \in 1 .. m : f[g] = u
    BY <1>2, <2>2 DEF Listed
  <2>5. f \in Bijection(1 .. m, taken)
    BY <2>2, <2>3, <2>4 DEF Bijection, Injection, Surjection, IsInjective
  <2>6. ExistsBijection(1 .. m, taken)
    BY <2>5 DEF ExistsBijection
  <2>7. IsFiniteSet(1 .. m) /\ Cardinality(1 .. m) = m
    BY FS_Interval
  <2>. QED BY <2>6, <2>7, FS_Bijection
<1>6. IsFiniteSet(uids)
  <2>1. PICK f : f = [i \in 1 .. n |-> rs[i].uid]  OBVIOUS
  <2>2. f \in [1 .. n -> uids] /\ \A i \in 1 .. n : f[i] = rs[i].uid
    BY <1>1, <2>1 DEF UidSet
  <2>3. f \in Surjection(1 .. n, uids)
    BY <1>1, <2>2 DEF Surjection, UidSet
  <2>4. IsFiniteSet(1 .. n)
    BY FS_Interval
  <2>. QED BY <2>3, <2>4, FS_Surjection
<1>7. PICK z \in Nat : z = Cardinality(uids) /\ m <= z
  <2>1. Cardinality(taken) <= Cardinality(uids)
    BY <1>4, <1>6, FS_Subset
  <2>. QED BY <1>5, <1>6, <2>1, FS_CardinalityType
<1>8. m \in {most, z} /\ \A x \in {most, z} : m <= x
  <2>1. m < most => m = z
    BY <1>4, <1>5, <1>7
  <2>. QED BY <1>3, <1>7, <2>1
<1>9. Min({most, z}) = m
  <2>1. \A x \in {most, z} : x \in Nat  OBVIOUS
  <2>. QED BY <1>8, <2>1 DEF Min
<1>. QED BY <1>5, <1>7, <1>9

\* A group's rows stand together, the standard ones first.
LEMMA GroupsStandTogether ==
    ASSUME NEW U, NEW n \in Nat, NEW rs, IsKeyed(rs, n, U), NEW most \in Nat, NEW c, IsChoice(c, rs, n, U, most),
           NEW rows, rows = DumpRows(rs, c), NEW ord, NEW d, IsDump(d, ord, rs, n, c, rows),
           NEW i \in DOMAIN d, NEW j \in DOMAIN d, i < j, d[i].uid = d[j].uid
    PROVE  /\ \A m \in i .. j : d[m].uid = d[i].uid
           /\ d[j].kind = "std" => d[i].kind = "std"
<1>1. PICK N \in Nat : N = Cardinality(rows)
  BY FS_CardinalityType DEF IsDump
<1>2. DOMAIN d = 1 .. N /\ \A k \in 1 .. N : d[k] = rs[ord[k]]
  BY <1>1 DEF IsDump
<1>3. PICK R : R = DumpRelation(rs, c, rows)  OBVIOUS
<1>4. /\ \A k \in 1 .. N : ord[k] \in rows
      /\ \A k, l \in 1 .. N : k < l => <<ord[k], ord[l]>> \in R
  BY <1>1, <1>3 DEF IsDump, IsListing
<1>5. PICK a, b, s : IsKeys(a, b, s, rs, c, rows)
  <2>1. c \in Seq(U)
    BY DEF IsChoice
  <2>. QED BY <2>1, RowsHaveKeys
<1>6. ASSUME NEW x \in rows
      PROVE  a[x] \in Int /\ b[x] \in {0, 1} /\ c[a[x]] = rs[x].uid /\ (b[x] = 0 <=> rs[x].kind = "std")
  <2>1. a[x] \in 1 .. Len(c) /\ Len(c) \in Nat
    BY <1>5 DEF IsKeys, IsChoice
  <2>2. b[x] \in {0, 1} /\ c[a[x]] = rs[x].uid /\ (b[x] = 0 <=> rs[x].kind = "std")
    BY <1>5 DEF IsKeys
  <2>. QED BY <2>1, <2>2
<1>7. ASSUME NEW x \in rows, NEW y \in rows, <<x, y>> \in R
      PROVE  a[x] <= a[y] /\ (a[x] = a[y] => b[x] <= b[y])
  <2>1. Precedes(rs, c, x, y)
    BY <1>3, <1>7 DEF DumpRelation
  <2>2. \/ a[x] < a[y]
        \/ a[x] = a[y] /\ b[x] < b[y]
        \/ a[x] = a[y] /\ b[x] = b[y]
    BY <1>5, <2>1 DEF IsKeys
  <2>. QED BY <1>6, <2>2
<1>8. i \in 1 .. N /\ j \in 1 .. N
  BY <1>2
<1>9. ord[i] \in rows /\ ord[j] \in rows /\ <<ord[i], ord[j]>> \in R
  BY <1>4, <1>8
<1>10. a[ord[i]] = a[ord[j]]
  <2>1. c[a[ord[i]]] = c[a[ord[j]]]
    BY <1>2, <1>6, <1>8, <1>9
  <2>2. a[ord[i]] \in 1 .. Len(c) /\ a[ord[j]] \in 1 .. Len(c)
    BY <1>5, <1>9 DEF IsKeys
  <2>. QED BY <2>1, <2>2 DEF IsChoice
<1>11. ASSUME NEW m \in i .. j PROVE d[m].uid = d[i].uid
  <2>1. m \in 1 .. N /\ (m = i \/ i < m) /\ (m = j \/ m < j)
    BY <1>8
  <2>2. ord[m] \in rows
    BY <1>4, <2>1
  <2>3. a[ord[i]] <= a[ord[m]]
    <3>1. CASE m = i
      BY <1>6, <1>9, <3>1
    <3>2. CASE i < m
      BY <1>4, <1>7, <1>8, <1>9, <2>1, <2>2, <3>2
    <3>. QED BY <2>1, <3>1, <3>2
  <2>4. a[ord[m]] <= a[ord[j]]
    <3>1. CASE m = j
      BY <1>6, <1>9, <3>1
    <3>2. CASE m < j
      BY <1>4, <1>7, <1>8, <1>9, <2>1, <2>2, <3>2
    <3>. QED BY <2>1, <3>1, <3>2
  <2>5. a[ord[m]] = a[ord[i]]
    BY <1>6, <1>9, <1>10, <2>2, <2>3, <2>4
  <2>6. rs[ord[m]].uid = rs[ord[i]].uid
    BY <1>6, <1>9, <2>2, <2>5
  <2>. QED BY <1>2, <1>8, <2>1, <2>6
<1>12. ASSUME d[j].kind = "std" PROVE d[i].kind = "std"
  <2>1. b[ord[j]] = 0
    BY <1>2, <1>6, <1>8, <1>9, <1>12
  <2>2. b[ord[i]] <= b[ord[j]]
    BY <1>7, <1>9, <1>10
  <2>3. b[ord[i]] = 0
    BY <1>6, <1>9, <2>1, <2>2
  <2>. QED BY <1>2, <1>6, <1>8, <1>9, <2>3
<1>. QED BY <1>11, <1>12

\* The rows of the dump that are of a kind P are as many as those of the batch.
LEMMA DumpCounts ==
    ASSUME NEW n \in Nat, NEW rs, NEW c, NEW rows, NEW ord, NEW d, IsDump(d, ord, rs, n, c, rows), NEW P \in SUBSET rows
    PROVE  Cardinality({a \in DOMAIN d : ord[a] \in P}) = Cardinality(P)
<1>1. IsFiniteSet(rows) /\ IsListing(ord, rows, DumpRelation(rs, c, rows)) /\ DOMAIN d = 1 .. Cardinality(rows)
  BY DEF IsDump
<1>2. Cardinality({a \in 1 .. Cardinality(rows) : ord[a] \in P}) = Cardinality(P)
  BY <1>1, PlacesOfPart
<1>. QED BY <1>1, <1>2

\* Pairs of a group's two halves.
LEMMA PairsAcross ==
    ASSUME NEW U, NEW n \in Nat, NEW rs, IsKeyed(rs, n, U), NEW c, NEW rows,
           NEW ord, NEW d, IsDump(d, ord, rs, n, c, rows), NEW uid, uid \in {d[a].uid : a \in DOMAIN d},
           NEW ofStd, ofStd = {i \in DOMAIN rs : rs[i].uid = uid /\ rs[i].kind = "std"},
           NEW ofCuts, ofCuts = {i \in DOMAIN rs : rs[i].uid = uid /\ rs[i].kind = "cuts"}
    PROVE  Cardinality(CrossPairs(d, uid)) = Cardinality(ofStd) * Cardinality(ofCuts)
<1>1. PICK N \in Nat : N = Cardinality(rows)
  BY FS_CardinalityType DEF IsDump
<1>2. /\ DOMAIN d = 1 .. N /\ \A k \in 1 .. N : d[k] = rs[ord[k]]
      /\ rows \in SUBSET (1 .. n) /\ \A i \in 1 .. n : i \in rows <=> \E g \in 1 .. Len(c) : c[g] = rs[i].uid
  BY <1>1 DEF IsDump
<1>3. \A k \in 1 .. N : ord[k] \in rows
  BY <1>1 DEF IsDump, IsListing
<1>4. DOMAIN rs = 1 .. n
  BY DEF IsKeyed
<1>5. PICK k \in 1 .. N : d[k].uid = uid
  BY <1>2
<1>6. PICK g \in 1 .. Len(c) : c[g] = uid
  <2>1. PICK i \in rows : d[k] = rs[i]
    BY <1>2, <1>3
  <2>2. rs[i].uid = uid /\ i \in 1 .. n
    BY <1>2, <1>5, <2>1
  <2>. QED BY <1>2, <2>1, <2>2
<1>7. ofStd \in SUBSET rows /\ ofCuts \in SUBSET rows
  BY <1>2, <1>4, <1>6
<1>8. PICK A : A = {a \in DOMAIN d : ord[a] \in ofCuts}  OBVIOUS
<1>9. PICK B : B = {a \in DOMAIN d : ord[a] \in ofStd}  OBVIOUS
<1>10. Cardinality(A) = Cardinality(ofCuts) /\ Cardinality(B) = Cardinality(ofStd)
  BY <1>7, <1>8, <1>9, DumpCounts
<1>11. ASSUME NEW a \in DOMAIN d
       PROVE  /\ a \in A <=> d[a].uid = uid /\ d[a].kind = "cuts"
              /\ a \in B <=> d[a].uid = uid /\ d[a].kind = "std"
  <2>1. d[a] = rs[ord[a]] /\ ord[a] \in DOMAIN rs
    BY <1>2, <1>3, <1>4
  <2>. QED BY <1>8, <1>9, <2>1
<1>12. A \subseteq DOMAIN d /\ B \subseteq DOMAIN d
  BY <1>8, <1>9
<1>13. CrossPairs(d, uid) = A \X B
  <2>1. ASSUME NEW p PROVE p \in CrossPairs(d, uid) <=> p \in A \X B
    <3>1. p \in CrossPairs(d, uid) <=>
             /\ p \in (DOMAIN d) \X (DOMAIN d) /\ d[p[1]].uid = uid /\ d[p[2]].uid = uid
             /\ d[p[1]].kind = "cuts" /\ d[p[2]].kind = "std"
      BY DEF CrossPairs
    <3>2. p \in A \X B => p \in (DOMAIN d) \X (DOMAIN d)
      BY <1>12
    <3>3. p \in (DOMAIN d) \X (DOMAIN d) => (p \in A \X B <=> p[1] \in A /\ p[2] \in B)  OBVIOUS
    <3>4. p \in (DOMAIN d) \X (DOMAIN d) => p[1] \in DOMAIN d /\ p[2] \in DOMAIN d  OBVIOUS
    <3>. QED BY <1>11, <3>1, <3>2, <3>3, <3>4
  <2>. QED BY <2>1
<1>14. IsFiniteSet(A) /\ IsFiniteSet(B)
  <2>1. IsFiniteSet(1 .. N)
    BY FS_Interval
  <2>2. A \in SUBSET (1 .. N) /\ B \in SUBSET (1 .. N)
    BY <1>2, <1>12
  <2>. QED BY <2>1, <2>2, FS_Subset
<1>15. Cardinality(A \X B) = Cardinality(A) * Cardinality(B)
  BY <1>14, FS_Product
<1>16. PICK x, y \in Nat : x = Cardinality(A) /\ y = Cardinality(B)
  BY <1>14, FS_CardinalityType
<1>17. x * y = y * x
  BY <1>16
<1>. QED BY <1>10, <1>13, <1>15, <1>16, <1>17

\* The two analyses compare the same pairs.
LEMMA SamePairs ==
    ASSUME NEW N \in Nat, NEW d, DOMAIN d = 1 .. N, NEW uid
    PROVE  {{p[1], p[2]} : p \in CrossPairs(d, uid)} = {{p[1], p[2]} : p \in PairsOfKinds(d, uid, "std", "cuts")}
<1>1. ASSUME NEW p \in CrossPairs(d, uid)
      PROVE  \E q \in PairsOfKinds(d, uid, "std", "cuts") : {q[1], q[2]} = {p[1], p[2]}
  <2>1. PICK a \in 1 .. N, b \in 1 .. N : p = <<a, b>>
    BY DEF CrossPairs
  <2>2. d[a].uid = uid /\ d[b].uid = uid /\ d[a].kind = "cuts" /\ d[b].kind = "std"
    BY <2>1 DEF CrossPairs
  <2>3. a # b
    BY <2>2
  <2>4. CASE a < b
    <3>1. <<a, b>> \in PairsOfKinds(d, uid, "std", "cuts")
      BY <2>2, <2>4 DEF PairsOfKinds
    <3>. QED BY <2>1, <3>1
  <2>5. CASE b < a
    <3>1. <<b, a>> \in PairsOfKinds(d, uid, "std", "cuts")
      BY <2>2, <2>5 DEF PairsOfKinds
    <3>2. PICK q : q = <<b, a>>  OBVIOUS
    <3>3. {q[1], q[2]} = {p[1], p[2]}
      BY <2>1, <3>2
    <3>. QED BY <3>1, <3>2, <3>3
  <2>6. a < b \/ b < a
    BY <2>3
  <2>. QED BY <2>4, <2>5, <2>6
<1>2. ASSUME NEW q \in PairsOfKinds(d, uid, "std", "cuts")
      PROVE  \E p \in CrossPairs(d, uid) : {q[1], q[2]} = {p[1], p[2]}
  <2>1. PICK a \in 1 .. N, b \in 1 .. N : q = <<a, b>>
    BY DEF PairsOfKinds
  <2>2. /\ d[a].uid = uid /\ d[b].uid = uid
        /\ <<d[a].kind, d[b].kind>> \in {<<"std", "cuts">>, <<"cuts", "std">>}
    BY <2>1 DEF PairsOfKinds
  <2>3. CASE d[a].kind = "cuts" /\ d[b].kind = "std"
    <3>1. <<a, b>> \in CrossPairs(d, uid)
      BY <2>2, <2>3 DEF CrossPairs
    <3>. QED BY <2>1, <3>1
  <2>4. CASE d[a].kind = "std" /\ d[b].kind = "cuts"
    <3>1. <<b, a>> \in CrossPairs(d, uid)
      BY <2>2, <2>4 DEF CrossPairs
    <3>2. PICK p : p = <<b, a>>  OBVIOUS
    <3>3. {q[1], q[2]} = {p[1], p[2]}
      BY <2>1, <3>2
    <3>. QED BY <3>1, <3>2, <3>3
  <2>5. (d[a].kind = "cuts" /\ d[b].kind = "std") \/ (d[a].kind = "std" /\ d[b].kind = "cuts")
    BY <2>2
  <2>. QED BY <2>3, <2>4, <2>5
<1>3. PICK A : A = {{p[1], p[2]} : p \in CrossPairs(d, uid)}  OBVIOUS
<1>4. PICK B : B = {{p[1], p[2]} : p \in PairsOfKinds(d, uid, "std", "cuts")}  OBVIOUS
<1>5. ASSUME NEW e PROVE e \in A <=> e \in B
  <2>1. e \in A <=> \E p \in CrossPairs(d, uid) : e = {p[1], p[2]}
    BY <1>3
  <2>2. e \in B <=> \E q \in PairsOfKinds(d, uid, "std", "cuts") : e = {q[1], q[2]}
    BY <1>4
  <2>3. ASSUME e \in A PROVE e \in B
    <3>1. PICK p \in CrossPairs(d, uid) : e = {p[1], p[2]}
      BY <2>1, <2>3
    <3>2. PICK q \in PairsOfKinds(d, uid, "std", "cuts") : {q[1], q[2]} = {p[1], p[2]}
      BY <1>1
    <3>. QED BY <2>2, <3>1, <3>2
  <2>4. ASSUME e \in B PROVE e \in A
    <3>1. PICK q \in PairsOfKinds(d, uid, "std", "cuts") : e = {q[1], q[2]}
      BY <2>2, <2>4
    <3>2. PICK p \in CrossPairs(d, uid) : {q[1], q[2]} = {p[1], p[2]}
      BY <1>2
    <3>. QED BY <2>1, <3>1, <3>2
  <2>. QED BY <2>3, <2>4
<1>. QED BY <1>3, <1>4, <1>5

\* What the dump d promises, by its parts.
AreWhole(rs, d, most, dumped, uids) ==
    /\ Cardinality(dumped) = Min({most, Cardinality(uids)})
    /\ \A r \in ToSet(rs) :
          Cardinality({i \in DOMAIN d : d[i] = r})
          = IF r.uid \in dumped THEN Cardinality({i \in DOMAIN rs : rs[i] = r}) ELSE 0
    /\ \A i, j \in DOMAIN d :
          (i < j /\ d[i].uid = d[j].uid) =>
             /\ \A m \in i .. j : d[m].uid = d[i].uid
             /\ d[j].kind = "std" => d[i].kind = "std"
    /\ \A uid \in dumped :
          /\ Cardinality(CrossPairs(d, uid))
             = Cardinality({i \in DOMAIN rs : rs[i].uid = uid /\ rs[i].kind = "std"})
               * Cardinality({i \in DOMAIN rs : rs[i].uid = uid /\ rs[i].kind = "cuts"})
          /\ {{p[1], p[2]} : p \in CrossPairs(d, uid)}
               = {{p[1], p[2]} : p \in PairsOfKinds(d, uid, "std", "cuts")}

\* The parts are the whole promise.
LEMMA WholeByParts ==
    ASSUME NEW rs, NEW maxGroups, NEW d, d = DumpSampledGroups(rs, maxGroups), NEW most, most = Most(maxGroups),
           NEW dumped, dumped = UidSet(d), NEW uids, uids = UidSet(rs),
           AreWhole(rs, d, most, dumped, uids)
    PROVE  DumpHoldsWholeGroups(rs, maxGroups)
<1>1. AreWhole(rs, DumpSampledGroups(rs, maxGroups), IF maxGroups = 0 THEN 1 ELSE maxGroups,
               {DumpSampledGroups(rs, maxGroups)[i].uid : i \in DOMAIN DumpSampledGroups(rs, maxGroups)},
               {rs[i].uid : i \in DOMAIN rs})
  BY DEF Most, UidSet
<1>. QED BY <1>1 DEF DumpHoldsWholeGroups, AreWhole

\* Whole groups are dumped, of any batch.
THEOREM DumpAlwaysWhole ==
    ASSUME NEW U, NEW n \in Nat, NEW rs, IsKeyed(rs, n, U), NEW maxGroups \in Nat
    PROVE  DumpHoldsWholeGroups(rs, maxGroups)
<1>1. PICK c : c = Chosen(rs, maxGroups)  OBVIOUS
<1>2. PICK rows : rows = DumpRows(rs, c)  OBVIOUS
<1>3. PICK d : d = DumpSampledGroups(rs, maxGroups)  OBVIOUS
<1>4. PICK ord : IsDump(d, ord, rs, n, c, rows)
  BY <1>1, <1>2, <1>3, DumpIs
<1>5. PICK most \in Nat : most = Most(maxGroups)
  BY DEF Most
<1>6. IsChoice(c, rs, n, U, most)
  BY <1>1, <1>5, ChosenIsChoice
<1>7. PICK dumped : dumped = UidSet(d)  OBVIOUS
<1>8. PICK uids : uids = UidSet(rs)  OBVIOUS
<1>9. dumped = Listed(c)
  BY <1>4, <1>5, <1>6, <1>7, DumpedUids
<1>10. Cardinality(dumped) = Min({most, Cardinality(uids)})
  BY <1>5, <1>6, <1>8, <1>9, DumpTakesGroups
<1>11. PICK N \in Nat : N = Cardinality(rows) /\ DOMAIN d = 1 .. N
  BY <1>4, FS_CardinalityType DEF IsDump
<1>12. DOMAIN rs = 1 .. n
  BY DEF IsKeyed
<1>13. /\ \A k \in 1 .. N : d[k] = rs[ord[k]] /\ ord[k] \in rows
       /\ rows \in SUBSET (1 .. n) /\ \A i \in 1 .. n : i \in rows <=> \E g \in 1 .. Len(c) : c[g] = rs[i].uid
  BY <1>4, <1>11 DEF IsDump, IsListing
<1>14. ASSUME NEW r, r \in ToSet(rs)
       PROVE  Cardinality({i \in DOMAIN d : d[i] = r})
              = IF r.uid \in dumped THEN Cardinality({i \in DOMAIN rs : rs[i] = r}) ELSE 0
  <2>1. CASE r.uid \in dumped
    <3>1. PICK P : P = {i \in DOMAIN rs : rs[i] = r}  OBVIOUS
    <3>2. PICK g \in 1 .. Len(c) : c[g] = r.uid
      BY <1>9, <2>1 DEF Listed
    <3>3. P \in SUBSET rows
      BY <1>12, <1>13, <3>1, <3>2
    <3>4. Cardinality({a \in DOMAIN d : ord[a] \in P}) = Cardinality(P)
      BY <1>4, <3>3, DumpCounts
    <3>5. \A a \in DOMAIN d : ord[a] \in P <=> d[a] = r
      BY <1>11, <1>12, <1>13, <3>1
    <3>6. {a \in DOMAIN d : ord[a] \in P} = {a \in DOMAIN d : d[a] = r}
      BY <3>5
    <3>. QED BY <2>1, <3>1, <3>4, <3>6
  <2>2. CASE r.uid \notin dumped
    <3>1. {i \in DOMAIN d : d[i] = r} = {}
      BY <1>7, <2>2 DEF UidSet
    <3>2. Cardinality({i \in DOMAIN d : d[i] = r}) = 0
      BY <3>1, FS_EmptySet
    <3>. QED BY <2>2, <3>2
  <2>. QED BY <2>1, <2>2
<1>15. ASSUME NEW i \in DOMAIN d, NEW j \in DOMAIN d, i < j /\ d[i].uid = d[j].uid
       PROVE  /\ \A m \in i .. j : d[m].uid = d[i].uid
              /\ d[j].kind = "std" => d[i].kind = "std"
  BY <1>2, <1>4, <1>5, <1>6, <1>15, GroupsStandTogether
<1>16. ASSUME NEW uid \in dumped
       PROVE  /\ Cardinality(CrossPairs(d, uid))
                 = Cardinality({i \in DOMAIN rs : rs[i].uid = uid /\ rs[i].kind = "std"})
                   * Cardinality({i \in DOMAIN rs : rs[i].uid = uid /\ rs[i].kind = "cuts"})
              /\ {{p[1], p[2]} : p \in CrossPairs(d, uid)}
                 = {{p[1], p[2]} : p \in PairsOfKinds(d, uid, "std", "cuts")}
  <2>1. PICK P : P = {i \in DOMAIN rs : rs[i].uid = uid /\ rs[i].kind = "std"}  OBVIOUS
  <2>2. PICK Q : Q = {i \in DOMAIN rs : rs[i].uid = uid /\ rs[i].kind = "cuts"}  OBVIOUS
  <2>3. Cardinality(CrossPairs(d, uid)) = Cardinality(P) * Cardinality(Q)
    BY <1>4, <1>7, <2>1, <2>2, PairsAcross DEF UidSet
  <2>4. {{p[1], p[2]} : p \in CrossPairs(d, uid)} = {{p[1], p[2]} : p \in PairsOfKinds(d, uid, "std", "cuts")}
    BY <1>11, SamePairs
  <2>. QED BY <2>1, <2>2, <2>3, <2>4
<1>. QED
  <2>1. AreWhole(rs, d, most, dumped, uids)
    BY <1>10, <1>14, <1>15, <1>16 DEF AreWhole
  <2>. QED BY <1>3, <1>5, <1>7, <1>8, <2>1, WholeByParts
-----------------------------------------------------------------------------
(* GroupMetricsAreRight.                                                     *)

\* A batch of some rollouts, and some tokens.
IsRollouts(rs) == \E n \in 1 .. MaxRollouts : rs \in [1 .. n -> Rollout]
IsTokens(ts) == \E n \in 1 .. MaxTokens : ts \in [1 .. n -> Token]

GroupInv ==
    /\ Named
    /\ input.of = "rollouts" => IsRollouts(input.rs)
    /\ input.of = "tokens" => IsTokens(input.ts)

\* What was taken stays a batch or tokens of it.
LEMMA GroupInvKept == (Init => GroupInv) /\ (GroupInv /\ [Next]_input => GroupInv')
<1>1. Init => GroupInv
  BY NamedInit DEF GroupInv
<1>2. ASSUME GroupInv, Next PROVE GroupInv'
  <2>1. /\ Named'
        /\ input'.of = "rollouts" => TakeRollouts
        /\ input'.of = "tokens" => TakeTokens
    BY <1>2, StepsByName DEF GroupInv
  <2>2. ASSUME input'.of = "rollouts" PROVE IsRollouts(input'.rs)
    <3>1. PICK rs \in UpTo(MaxRollouts, Rollout) : input' = [of |-> "rollouts", rs |-> rs]
      BY <2>1, <2>2 DEF TakeRollouts
    <3>2. IsRollouts(rs)
      BY DEF UpTo, IsRollouts
    <3>3. input'.rs = rs
      BY <3>1
    <3>. QED BY <3>2, <3>3
  <2>3. ASSUME input'.of = "tokens" PROVE IsTokens(input'.ts)
    <3>1. PICK ts \in UpTo(MaxTokens, Token) : input' = [of |-> "tokens", ts |-> ts]
      BY <2>1, <2>3 DEF TakeTokens
    <3>2. IsTokens(ts)
      BY DEF UpTo, IsTokens
    <3>3. input'.ts = ts
      BY <3>1
    <3>. QED BY <3>2, <3>3
  <2>. QED BY <2>1, <2>2, <2>3 DEF GroupInv
<1>3. ASSUME GroupInv, UNCHANGED input PROVE GroupInv'
  BY <1>3 DEF GroupInv, Named
<1>. QED BY <1>1, <1>2, <1>3

\* The metrics of any batch of rollouts.
LEMMA RolloutMetrics ==
    ASSUME NEW rs, IsRollouts(rs)
    PROVE  /\ HalvesHaveNoResidual(rs) /\ SavedMeansCutsDiffers(rs) /\ UtilizationIsGradient(rs)
           /\ \A maxGroups \in 0 .. 2 : DumpHoldsWholeGroups(Keyed(rs), maxGroups)
<1>1. PICK n \in 1 .. MaxRollouts : rs \in [1 .. n -> Rollout]
  BY DEF IsRollouts
<1>2. n \in Nat /\ n # 0 /\ MaxRollouts \in Nat
  BY RolloutsAssumption
<1>3. DOMAIN rs = 1 .. n
  BY <1>1
<1>4. ASSUME NEW i \in 1 .. n
      PROVE  rs[i].reward \in 0 .. One /\ rs[i].kind \in {"std", "cuts"} /\ rs[i].uid \in {"u", "v"}
  BY <1>1 DEF Rollout
<1>5. Len(rs) = n
  BY <1>1, <1>2
<1>6. IsBatch(rs, n)
  BY <1>2, <1>3, <1>4, <1>5 DEF IsBatch
<1>7. HalvesHaveNoResidual(rs) /\ SavedMeansCutsDiffers(rs) /\ UtilizationIsGradient(rs)
  BY <1>6, HalvesAreExact, SavedDiffer, UtilizationHolds
<1>8. PICK ks : ks = Keyed(rs)  OBVIOUS
<1>9. ks = [i \in 1 .. n |-> [uid |-> rs[i].uid, kind |-> rs[i].kind, session |-> MaxRollouts - i]]
  BY <1>3, <1>8 DEF Keyed
<1>10. IsKeyed(ks, n, {"u", "v"})
  <2>1. ASSUME NEW i \in 1 .. n PROVE MaxRollouts - i \in Int
    BY <1>2
  <2>2. ASSUME NEW i \in 1 .. n
        PROVE  [uid |-> rs[i].uid, kind |-> rs[i].kind, session |-> MaxRollouts - i]
                 \in [uid : {"u", "v"}, kind : {"std", "cuts"}, session : Int]
    BY <1>4, <2>1
  <2>. QED BY <1>9, <2>2 DEF IsKeyed
<1>11. ASSUME NEW maxGroups \in 0 .. 2 PROVE DumpHoldsWholeGroups(ks, maxGroups)
  <2>1. maxGroups \in Nat  OBVIOUS
  <2>. QED BY <1>2, <1>10, <2>1, DumpAlwaysWhole
<1>. QED BY <1>7, <1>8, <1>11

\* The group metrics say what their descriptions say, of any batch: Eq. 5 is exact for halves, a
\* saved group is one in which a CUTS rollout differs, the utilization counts the rollouts with a
\* gradient (diagnostics.py), the leak detector looks where CUTS was active, and the dump holds
\* whole groups (trainer.py).
THEOREM GroupMetricsAlwaysRight == Spec => []GroupMetricsAreRight
<1>1. ASSUME GroupInv PROVE GroupMetricsAreRight
  <2>1. ASSUME input.of = "rollouts"
        PROVE  /\ HalvesHaveNoResidual(input.rs) /\ SavedMeansCutsDiffers(input.rs)
               /\ UtilizationIsGradient(input.rs)
               /\ \A maxGroups \in 0 .. 2 : DumpHoldsWholeGroups(Keyed(input.rs), maxGroups)
    <3>1. PICK rs : rs = input.rs  OBVIOUS
    <3>2. IsRollouts(rs)
      BY <1>1, <2>1, <3>1 DEF GroupInv
    <3>. QED BY <3>1, <3>2, RolloutMetrics
  <2>2. ASSUME input.of = "tokens" PROVE LeakIsSeen(input.ts, 1, 3)
    <3>1. PICK ts : ts = input.ts  OBVIOUS
    <3>2. IsTokens(ts)
      BY <1>1, <2>2, <3>1 DEF GroupInv
    <3>3. PICK n \in 1 .. MaxTokens : ts \in [1 .. n -> Token]
      BY <3>2 DEF IsTokens
    <3>4. n \in Nat /\ DOMAIN ts = 1 .. n
      BY <3>3
    <3>5. \A i \in 1 .. n : ts[i].lp \in 0 .. 3
      BY <3>3 DEF Token
    <3>6. LeakIsSeen(ts, 1, 3)
      BY <3>4, <3>5, LeaksAreSeen
    <3>. QED BY <3>1, <3>6
  <2>. QED BY <2>1, <2>2 DEF GroupMetricsAreRight
<1>2. GroupInv => GroupMetricsAreRight
  BY <1>1
<1>. QED BY <1>2, GroupInvKept, PTL DEF Spec
-----------------------------------------------------------------------------
(* pass@k.                                                                   *)

\* The products m (m - 1) ... of 0 .. k factors.
IsFall(p, m, k) ==
    p \in [0 .. k -> Int] /\ p[0] = 1 /\ \A i \in 1 .. k : p[i] = p[i - 1] * (m + 1 - i)

\* g is the fold of the factors.
IsFallFold(g, m, seq, D) ==
    g = [T \in SUBSET D |-> IF T = {} THEN 1 ELSE g[T \ {Max(T)}] * (m + 1 - seq[Max(T)])]

\* The fold of the model, unfolded once.
LEMMA FallingIsFold ==
    ASSUME NEW m, NEW k, NEW seq, seq = [i \in 1 .. k |-> i]
    PROVE  Falling(m, k) = (CHOOSE g : IsFallFold(g, m, seq, DOMAIN seq))[DOMAIN seq]
BY DEF Falling, FoldLeft, MapThenFoldSet, IsFallFold

\* It is such a product.
LEMMA FallingIs ==
    ASSUME NEW m \in Int, NEW k \in Nat
    PROVE  \E p : IsFall(p, m, k) /\ Falling(m, k) = p[k]
<1>1. PICK seq : seq = [i \in 1 .. k |-> i]  OBVIOUS
<1>2. DOMAIN seq = 1 .. k /\ \A i \in 1 .. k : seq[i] = i
  BY <1>1
<1>3. PICK F : F = [x \in Int \X (1 .. k) |-> x[1] * (m + 1 - x[2])]  OBVIOUS
<1>4. ASSUME NEW y \in Int, NEW i \in 1 .. k
      PROVE  F[<<y, i>>] = y * (m + 1 - i) /\ F[<<y, i>>] \in Int
  <2>1. F[<<y, i>>] = y * (m + 1 - i)
    BY <1>3
  <2>2. m + 1 - i \in Int  OBVIOUS
  <2>3. y * (m + 1 - i) \in Int
    BY <2>2
  <2>. QED BY <2>1, <2>3
<1>5. F \in [Int \X (1 .. k) -> Int]
  BY <1>3, <1>4
<1>6. PICK h : IsFold(h, F, 1, k, Int)
  <2>1. 1 \in Int  OBVIOUS
  <2>. QED BY <1>5, <2>1, FoldsExist
<1>7. h = [T \in SUBSET (1 .. k) |-> h[T]] /\ h[{}] = 1
  BY <1>6 DEF IsFold
<1>8. ASSUME NEW T \in SUBSET (1 .. k)
      PROVE  h[T] = IF T = {} THEN 1 ELSE h[T \ {Max(T)}] * (m + 1 - seq[Max(T)])
  <2>1. CASE T # {}
    <3>1. FoldsOn(h, F, T, k, Int)
      BY <1>6, <2>1, FoldAt
    <3>. QED BY <1>2, <1>4, <2>1, <3>1 DEF FoldsOn
  <2>. QED BY <1>7, <2>1
<1>9. IsFallFold(h, m, seq, 1 .. k)
  BY <1>7, <1>8 DEF IsFallFold
<1>10. PICK g : g = CHOOSE f : IsFallFold(f, m, seq, DOMAIN seq)  OBVIOUS
<1>11. IsFallFold(g, m, seq, 1 .. k)
  BY <1>2, <1>9, <1>10
<1>12. IsFolded(g, F, 1, k, Int)
  <2>1. ASSUME NEW T \in SUBSET (1 .. k), T # {}, g[T \ {Max(T)}] \in Int
        PROVE  g[T] = F[<<g[T \ {Max(T)}], Max(T)>>]
    <3>1. Max(T) \in 1 .. k
      BY <2>1, MaxOfPart
    <3>2. g[T] = g[T \ {Max(T)}] * (m + 1 - seq[Max(T)])
      BY <1>11, <2>1 DEF IsFallFold
    <3>. QED BY <1>2, <1>4, <2>1, <3>1, <3>2
  <2>2. g[{}] = 1
    BY <1>11 DEF IsFallFold
  <2>. QED BY <2>1, <2>2 DEF IsFolded
<1>13. PICK p : IsSteps(p, F, 1, k, Int, g[1 .. k])
  <2>1. 1 \in Int  OBVIOUS
  <2>. QED BY <1>5, <1>12, <2>1, FoldsAreSteps
<1>14. ASSUME NEW i \in 1 .. k PROVE p[i] = p[i - 1] * (m + 1 - i)
  <2>1. PICK j \in Nat : j = i - 1 /\ j \in 0 .. k /\ j + 1 = i /\ j + 1 <= k  OBVIOUS
  <2>2. p[j] \in Int /\ p[i] = F[<<p[j], i>>]
    BY <1>13, <2>1 DEF IsSteps
  <2>. QED BY <1>4, <2>1, <2>2
<1>15. IsFall(p, m, k)
  BY <1>13, <1>14 DEF IsFall, IsSteps
<1>16. Falling(m, k) = p[k]
  <2>1. Falling(m, k) = (CHOOSE f : IsFallFold(f, m, seq, DOMAIN seq))[DOMAIN seq]
    BY <1>1, FallingIsFold
  <2>. QED BY <1>2, <1>10, <1>13, <2>1 DEF IsSteps
<1>. QED BY <1>15, <1>16

\* Products agree as far as both go.
LEMMA FallsAgree ==
    ASSUME NEW m \in Int, NEW k \in Nat, NEW l \in Nat, k <= l, NEW p, IsFall(p, m, k), NEW q, IsFall(q, m, l)
    PROVE  p[k] = q[k]
<1>. DEFINE G == {j \in Nat : j <= k => p[j] = q[j]}
<1>1. 0 \in G
  BY DEF IsFall
<1>2. ASSUME NEW j \in Nat, j \in G PROVE j + 1 \in G
  <2>1. ASSUME j + 1 <= k PROVE p[j + 1] = q[j + 1]
    <3>1. j + 1 \in 1 .. k /\ j + 1 \in 1 .. l /\ (j + 1) - 1 = j /\ j <= k
      BY <2>1
    <3>2. p[j + 1] = p[j] * (m + 1 - (j + 1)) /\ q[j + 1] = q[j] * (m + 1 - (j + 1))
      BY <3>1 DEF IsFall
    <3>3. p[j] = q[j]
      BY <1>2, <3>1
    <3>. QED BY <3>2, <3>3
  <2>2. j + 1 \in Nat  OBVIOUS
  <2>. QED BY <2>1, <2>2
<1>3. Nat \subseteq G
  <2>. HIDE DEF G
  <2>. QED BY <1>1, <1>2, NaturalSteps
<1>. QED BY <1>3

\* One factor more at the end.
LEMMA FallingSteps ==
    ASSUME NEW m \in Int, NEW k \in Nat
    PROVE  /\ Falling(m, k) \in Int /\ Falling(m, 0) = 1
           /\ Falling(m, k + 1) = Falling(m, k) * (m - k)
<1>1. PICK p : IsFall(p, m, k) /\ Falling(m, k) = p[k]
  BY FallingIs
<1>2. PICK q : IsFall(q, m, k + 1) /\ Falling(m, k + 1) = q[k + 1]
  <2>1. k + 1 \in Nat  OBVIOUS
  <2>. QED BY <2>1, FallingIs
<1>3. PICK r : IsFall(r, m, 0) /\ Falling(m, 0) = r[0]
  BY FallingIs
<1>4. p[k] = q[k]
  <2>1. k + 1 \in Nat /\ k <= k + 1  OBVIOUS
  <2>. QED BY <1>1, <1>2, <2>1, FallsAgree
<1>5. q[k + 1] = q[k] * (m - k)
  <2>1. k + 1 \in 1 .. k + 1 /\ (k + 1) - 1 = k /\ m + 1 - (k + 1) = m - k  OBVIOUS
  <2>2. q[k + 1] = q[(k + 1) - 1] * (m + 1 - (k + 1))
    BY <1>2, <2>1 DEF IsFall
  <2>. QED BY <2>1, <2>2
<1>6. p[k] \in Int /\ r[0] = 1
  BY <1>1, <1>3 DEF IsFall
<1>. QED BY <1>1, <1>2, <1>3, <1>4, <1>5, <1>6

\* One factor more at the start.
LEMMA FallingStarts ==
    ASSUME NEW m \in Int
    PROVE  \A k \in Nat : Falling(m + 1, k + 1) = (m + 1) * Falling(m, k)
<1>. DEFINE G == {k \in Nat : Falling(m + 1, k + 1) = (m + 1) * Falling(m, k)}
<1>1. m + 1 \in Int  OBVIOUS
<1>2. 0 \in G
  <2>1. Falling(m + 1, 0 + 1) = Falling(m + 1, 0) * (m + 1 - 0) /\ Falling(m + 1, 0) = 1 /\ Falling(m, 0) = 1
    BY <1>1, FallingSteps
  <2>2. 1 * (m + 1 - 0) = (m + 1) * 1  OBVIOUS
  <2>. QED BY <2>1, <2>2
<1>3. ASSUME NEW k \in Nat, k \in G PROVE k + 1 \in G
  <2>1. k + 1 \in Nat  OBVIOUS
  <2>2. PICK a \in Int : a = Falling(m, k)
    BY FallingSteps
  <2>3. Falling(m, k + 1) = a * (m - k)
    BY <2>2, FallingSteps
  <2>4. Falling(m + 1, k + 1) = (m + 1) * a
    BY <1>3, <2>2
  <2>5. Falling(m + 1, (k + 1) + 1) = ((m + 1) * a) * ((m + 1) - (k + 1))
    BY <1>1, <2>1, <2>4, FallingSteps
  <2>6. ((m + 1) * a) * ((m + 1) - (k + 1)) = (m + 1) * (a * (m - k))  OBVIOUS
  <2>. QED BY <2>1, <2>3, <2>5, <2>6
<1>4. Nat \subseteq G
  <2>. HIDE DEF G
  <2>. QED BY <1>2, <1>3, NaturalSteps
<1>. QED BY <1>4

\* k factors from k are k!, which is not 0; from 0 there is a factor 0.
LEMMA FallingEnds ==
    /\ \A k \in Nat : Falling(k, k) \in Nat \ {0}
    /\ \A k \in Nat : Falling(0, k + 1) = 0
<1>1. \A k \in Nat : Falling(k, k) \in Nat \ {0}
  <2>. DEFINE G == {k \in Nat : Falling(k, k) \in Nat \ {0}}
  <2>1. 0 \in G
    BY FallingSteps
  <2>2. ASSUME NEW k \in Nat, k \in G PROVE k + 1 \in G
    <3>1. PICK a \in Nat \ {0} : a = Falling(k, k)
      BY <2>2
    <3>2. Falling(k + 1, k + 1) = (k + 1) * a
      BY <3>1, FallingStarts
    <3>3. (k + 1) * a \in Nat \ {0} /\ k + 1 \in Nat  OBVIOUS
    <3>. QED BY <3>2, <3>3
  <2>3. Nat \subseteq G
    <3>. HIDE DEF G
    <3>. QED BY <2>1, <2>2, NaturalSteps
  <2>. QED BY <2>3
<1>2. \A k \in Nat : Falling(0, k + 1) = 0
  <2>1. ASSUME NEW k \in Nat PROVE Falling(0, k + 1) = 0
    <3>1. -1 \in Int /\ (-1) + 1 = 0  OBVIOUS
    <3>2. Falling((-1) + 1, k + 1) = ((-1) + 1) * Falling(-1, k) /\ Falling(-1, k) \in Int
      BY <3>1, FallingStarts, FallingSteps
    <3>3. PICK a \in Int : a = Falling(-1, k)
      BY <3>2
    <3>4. 0 * a = 0  OBVIOUS
    <3>. QED BY <3>1, <3>2, <3>3, <3>4
  <2>. QED BY <2>1
<1>. QED BY <1>1, <1>2

\* The k-subsets of a set with one more member.
LEMMA OneMoreToDraw ==
    ASSUME NEW S, IsFiniteSet(S), NEW x, x \notin S, NEW k \in Nat
    PROVE  /\ IsFiniteSet(kSubset(k, S)) /\ IsFiniteSet(kSubset(k + 1, S)) /\ IsFiniteSet(kSubset(k + 1, S \cup {x}))
           /\ Cardinality(kSubset(k + 1, S \cup {x})) = Cardinality(kSubset(k + 1, S)) + Cardinality(kSubset(k, S))
<1>1. PICK X : X = S \cup {x}  OBVIOUS
<1>2. IsFiniteSet(X)
  BY <1>1, FS_AddElement
<1>3. IsFiniteSet(SUBSET S) /\ IsFiniteSet(SUBSET X)
  BY <1>2, FS_SUBSET
<1>4. /\ kSubset(k, S) \in SUBSET (SUBSET S) /\ kSubset(k + 1, S) \in SUBSET (SUBSET S)
      /\ kSubset(k + 1, X) \in SUBSET (SUBSET X)
  BY DEF kSubset
<1>5. IsFiniteSet(kSubset(k, S)) /\ IsFiniteSet(kSubset(k + 1, S)) /\ IsFiniteSet(kSubset(k + 1, X))
  BY <1>3, <1>4, FS_Subset
<1>6. PICK A : A = kSubset(k + 1, S)  OBVIOUS
<1>7. PICK B \in SUBSET kSubset(k + 1, X) : B = {D \in kSubset(k + 1, X) : x \in D}  OBVIOUS
<1>8. kSubset(k + 1, X) = A \cup B
  <2>1. ASSUME NEW D PROVE D \in kSubset(k + 1, X) /\ x \notin D <=> D \in A
    <3>1. D \subseteq X /\ x \notin D <=> D \subseteq S
      BY <1>1
    <3>. QED BY <1>6, <3>1 DEF kSubset
  <2>. QED BY <1>7, <2>1
<1>9. A \cap B = {}
  BY <1>6, <1>7 DEF kSubset
<1>10. PICK f : f = [D \in kSubset(k, S) |-> D \cup {x}]  OBVIOUS
<1>11. ASSUME NEW D \in kSubset(k, S) PROVE f[D] = D \cup {x} /\ f[D] \in B /\ x \notin D
  <2>1. f[D] = D \cup {x}
    BY <1>10
  <2>2. D \in SUBSET S /\ Cardinality(D) = k /\ x \notin D
    BY DEF kSubset
  <2>3. IsFiniteSet(D)
    BY <2>2, FS_Subset
  <2>4. Cardinality(D \cup {x}) = k + 1
    BY <2>2, <2>3, FS_AddElement
  <2>5. D \cup {x} \in SUBSET X /\ x \in D \cup {x}
    BY <1>1, <2>2
  <2>. QED BY <1>7, <2>1, <2>2, <2>4, <2>5 DEF kSubset
<1>12. f \in [kSubset(k, S) -> B]
  BY <1>10, <1>11
<1>13. ASSUME NEW D \in kSubset(k, S), NEW E \in kSubset(k, S), f[D] = f[E] PROVE D = E
  <2>1. D \cup {x} = E \cup {x} /\ x \notin D /\ x \notin E
    BY <1>11, <1>13
  <2>. QED BY <2>1
<1>14. ASSUME NEW D \in B PROVE \E E \in kSubset(k, S) : f[E] = D
  <2>1. D \in SUBSET X /\ Cardinality(D) = k + 1 /\ x \in D
    BY <1>7 DEF kSubset
  <2>2. IsFiniteSet(D)
    BY <1>2, <2>1, FS_Subset
  <2>3. Cardinality(D \ {x}) = (k + 1) - 1
    <3>1. Cardinality(D \ {x}) = Cardinality(D) - 1
      BY <2>1, <2>2, FS_RemoveElement
    <3>. QED BY <2>1, <3>1
  <2>4. PICK E : E = D \ {x}  OBVIOUS
  <2>5. E \in SUBSET S /\ Cardinality(E) = k
    BY <1>1, <2>1, <2>3, <2>4
  <2>6. E \in kSubset(k, S) /\ E \cup {x} = D
    BY <2>1, <2>4, <2>5 DEF kSubset
  <2>. QED BY <1>11, <2>6
<1>15. f \in Bijection(kSubset(k, S), B)
  BY <1>12, <1>13, <1>14 DEF Bijection, Injection, Surjection, IsInjective
<1>16. ExistsBijection(kSubset(k, S), B)
  BY <1>15 DEF ExistsBijection
<1>17. IsFiniteSet(B) /\ Cardinality(B) = Cardinality(kSubset(k, S))
  BY <1>5, <1>16, FS_Bijection
<1>18. Cardinality(A \cup B) = Cardinality(A) + Cardinality(B)
  <2>1. Cardinality(A \cup B) = Cardinality(A) + Cardinality(B) - Cardinality(A \cap B)
    BY <1>5, <1>6, <1>17, FS_Union
  <2>2. Cardinality(A \cap B) = 0
    BY <1>9, FS_EmptySet
  <2>3. Cardinality(A) \in Nat /\ Cardinality(B) \in Nat
    BY <1>5, <1>6, <1>17, FS_CardinalityType
  <2>. QED BY <2>1, <2>2, <2>3
<1>. QED BY <1>1, <1>5, <1>6, <1>8, <1>17, <1>18

\* The k-subsets of S, counted k! times each.
CountsDraws(S) ==
    \A k \in Nat : Cardinality(kSubset(k, S)) \in Nat
                   /\ Cardinality(kSubset(k, S)) * Falling(k, k) = Falling(Cardinality(S), k)

\* Drawing k of the members of S in order is drawing them, k! times over.
LEMMA DrawsAreCounted == ASSUME NEW S, IsFiniteSet(S) PROVE CountsDraws(S)
<1>. DEFINE G == {U \in SUBSET S : CountsDraws(U)}
<1>1. ASSUME NEW U, IsFiniteSet(U)
      PROVE  Cardinality(kSubset(0, U)) = 1
  <2>1. kSubset(0, U) = {{}}
    <3>1. ASSUME NEW D PROVE D \in kSubset(0, U) <=> D = {}
      <4>1. ASSUME D \in kSubset(0, U) PROVE D = {}
        <5>1. D \in SUBSET U /\ Cardinality(D) = 0
          BY <4>1 DEF kSubset
        <5>2. IsFiniteSet(D)
          BY <1>1, <5>1, FS_Subset
        <5>. QED BY <5>1, <5>2, FS_EmptySet
      <4>2. {} \in kSubset(0, U)
        BY FS_EmptySet DEF kSubset
      <4>. QED BY <4>1, <4>2
    <3>. QED BY <3>1
  <2>. QED BY <2>1, FS_Singleton
<1>2. {} \in G
  <2>1. IsFiniteSet({}) /\ Cardinality({}) = 0
    BY FS_EmptySet
  <2>2. ASSUME NEW k \in Nat
        PROVE  /\ Cardinality(kSubset(k, {})) \in Nat
               /\ Cardinality(kSubset(k, {})) * Falling(k, k) = Falling(Cardinality({}), k)
    <3>1. CASE k = 0
      <4>1. Cardinality(kSubset(k, {})) = 1 /\ Falling(k, k) = 1 /\ Falling(Cardinality({}), k) = 1
        BY <1>1, <2>1, <3>1, FallingSteps
      <4>. QED BY <4>1
    <3>2. CASE k # 0
      <4>1. PICK j \in Nat : k = j + 1
        <5>1. k - 1 \in Nat /\ k = (k - 1) + 1
          BY <3>2
        <5>. QED BY <5>1
      <4>2. kSubset(k, {}) = {}
        BY <2>1, <3>2 DEF kSubset
      <4>3. Cardinality(kSubset(k, {})) = 0 /\ Falling(Cardinality({}), k) = 0 /\ Falling(k, k) \in Nat
        BY <2>1, <4>1, <4>2, FallingEnds
      <4>. QED BY <4>3
    <3>. QED BY <3>1, <3>2
  <2>. QED BY <2>2 DEF CountsDraws
<1>3. ASSUME NEW U \in SUBSET S, U # {}, \A x \in U : U \ {x} \in G PROVE U \in G
  <2>1. PICK x \in U : TRUE
    BY <1>3
  <2>2. PICK V : V = U \ {x}  OBVIOUS
  <2>3. IsFiniteSet(U) /\ IsFiniteSet(V) /\ V \cup {x} = U /\ x \notin V
    <3>1. IsFiniteSet(U)
      BY FS_Subset
    <3>. QED BY <2>2, <3>1, FS_Subset
  <2>4. CountsDraws(V)
    BY <1>3, <2>2
  <2>5. PICK m \in Nat : m = Cardinality(V)
    BY <2>3, FS_CardinalityType
  <2>6. Cardinality(U) = m + 1
    BY <2>3, <2>5, FS_AddElement
  <2>7. ASSUME NEW k \in Nat
        PROVE  /\ Cardinality(kSubset(k, U)) \in Nat
               /\ Cardinality(kSubset(k, U)) * Falling(k, k) = Falling(m + 1, k)
    <3>1. CASE k = 0
      <4>1. m + 1 \in Int  OBVIOUS
      <4>2. Cardinality(kSubset(k, U)) = 1 /\ Falling(k, k) = 1 /\ Falling(m + 1, k) = 1
        BY <1>1, <2>3, <3>1, <4>1, FallingSteps
      <4>. QED BY <4>2
    <3>2. CASE k # 0
      <4>1. PICK j \in Nat : k = j + 1
        <5>1. k - 1 \in Nat /\ k = (k - 1) + 1
          BY <3>2
        <5>. QED BY <5>1
      <4>2. Cardinality(kSubset(k, U)) = Cardinality(kSubset(k, V)) + Cardinality(kSubset(j, V))
        BY <2>3, <4>1, OneMoreToDraw
      <4>3. PICK a \in Nat : a = Cardinality(kSubset(k, V)) /\ a * Falling(k, k) = Falling(m, k)
        BY <2>4, <2>5 DEF CountsDraws
      <4>4. PICK b \in Nat : b = Cardinality(kSubset(j, V)) /\ b * Falling(j, j) = Falling(m, j)
        BY <2>4, <2>5 DEF CountsDraws
      <4>5. PICK p \in Int : p = Falling(j, j)
        BY FallingSteps
      <4>6. Falling(k, k) = (j + 1) * p
        BY <4>1, <4>5, FallingStarts
      <4>7. PICK q \in Int : q = Falling(m, j)
        BY FallingSteps
      <4>8. Falling(m, k) = q * (m - j) /\ Falling(m + 1, k) = (m + 1) * q
        BY <4>1, <4>7, FallingSteps, FallingStarts
      <4>9. a * ((j + 1) * p) = q * (m - j) /\ b * p = q
        BY <4>3, <4>4, <4>5, <4>6, <4>7, <4>8
      <4>10. b * ((j + 1) * p) = (j + 1) * q
        <5>1. b * ((j + 1) * p) = (j + 1) * (b * p)  OBVIOUS
        <5>. QED BY <4>9, <5>1
      <4>11. (a + b) * ((j + 1) * p) = a * ((j + 1) * p) + b * ((j + 1) * p)  OBVIOUS
      <4>12. q * (m - j) + (j + 1) * q = (m + 1) * q  OBVIOUS
      <4>13. (a + b) * ((j + 1) * p) = (m + 1) * q
        BY <4>9, <4>10, <4>11, <4>12
      <4>. QED BY <4>2, <4>3, <4>4, <4>6, <4>8, <4>13
    <3>. QED BY <3>1, <3>2
  <2>8. CountsDraws(U)
    BY <2>6, <2>7 DEF CountsDraws
  <2>. QED BY <2>8
<1>4. SUBSET S \subseteq G
  <2>. HIDE DEF G
  <2>. QED BY <1>2, <1>3, PartSteps
<1>. QED BY <1>4

\* pass@k is the share of the draws that win, for any number of samples, correct ones and draws.
THEOREM PassAtKAlwaysCounts ==
    ASSUME NEW n \in Nat, NEW c \in 0 .. n, NEW k \in Nat
    PROVE  PassAtKCounts(n, c, k)
<1>1. PICK draws : draws = kSubset(k, 1 .. n)  OBVIOUS
<1>2. PICK wins : wins = {D \in draws : \E i \in D : i <= c}  OBVIOUS
<1>3. PICK lost : lost = kSubset(k, c + 1 .. n)  OBVIOUS
<1>4. /\ IsFiniteSet(1 .. n) /\ Cardinality(1 .. n) = n
      /\ IsFiniteSet(c + 1 .. n) /\ Cardinality(c + 1 .. n) = n - c
  <2>1. c \in Int /\ c + 1 \in Int /\ c <= n /\ c >= 0  OBVIOUS
  <2>2. /\ IsFiniteSet(1 .. n) /\ Cardinality(1 .. n) = IF 1 > n THEN 0 ELSE n - 1 + 1
        /\ IsFiniteSet(c + 1 .. n) /\ Cardinality(c + 1 .. n) = IF c + 1 > n THEN 0 ELSE n - (c + 1) + 1
    BY <2>1, FS_Interval
  <2>. QED BY <2>1, <2>2
<1>5. n - c \in Nat  OBVIOUS
<1>6. PICK b \in Nat : b = Cardinality(draws) /\ b * Falling(k, k) = Falling(n, k)
  <2>1. CountsDraws(1 .. n)
    BY <1>4, DrawsAreCounted
  <2>. QED BY <1>1, <1>4, <2>1 DEF CountsDraws
<1>7. PICK l \in Nat : l = Cardinality(lost) /\ l * Falling(k, k) = Falling(n - c, k)
  <2>1. CountsDraws(c + 1 .. n)
    BY <1>4, DrawsAreCounted
  <2>. QED BY <1>3, <1>4, <2>1 DEF CountsDraws
<1>8. lost \subseteq draws /\ wins = draws \ lost
  <2>1. \A i : i \in c + 1 .. n <=> i \in 1 .. n /\ ~(i <= c)  OBVIOUS
  <2>2. ASSUME NEW D \in SUBSET (1 .. n) PROVE D \in SUBSET (c + 1 .. n) <=> ~\E i \in D : i <= c
    BY <2>1
  <2>3. SUBSET (c + 1 .. n) \subseteq SUBSET (1 .. n)
    BY <2>1
  <2>. QED BY <1>1, <1>2, <1>3, <2>2, <2>3 DEF kSubset
<1>9. Cardinality(wins) = b - l
  <2>1. IsFiniteSet(draws)
    <3>1. IsFiniteSet(SUBSET (1 .. n))
      BY <1>4, FS_SUBSET
    <3>2. draws \in SUBSET (SUBSET (1 .. n))
      BY <1>1 DEF kSubset
    <3>. QED BY <3>1, <3>2, FS_Subset
  <2>2. Cardinality(draws \ lost) = Cardinality(draws) - Cardinality(draws \cap lost)
    BY <2>1, FS_Difference
  <2>3. draws \cap lost = lost
    BY <1>8
  <2>. QED BY <1>6, <1>7, <1>8, <2>2, <2>3
<1>10. PICK p : p = PassAtK(n, c, k)  OBVIOUS
<1>11. CASE n - c < k
  <2>1. p = <<1, 1>>
    BY <1>10, <1>11 DEF PassAtK
  <2>2. lost = {}
    <3>1. ASSUME NEW D \in SUBSET (c + 1 .. n) PROVE Cardinality(D) # k
      <4>1. Cardinality(D) <= n - c /\ IsFiniteSet(D)
        <5>1. PICK L : L = c + 1 .. n  OBVIOUS
        <5>2. IsFiniteSet(L) /\ D \in SUBSET L /\ Cardinality(L) = n - c
          BY <1>4, <5>1
        <5>3. Cardinality(D) <= Cardinality(L) /\ IsFiniteSet(D)
          BY <5>2, FS_Subset
        <5>. QED BY <5>2, <5>3
      <4>2. Cardinality(D) \in Nat
        BY <4>1, FS_CardinalityType
      <4>. QED BY <1>5, <1>11, <4>1, <4>2
    <3>. QED BY <1>3, <3>1 DEF kSubset
  <2>3. l = 0
    BY <1>7, <2>2, FS_EmptySet
  <2>4. p[1] * b = p[2] * (b - l)
    BY <2>1, <2>3
  <2>. QED BY <1>1, <1>2, <1>6, <1>9, <1>10, <2>4 DEF PassAtKCounts
<1>12. CASE ~(n - c < k)
  <2>1. PICK x, y \in Int : x = Falling(n, k) /\ y = Falling(n - c, k)
    <3>1. n \in Int /\ n - c \in Int
      BY <1>5
    <3>2. Falling(n, k) \in Int
      BY <3>1, FallingSteps
    <3>3. Falling(n - c, k) \in Int
      BY <3>1, FallingSteps
    <3>. QED BY <3>2, <3>3
  <2>2. p = <<x - y, x>>
    BY <1>10, <1>12, <2>1 DEF PassAtK
  <2>3. PICK z \in Nat : z = Falling(k, k)
    BY FallingEnds
  <2>4. x = b * z /\ y = l * z
    BY <1>6, <1>7, <2>1, <2>3
  <2>5. (b * z - l * z) * b = (b * z) * (b - l)  OBVIOUS
  <2>6. (x - y) * b = x * (b - l)
    BY <2>4, <2>5
  <2>7. p[1] * b = p[2] * (b - l)
    BY <2>2, <2>6
  <2>. QED BY <1>1, <1>2, <1>6, <1>9, <1>10, <2>7 DEF PassAtKCounts
<1>. QED BY <1>11, <1>12
-----------------------------------------------------------------------------
(* The last box of a text.                                                   *)

\* What one more place adds to the depth.
Weight(text, i) == IF Opens(text[i]) THEN 1 ELSE IF text[i] = "close" THEN -1 ELSE 0

IsDepth(d, text, start, n) ==
    d = [i \in start .. n |-> (IF i = start THEN 0 ELSE d[i - 1]) + Weight(text, i)]

\* The recursion of the model, unfolded once.
LEMMA DepthIsChosen ==
    ASSUME NEW text, NEW start
    PROVE  Depth(text, start) = CHOOSE d : IsDepth(d, text, start, Len(text))
BY DEF Depth, IsDepth, Weight

\* The depth exists: it is a sequence of steps.
LEMMA DepthsExist ==
    ASSUME NEW n \in Nat, NEW text, NEW start \in 1 .. n
    PROVE  \E d : IsDepth(d, text, start, n)
<1>1. \A i : Weight(text, i) \in Int
  BY DEF Weight
<1>2. PICK m \in Nat : m = n + 1 - start  OBVIOUS
<1>3. PICK F : F = [x \in Int \X (1 .. m) |-> x[1] + Weight(text, start + x[2] - 1)]  OBVIOUS
<1>4. ASSUME NEW y \in Int, NEW i \in 1 .. m
      PROVE  F[<<y, i>>] = y + Weight(text, start + i - 1) /\ F[<<y, i>>] \in Int
  <2>1. F[<<y, i>>] = y + Weight(text, start + i - 1)
    BY <1>3
  <2>2. PICK w \in Int : w = Weight(text, start + i - 1)
    BY <1>1
  <2>. QED BY <2>1, <2>2
<1>5. F \in [Int \X (1 .. m) -> Int]
  BY <1>3, <1>4
<1>6. 0 \in Int  OBVIOUS
<1>7. PICK g : IsFold(g, F, 0, m, Int)
  BY <1>5, <1>6, FoldsExist
<1>8. PICK p : IsSteps(p, F, 0, m, Int, g[1 .. m])
  <2>1. IsFolded(g, F, 0, m, Int)
    BY <1>7 DEF IsFold, IsFolded
  <2>. QED BY <1>5, <1>6, <2>1, FoldsAreSteps
<1>9. p \in [0 .. m -> Int] /\ p[0] = 0 /\ \A k \in Nat : k + 1 <= m => p[k + 1] = F[<<p[k], k + 1>>]
  BY <1>8 DEF IsSteps
<1>10. ASSUME NEW k \in 1 .. m PROVE p[k] = p[k - 1] + Weight(text, start + k - 1)
  <2>1. PICK j \in Nat : j = k - 1 /\ j \in 0 .. m /\ j + 1 = k /\ j + 1 <= m  OBVIOUS
  <2>2. p[j] \in Int /\ p[k] = F[<<p[j], k>>]
    BY <1>9, <2>1
  <2>. QED BY <1>4, <2>1, <2>2
<1>11. PICK d : d = [i \in start .. n |-> p[i + 1 - start]]  OBVIOUS
<1>12. ASSUME NEW i \in start .. n
       PROVE  d[i] = (IF i = start THEN 0 ELSE d[i - 1]) + Weight(text, i)
  <2>1. PICK k \in 1 .. m : k = i + 1 - start
    BY <1>2
  <2>2. i \in Int /\ start + k - 1 = i
    BY <2>1
  <2>3. d[i] = p[k] /\ p[k] = p[k - 1] + Weight(text, i)
    BY <1>10, <1>11, <2>1, <2>2
  <2>4. CASE i = start
    <3>1. k - 1 = 0
      BY <2>1, <2>4
    <3>. QED BY <1>9, <2>3, <2>4, <3>1
  <2>5. CASE i # start
    <3>1. i - 1 \in start .. n /\ (i - 1) + 1 - start = k - 1
      BY <2>1, <2>5
    <3>2. d[i - 1] = p[k - 1]
      BY <1>11, <3>1
    <3>. QED BY <2>3, <2>5, <3>2
  <2>. QED BY <2>4, <2>5
<1>13. d = [i \in start .. n |-> d[i]]
  BY <1>11
<1>14. IsDepth(d, text, start, n)
  BY <1>12, <1>13 DEF IsDepth
<1>. QED BY <1>14

\* d is the depth of a text of n pieces from its box at start.
IsBox(d, text, start, n) ==
    DOMAIN text = 1 .. n /\ Len(text) = n /\ text[start] = "box" /\ d = Depth(text, start)

\* It is 1 at the box and goes on from place to place.
GoesOn(d, text, start, n) ==
    /\ d[start] = 1
    /\ \A i \in start .. n : d[i] \in Int
    /\ \A i \in start + 1 .. n : d[i] = d[i - 1] + Weight(text, i)

\* The depth, place by place.
LEMMA DepthSteps ==
    ASSUME NEW n \in Nat, NEW text, NEW start \in 1 .. n, NEW d, IsBox(d, text, start, n)
    PROVE  GoesOn(d, text, start, n)
<1>1. IsDepth(d, text, start, n)
  <2>1. d = CHOOSE e : IsDepth(e, text, start, n)
    BY DepthIsChosen DEF IsBox
  <2>2. \E e : IsDepth(e, text, start, n)
    BY DepthsExist
  <2>. QED BY <2>1, <2>2
<1>2. \A i \in start .. n : d[i] = (IF i = start THEN 0 ELSE d[i - 1]) + Weight(text, i)
  BY <1>1 DEF IsDepth
<1>3. d[start] = 1
  <2>1. start \in start .. n /\ Weight(text, start) = 1
    BY DEF Weight, Opens, IsBox
  <2>2. d[start] = 0 + Weight(text, start)
    BY <1>2, <2>1
  <2>. QED BY <2>1, <2>2
<1>4. ASSUME NEW i \in start + 1 .. n PROVE d[i] = d[i - 1] + Weight(text, i)
  <2>1. i \in start .. n /\ i # start  OBVIOUS
  <2>. QED BY <1>2, <2>1
<1>. DEFINE G == {k \in Nat : start + k <= n => d[start + k] \in Int}
<1>5. 0 \in G
  <2>1. start + 0 = start  OBVIOUS
  <2>. QED BY <1>3, <2>1
<1>6. ASSUME NEW k \in Nat, k \in G PROVE k + 1 \in G
  <2>1. ASSUME start + (k + 1) <= n PROVE d[start + (k + 1)] \in Int
    <3>1. start + k <= n /\ start + (k + 1) \in start + 1 .. n /\ (start + (k + 1)) - 1 = start + k
      BY <2>1
    <3>2. PICK y \in Int : y = d[start + k]
      BY <1>6, <3>1
    <3>3. PICK w \in Int : w = Weight(text, start + (k + 1))
      <4>1. Weight(text, start + (k + 1)) \in Int
        BY DEF Weight
      <4>. QED BY <4>1
    <3>4. d[start + (k + 1)] = y + w
      BY <1>4, <3>1, <3>2, <3>3
    <3>. QED BY <3>4
  <2>2. k + 1 \in Nat  OBVIOUS
  <2>. QED BY <2>1, <2>2
<1>7. Nat \subseteq G
  <2>. HIDE DEF G
  <2>. QED BY <1>5, <1>6, NaturalSteps
<1>8. ASSUME NEW i \in start .. n PROVE d[i] \in Int
  <2>1. i - start \in Nat /\ start + (i - start) = i /\ i <= n  OBVIOUS
  <2>2. i - start \in G
    BY <1>7, <2>1
  <2>. QED BY <2>1, <2>2
<1>. QED BY <1>3, <1>4, <1>8 DEF GoesOn

\* Whether one more place counts.
Counted(s, k, c) ==
    Count(s, k, c) \in Nat /\ Count(s, k + 1, c) = Count(s, k, c) + IF s[k + 1] \in c THEN 1 ELSE 0

\* One more place to count.
LEMMA CountSteps ==
    ASSUME NEW s, NEW c, NEW k \in Nat
    PROVE  Counted(s, k, c) /\ Count(s, 0, c) = 0
<1>1. PICK A : A = {j \in 1 .. k : s[j] \in c}  OBVIOUS
<1>2. IsFiniteSet(A)
  <2>1. IsFiniteSet(1 .. k)
    BY FS_Interval
  <2>2. A \in SUBSET (1 .. k)
    BY <1>1
  <2>. QED BY <2>1, <2>2, FS_Subset
<1>3. Cardinality(A) \in Nat
  BY <1>2, FS_CardinalityType
<1>4. k + 1 \notin A
  BY <1>1
<1>5. PICK B : B = {j \in 1 .. k + 1 : s[j] \in c}  OBVIOUS
<1>6. B = IF s[k + 1] \in c THEN A \cup {k + 1} ELSE A
  <2>1. \A j : j \in 1 .. k + 1 <=> j \in 1 .. k \/ j = k + 1  OBVIOUS
  <2>. QED BY <1>1, <1>5, <2>1
<1>7. Cardinality(B) = Cardinality(A) + IF s[k + 1] \in c THEN 1 ELSE 0
  <2>1. CASE s[k + 1] \in c
    <3>1. B = A \cup {k + 1}
      BY <1>6, <2>1
    <3>2. Cardinality(A \cup {k + 1}) = Cardinality(A) + 1
      BY <1>2, <1>4, FS_AddElement
    <3>. QED BY <2>1, <3>1, <3>2
  <2>2. CASE s[k + 1] \notin c
    BY <1>3, <1>6, <2>2
  <2>. QED BY <2>1, <2>2
<1>8. Count(s, 0, c) = 0
  <2>1. {j \in 1 .. 0 : s[j] \in c} = {}  OBVIOUS
  <2>. QED BY <2>1, FS_EmptySet DEF Count
<1>. QED BY <1>1, <1>3, <1>5, <1>7, <1>8 DEF Count, Counted

\* d is one more than what sub opens and does not close, over l places.
Measures(d, sub, start, l, op, cl) ==
    /\ DOMAIN sub = 1 .. l /\ Len(sub) = l
    /\ \A i \in 0 .. l : d[start + i] = 1 + Count(sub, i, op) - Count(sub, i, cl)

\* The depth is one more than what is opened and not closed since the box.
LEMMA DepthCounts ==
    ASSUME NEW n \in Nat, NEW text, NEW start \in 1 .. n, NEW d, IsBox(d, text, start, n), NEW z \in start .. n,
           NEW sub, sub = SubSeq(text, start + 1, z),
           NEW op, op = {"open", "box"}, NEW cl, cl = {"close"}
    PROVE  Measures(d, sub, start, z - start, op, cl)
<1>8. PICK X : X = {text[i] : i \in 1 .. n}  OBVIOUS
<1>1. /\ sub \in Seq(X) /\ Len(sub) = z - start
      /\ \A i \in 1 .. z - start : sub[i] = text[start + i]
  <2>1. \A i \in start + 1 .. z : i \in 1 .. n /\ text[i] \in X
    BY <1>8
  <2>2. start + 1 \in Int /\ z \in Int /\ z - (start + 1) + 1 = z - start  OBVIOUS
  <2>3. /\ sub \in Seq(X) /\ Len(sub) = IF start + 1 <= z THEN z - (start + 1) + 1 ELSE 0
        /\ \A i \in 1 .. z - (start + 1) + 1 : sub[i] = text[(start + 1) + i - 1]
    <3>1. PICK a \in Int : a = start + 1
      BY <2>2
    <3>2. \A i \in a .. z : text[i] \in X
      BY <2>1, <3>1
    <3>3. /\ SubSeq(text, a, z) \in Seq(X) /\ Len(SubSeq(text, a, z)) = IF a <= z THEN z - a + 1 ELSE 0
          /\ \A i \in 1 .. z - a + 1 : SubSeq(text, a, z)[i] = text[a + i - 1]
      BY <2>2, <3>2, SubSeqProperties
    <3>. QED BY <3>1, <3>3
  <2>4. \A i \in 1 .. z - start : (start + 1) + i - 1 = start + i  OBVIOUS
  <2>. QED BY <2>2, <2>3, <2>4
<1>2. DOMAIN sub = 1 .. z - start
  BY <1>1
<1>3. /\ d[start] = 1
      /\ \A i \in start .. n : d[i] \in Int
      /\ \A i \in start + 1 .. n : d[i] = d[i - 1] + Weight(text, i)
  <2>1. GoesOn(d, text, start, n)
    BY DepthSteps
  <2>. QED BY <2>1 DEF GoesOn
<1>. DEFINE G == {k \in Nat : k <= z - start =>
                    d[start + k] = 1 + Count(sub, k, op) - Count(sub, k, cl)}
<1>4. 0 \in G
  <2>1. Count(sub, 0, op) = 0 /\ Count(sub, 0, cl) = 0 /\ start + 0 = start
    BY CountSteps
  <2>. QED BY <1>3, <2>1
<1>5. ASSUME NEW k \in Nat, k \in G PROVE k + 1 \in G
  <2>1. ASSUME k + 1 <= z - start
        PROVE  d[start + (k + 1)] = 1 + Count(sub, k + 1, op) - Count(sub, k + 1, cl)
    <3>1. k <= z - start /\ start + (k + 1) \in start + 1 .. n /\ (start + (k + 1)) - 1 = start + k
          /\ k + 1 \in 1 .. z - start
      BY <2>1
    <3>2. PICK a \in Nat : a = Count(sub, k, op)
      BY CountSteps DEF Counted
    <3>3. PICK b \in Nat : b = Count(sub, k, cl)
      BY CountSteps DEF Counted
    <3>4. d[start + k] = 1 + a - b
      BY <1>5, <3>1, <3>2, <3>3
    <3>5. d[start + (k + 1)] = (1 + a - b) + Weight(text, start + (k + 1))
      BY <1>3, <3>1, <3>4
    <3>6. sub[k + 1] = text[start + (k + 1)]
      BY <1>1, <3>1
    <3>7. Count(sub, k + 1, op) = a + IF sub[k + 1] \in op THEN 1 ELSE 0
      <4>1. Counted(sub, k, op)
        BY CountSteps
      <4>. QED BY <3>2, <4>1 DEF Counted
    <3>8. Count(sub, k + 1, cl) = b + IF sub[k + 1] \in cl THEN 1 ELSE 0
      <4>1. Counted(sub, k, cl)
        BY CountSteps
      <4>. QED BY <3>3, <4>1 DEF Counted
    <3>9. CASE Opens(sub[k + 1])
      <4>1. Weight(text, start + (k + 1)) = 1
        BY <3>6, <3>9 DEF Weight
      <4>2. sub[k + 1] \in op /\ sub[k + 1] \notin cl
        BY <3>9 DEF Opens
      <4>3. Count(sub, k + 1, op) = a + 1 /\ Count(sub, k + 1, cl) = b + 0
        BY <3>7, <3>8, <4>2
      <4>. QED BY <3>2, <3>3, <3>5, <4>1, <4>3
    <3>10. CASE sub[k + 1] = "close"
      <4>1. Weight(text, start + (k + 1)) = -1
        BY <3>6, <3>10 DEF Weight, Opens
      <4>2. sub[k + 1] \notin op /\ sub[k + 1] \in cl
        BY <3>10
      <4>3. Count(sub, k + 1, op) = a + 0 /\ Count(sub, k + 1, cl) = b + 1
        BY <3>7, <3>8, <4>2
      <4>. QED BY <3>2, <3>3, <3>5, <4>1, <4>3
    <3>11. CASE ~Opens(sub[k + 1]) /\ sub[k + 1] # "close"
      <4>1. Weight(text, start + (k + 1)) = 0
        BY <3>6, <3>11 DEF Weight
      <4>2. sub[k + 1] \notin op /\ sub[k + 1] \notin cl
        BY <3>11 DEF Opens
      <4>3. Count(sub, k + 1, op) = a + 0 /\ Count(sub, k + 1, cl) = b + 0
        BY <3>7, <3>8, <4>2
      <4>. QED BY <3>2, <3>3, <3>5, <4>1, <4>3
    <3>. QED BY <3>9, <3>10, <3>11
  <2>2. k + 1 \in Nat  OBVIOUS
  <2>. QED BY <2>1, <2>2
<1>6. Nat \subseteq G
  <2>. HIDE DEF G
  <2>. QED BY <1>4, <1>5, NaturalSteps
<1>7. ASSUME NEW i \in 0 .. z - start
      PROVE  d[start + i] = 1 + Count(sub, i, op) - Count(sub, i, cl)
  <2>1. i \in Nat /\ i <= z - start  OBVIOUS
  <2>2. i \in G
    BY <1>6, <2>1
  <2>. QED BY <2>1, <2>2
<1>. QED BY <1>1, <1>2, <1>7 DEF Measures

BalancedBy(d, text, start, z) ==
    IsBalanced(SubSeq(text, start + 1, z)) <=> d[z] = 1 /\ \A i \in start .. z : d[i] >= 1

\* A text after the box is balanced exactly if the depth stays above 0 and ends at 1.
LEMMA BalancedIsDepth ==
    ASSUME NEW n \in Nat, NEW text, NEW start \in 1 .. n, NEW d, IsBox(d, text, start, n), NEW z \in start .. n
    PROVE  BalancedBy(d, text, start, z)
<1>1. PICK sub : sub = SubSeq(text, start + 1, z)  OBVIOUS
<1>2. PICK l \in Nat : l = z - start /\ z = start + l  OBVIOUS
<1>8. PICK op : op = {"open", "box"}  OBVIOUS
<1>9. PICK cl : cl = {"close"}  OBVIOUS
<1>3. /\ DOMAIN sub = 1 .. l /\ Len(sub) = l
      /\ \A i \in 0 .. l : d[start + i] = 1 + Count(sub, i, op) - Count(sub, i, cl)
  <2>1. Measures(d, sub, start, z - start, op, cl)
    BY <1>1, <1>8, <1>9, DepthCounts
  <2>. QED BY <1>2, <2>1 DEF Measures
<1>4. ASSUME NEW i \in 0 .. l
      PROVE  /\ d[start + i] >= 1 <=> Count(sub, i, cl) <= Count(sub, i, op)
             /\ d[start + i] = 1 <=> Count(sub, i, cl) = Count(sub, i, op)
  <2>1. i \in Nat  OBVIOUS
  <2>2. PICK a \in Nat : a = Count(sub, i, op)
    BY <2>1, CountSteps DEF Counted
  <2>3. PICK b \in Nat : b = Count(sub, i, cl)
    BY <2>1, CountSteps DEF Counted
  <2>4. d[start + i] = 1 + a - b
    BY <1>3, <2>2, <2>3
  <2>5. (1 + a - b >= 1 <=> b <= a) /\ (1 + a - b = 1 <=> b = a)  OBVIOUS
  <2>. QED BY <2>2, <2>3, <2>4, <2>5
<1>5. d[start] = 1
  BY DepthSteps DEF GoesOn
<1>6. ASSUME IsBalanced(sub) PROVE d[z] = 1 /\ \A i \in start .. z : d[i] >= 1
  <2>1. d[z] = 1
    <3>1. l \in 0 .. l /\ Count(sub, l, cl) = Count(sub, l, op)
      BY <1>3, <1>6, <1>8, <1>9 DEF IsBalanced
    <3>. QED BY <1>2, <1>4, <3>1
  <2>2. ASSUME NEW i \in start .. z PROVE d[i] >= 1
    <3>1. CASE i = start
      BY <1>5, <3>1
    <3>2. CASE i # start
      <4>1. i - start \in 1 .. l /\ i - start \in 0 .. l /\ start + (i - start) = i
        BY <1>2, <3>2
      <4>2. Count(sub, i - start, cl) <= Count(sub, i - start, op)
        BY <1>3, <1>6, <1>8, <1>9, <4>1 DEF IsBalanced
      <4>3. d[start + (i - start)] >= 1
        BY <1>4, <4>1, <4>2
      <4>. QED BY <4>1, <4>3
    <3>. QED BY <3>1, <3>2
  <2>. QED BY <2>1, <2>2
<1>7. ASSUME d[z] = 1, \A i \in start .. z : d[i] >= 1 PROVE IsBalanced(sub)
  <2>1. Count(sub, l, cl) = Count(sub, l, op)
    <3>1. l \in 0 .. l  OBVIOUS
    <3>. QED BY <1>2, <1>4, <1>7, <3>1
  <2>2. ASSUME NEW i \in 1 .. l PROVE Count(sub, i, cl) <= Count(sub, i, op)
    <3>1. i \in 0 .. l /\ start + i \in start .. z
      BY <1>2
    <3>2. d[start + i] >= 1
      BY <1>7, <3>1
    <3>. QED BY <1>4, <3>1, <3>2
  <2>. QED BY <1>3, <1>8, <1>9, <2>1, <2>2 DEF IsBalanced
<1>. QED BY <1>1, <1>6, <1>7 DEF BalancedBy

\* z is the first place behind the box at which the depth is back at 0.
IsFirstZero(d, start, z) == d[z] = 0 /\ \A i \in start .. z - 1 : d[i] # 0
\* A closing brace at z ends the box with a balanced content.
EndsBox(text, start, z) == text[z] = "close" /\ IsBalanced(SubSeq(text, start + 1, z - 1))

\* The depth cannot pass 0 unseen: before its first 0 it is 1 or more.
LEMMA StaysAbove ==
    ASSUME NEW n \in Nat, NEW text, NEW start \in 1 .. n, NEW d, IsBox(d, text, start, n), NEW z \in start .. n,
           \A i \in start .. z : d[i] # 0
    PROVE  \A i \in start .. z : d[i] >= 1
<1>1. /\ d[start] = 1
      /\ \A i \in start .. n : d[i] \in Int
      /\ \A i \in start + 1 .. n : d[i] = d[i - 1] + Weight(text, i)
  <2>1. GoesOn(d, text, start, n)
    BY DepthSteps
  <2>. QED BY <2>1 DEF GoesOn
<1>. DEFINE G == {k \in Nat : start + k <= z => d[start + k] >= 1}
<1>2. 0 \in G
  <2>1. start + 0 = start  OBVIOUS
  <2>. QED BY <1>1, <2>1
<1>3. ASSUME NEW k \in Nat, k \in G PROVE k + 1 \in G
  <2>1. ASSUME start + (k + 1) <= z PROVE d[start + (k + 1)] >= 1
    <3>1. /\ start + k <= z /\ start + (k + 1) \in start + 1 .. n /\ (start + (k + 1)) - 1 = start + k
          /\ start + (k + 1) \in start .. z /\ start + k \in start .. n
      BY <2>1
    <3>2. PICK y \in Int : y = d[start + k] /\ y >= 1
      BY <1>1, <1>3, <3>1
    <3>3. PICK w : w = Weight(text, start + (k + 1))  OBVIOUS
    <3>4. w \in {-1, 0, 1}
      BY <3>3 DEF Weight
    <3>5. d[start + (k + 1)] = y + w /\ d[start + (k + 1)] # 0
      BY <1>1, <3>1, <3>2, <3>3
    <3>. QED BY <3>2, <3>4, <3>5
  <2>2. k + 1 \in Nat  OBVIOUS
  <2>. QED BY <2>1, <2>2
<1>4. Nat \subseteq G
  <2>. HIDE DEF G
  <2>. QED BY <1>2, <1>3, NaturalSteps
<1>5. ASSUME NEW i \in start .. z PROVE d[i] >= 1
  <2>1. i - start \in Nat /\ start + (i - start) = i /\ i <= z  OBVIOUS
  <2>2. i - start \in G
    BY <1>4, <2>1
  <2>. QED BY <2>1, <2>2
<1>. QED BY <1>5

\* The depth is first back at 0 exactly where a brace ends the box with a balanced content.
LEMMA FirstZeroEnds ==
    ASSUME NEW n \in Nat, NEW text, NEW start \in 1 .. n, NEW d, IsBox(d, text, start, n), NEW z \in start + 1 .. n
    PROVE  EndsBox(text, start, z) <=> IsFirstZero(d, start, z)
<1>1. /\ d[start] = 1
      /\ \A i \in start .. n : d[i] \in Int
      /\ \A i \in start + 1 .. n : d[i] = d[i - 1] + Weight(text, i)
  <2>1. GoesOn(d, text, start, n)
    BY DepthSteps
  <2>. QED BY <2>1 DEF GoesOn
<1>2. PICK y \in Nat : y = z - 1 /\ y \in start .. n /\ y \in start .. y  OBVIOUS
<1>3. IsBalanced(SubSeq(text, start + 1, y)) <=> d[y] = 1 /\ \A i \in start .. y : d[i] >= 1
  <2>1. BalancedBy(d, text, start, y)
    BY <1>2, BalancedIsDepth
  <2>. QED BY <2>1 DEF BalancedBy
<1>4. d[z] = d[y] + Weight(text, z) /\ d[y] \in Int
  BY <1>1, <1>2
<1>5. ASSUME EndsBox(text, start, z) PROVE IsFirstZero(d, start, z)
  <2>1. text[z] = "close" /\ d[y] = 1 /\ \A i \in start .. y : d[i] >= 1
    BY <1>2, <1>3, <1>5 DEF EndsBox
  <2>2. Weight(text, z) = -1
    BY <2>1 DEF Weight, Opens
  <2>3. d[z] = 0
    BY <1>4, <2>1, <2>2
  <2>4. ASSUME NEW i \in start .. y PROVE d[i] # 0
    BY <2>1
  <2>. QED BY <1>2, <2>3, <2>4 DEF IsFirstZero
<1>6. ASSUME IsFirstZero(d, start, z) PROVE EndsBox(text, start, z)
  <2>1. d[z] = 0 /\ \A i \in start .. y : d[i] # 0
    BY <1>2, <1>6 DEF IsFirstZero
  <2>2. \A i \in start .. y : d[i] >= 1
    BY <1>2, <2>1, StaysAbove
  <2>3. d[y] >= 1
    BY <1>2, <2>2
  <2>4. PICK w : w = Weight(text, z)  OBVIOUS
  <2>5. w \in {-1, 0, 1} /\ (w = -1 => text[z] = "close")
    BY <2>4 DEF Weight
  <2>6. w = -1 /\ d[y] = 1
    BY <1>4, <2>1, <2>3, <2>4, <2>5
  <2>. QED BY <1>2, <1>3, <2>2, <2>5, <2>6 DEF EndsBox
<1>. QED BY <1>5, <1>6

\* The least element of a set of naturals is the one that Min names.
LEMMA MinIs ==
    ASSUME NEW T, T \subseteq Nat, T # {}
    PROVE  /\ Min(T) \in T /\ \A x \in T : Min(T) <= x
           /\ \A z \in T : (\A x \in T : z <= x) => z = Min(T)
<1>1. \E x \in T : \A y \in T : x <= y
  BY LeastNumber
<1>2. Min(T) \in T /\ \A x \in T : Min(T) <= x
  BY <1>1 DEF Min
<1>3. ASSUME NEW z \in T, \A x \in T : z <= x PROVE z = Min(T)
  <2>1. z <= Min(T) /\ Min(T) <= z
    BY <1>2, <1>3
  <2>2. z \in Nat /\ Min(T) \in Nat
    BY <1>2
  <2>. QED BY <2>1, <2>2
<1>. QED BY <1>2, <1>3

\* The box closes at its first 0, where it has one.
LEMMA ClosesFirst ==
    ASSUME NEW n \in Nat, NEW text, NEW start \in 1 .. n, NEW d, IsBox(d, text, start, n)
    PROVE  /\ \A z \in start + 1 .. n : IsFirstZero(d, start, z) => Closes(text, start) # {} /\ Min(Closes(text, start)) = z
           /\ Closes(text, start) # {} =>
                \E z \in start + 1 .. n : z = Min(Closes(text, start)) /\ IsFirstZero(d, start, z)
<1>1. PICK C : C = Closes(text, start)  OBVIOUS
<1>2. C = {i \in start .. n : d[i] = 0}
  BY <1>1 DEF Closes, IsBox
<1>3. d[start] = 1
  BY DepthSteps DEF GoesOn
<1>4. C \subseteq Nat
  BY <1>2
<1>5. ASSUME NEW z \in start + 1 .. n, IsFirstZero(d, start, z) PROVE C # {} /\ Min(C) = z
  <2>1. z \in C
    BY <1>2, <1>5 DEF IsFirstZero
  <2>2. ASSUME NEW x \in C, x < z PROVE FALSE
    <3>1. x \in start .. z - 1 /\ d[x] = 0
      BY <1>2, <2>2
    <3>. QED BY <1>5, <3>1 DEF IsFirstZero
  <2>3. \A x \in C : z <= x
    BY <1>2, <2>2
  <2>. QED BY <1>4, <2>1, <2>3, MinIs
<1>6. ASSUME C # {} PROVE \E z \in start + 1 .. n : z = Min(C) /\ IsFirstZero(d, start, z)
  <2>1. PICK z : z = Min(C)  OBVIOUS
  <2>2. z \in C /\ \A x \in C : z <= x
    BY <1>4, <1>6, <2>1, MinIs
  <2>3. z \in start .. n /\ d[z] = 0
    BY <1>2, <2>2
  <2>4. z \in start + 1 .. n
    BY <1>3, <2>3
  <2>5. ASSUME NEW i \in start .. z - 1 PROVE d[i] # 0
    <3>1. i \in start .. n /\ ~(z <= i)
      BY <2>3
    <3>2. i \notin C
      BY <2>2, <3>1
    <3>. QED BY <1>2, <3>1, <3>2
  <2>. QED BY <2>1, <2>3, <2>4, <2>5 DEF IsFirstZero
<1>. QED BY <1>1, <1>5, <1>6

IsText(text, n) == DOMAIN text = 1 .. n /\ Len(text) = n

\* What a brace that ends the last box says of the content.
LEMMA BoxIsFound ==
    ASSUME NEW n \in Nat, NEW text, IsText(text, n), Starts(text) # {}
    PROVE  LET start == Max(Starts(text)) IN
           /\ start \in Starts(text) /\ start \in 1 .. n /\ \A x \in Starts(text) : x <= start
           /\ \A z \in start + 1 .. n : EndsBox(text, start, z) =>
                LastBoxedContent(text) = SubSeq(text, start + 1, z - 1)
           /\ (\A z \in start + 1 .. n : ~EndsBox(text, start, z)) => LastBoxedContent(text) = None
<1>1. PICK T : T = Starts(text)  OBVIOUS
<1>2. PICK start : start = Max(T)  OBVIOUS
<1>3. T \in SUBSET (1 .. n) /\ T # {}
  BY <1>1 DEF Starts, IsText
<1>4. start \in T /\ start \in 1 .. n /\ \A x \in T : x <= start
  BY <1>2, <1>3, MaxOfPart
<1>5. PICK d : d = Depth(text, start)  OBVIOUS
<1>6. IsBox(d, text, start, n)
  BY <1>1, <1>4, <1>5 DEF IsBox, IsText, Starts
<1>7. PICK C : C = Closes(text, start)  OBVIOUS
<1>8. LastBoxedContent(text) = IF C = {} THEN None ELSE SubSeq(text, start + 1, Min(C) - 1)
  BY <1>1, <1>2, <1>3, <1>7 DEF LastBoxedContent
<1>9. /\ \A z \in start + 1 .. n : IsFirstZero(d, start, z) => C # {} /\ Min(C) = z
      /\ C # {} => \E z \in start + 1 .. n : z = Min(C) /\ IsFirstZero(d, start, z)
  BY <1>4, <1>6, <1>7, ClosesFirst
<1>10. \A z \in start + 1 .. n : EndsBox(text, start, z) <=> IsFirstZero(d, start, z)
  BY <1>4, <1>6, FirstZeroEnds
<1>11. ASSUME NEW z \in start + 1 .. n, EndsBox(text, start, z)
       PROVE  LastBoxedContent(text) = SubSeq(text, start + 1, z - 1)
  <2>1. C # {} /\ Min(C) = z
    BY <1>9, <1>10, <1>11
  <2>. QED BY <1>8, <2>1
<1>12. ASSUME \A z \in start + 1 .. n : ~EndsBox(text, start, z) PROVE LastBoxedContent(text) = None
  <2>1. C = {}
    BY <1>9, <1>10, <1>12
  <2>. QED BY <1>8, <2>1
<1>. QED BY <1>1, <1>2, <1>4, <1>11, <1>12

\* The content of the last box is the balanced text up to a brace behind it, and None only where
\* there is no such text, for a text of any length: what last_boxed_content is there for.
THEOREM ContentIsAlwaysBalanced ==
    ASSUME NEW n \in Nat, NEW text, IsText(text, n)
    PROVE  ContentIsBalanced(text)
<1>1. PICK boxed : boxed = {p \in Starts(text) \X (DOMAIN text) :
                              /\ p[1] < p[2] /\ text[p[2]] = "close"
                              /\ \A k \in Starts(text) : k <= p[1]
                              /\ IsBalanced(SubSeq(text, p[1] + 1, p[2] - 1))}
  OBVIOUS
<1>2. PICK start : start = Max(Starts(text))  OBVIOUS
<1>3. CASE Starts(text) = {}
  <2>1. boxed = {} /\ LastBoxedContent(text) = None
    BY <1>1, <1>3 DEF LastBoxedContent
  <2>. QED BY <1>1, <2>1 DEF ContentIsBalanced
<1>4. CASE Starts(text) # {}
  <2>1. /\ start \in Starts(text) /\ start \in 1 .. n /\ \A x \in Starts(text) : x <= start
        /\ \A z \in start + 1 .. n : EndsBox(text, start, z) =>
              LastBoxedContent(text) = SubSeq(text, start + 1, z - 1)
        /\ (\A z \in start + 1 .. n : ~EndsBox(text, start, z)) => LastBoxedContent(text) = None
    BY <1>2, <1>4, BoxIsFound
  <2>2. ASSUME NEW p \in boxed
        PROVE  p[1] = start /\ p[2] \in start + 1 .. n /\ EndsBox(text, start, p[2])
    <3>1. /\ p[1] \in Starts(text) /\ p[2] \in 1 .. n
          /\ p[1] < p[2] /\ text[p[2]] = "close"
          /\ \A k \in Starts(text) : k <= p[1]
          /\ IsBalanced(SubSeq(text, p[1] + 1, p[2] - 1))
      BY <1>1, <2>2 DEF IsText
    <3>2. p[1] \in 1 .. n
      BY <3>1 DEF Starts, IsText
    <3>3. p[1] <= start /\ start <= p[1]
      BY <2>1, <3>1
    <3>4. p[1] = start
      BY <2>1, <3>2, <3>3
    <3>5. p[2] \in start + 1 .. n
      BY <2>1, <3>1, <3>4
    <3>. QED BY <3>1, <3>4, <3>5 DEF EndsBox
  <2>3. ASSUME boxed = {}, NEW z \in start + 1 .. n, EndsBox(text, start, z) PROVE FALSE
    <3>1. PICK p : p = <<start, z>>  OBVIOUS
    <3>2. p[1] = start /\ p[2] = z /\ p \in Starts(text) \X (DOMAIN text) /\ start < z
      <4>1. z \in 1 .. n /\ start < z
        BY <2>1
      <4>. QED BY <2>1, <3>1, <4>1 DEF IsText
    <3>3. p \in boxed
      BY <1>1, <2>1, <2>3, <3>2 DEF EndsBox
    <3>. QED BY <2>3, <3>3
  <2>4. ASSUME NEW p \in boxed PROVE LastBoxedContent(text) = SubSeq(text, p[1] + 1, p[2] - 1)
    BY <2>1, <2>2
  <2>5. boxed = {} => LastBoxedContent(text) = None
    BY <2>1, <2>3
  <2>. QED BY <1>1, <2>4, <2>5 DEF ContentIsBalanced
<1>. QED BY <1>3, <1>4
-----------------------------------------------------------------------------
(* The votes of the samples.                                                 *)

\* The clusters hold samples of n, each of them between one and k.
Shaped(cs, k, n) == cs \in Seq(Seq(1 .. n)) /\ \A m \in 1 .. Len(cs) : Len(cs[m]) \in 1 .. k
\* The first sample of a cluster is the earliest, and each agrees with it.
Led(cs, A, k) ==
    \A m \in 1 .. Len(cs) : \A j \in 1 .. Len(cs[m]) :
        cs[m][1] <= cs[m][j] /\ cs[m][j] <= k /\ <<cs[m][1], cs[m][j]>> \in A
\* Each of the first k samples is in a cluster, and in no two places.
Placed(cs, k) == \A i \in 1 .. k : \E m \in 1 .. Len(cs) : \E j \in 1 .. Len(cs[m]) : cs[m][j] = i
Apart(cs) ==
    \A m, h \in 1 .. Len(cs) : \A i \in 1 .. Len(cs[m]) : \A j \in 1 .. Len(cs[h]) :
        cs[m][i] = cs[h][j] => m = h /\ i = j
\* A later cluster begins later, with a sample that did not agree with the earlier one's first.
InTurn(cs, A) ==
    \A m, h \in 1 .. Len(cs) : m < h => cs[m][1] < cs[h][1] /\ <<cs[m][1], cs[h][1]>> \notin A

IsClustering(cs, A, k, n) ==
    Shaped(cs, k, n) /\ Led(cs, A, k) /\ Placed(cs, k) /\ Apart(cs) /\ InTurn(cs, A)

Joins(cs, x, A) == {m \in 1 .. Len(cs) : <<cs[m][1], x>> \in A}
Joined(cs, x, A) ==
    IF Joins(cs, x, A) = {} THEN Append(cs, <<x>>)
    ELSE [cs EXCEPT ![Min(Joins(cs, x, A))] = Append(@, x)]

\* A sample that agrees with no first one begins a cluster.
LEMMA BeginsACluster ==
    ASSUME NEW n \in Nat, NEW A, NEW k \in Nat, k + 1 <= n, NEW cs, IsClustering(cs, A, k, n),
           <<k + 1, k + 1>> \in A, Joins(cs, k + 1, A) = {}
    PROVE  IsClustering(Append(cs, <<k + 1>>), A, k + 1, n)
<1>1. PICK x \in 1 .. n : x = k + 1  OBVIOUS
<1>2. PICK d : d = Append(cs, <<x>>)  OBVIOUS
<1>3. cs \in Seq(Seq(1 .. n)) /\ \A m \in 1 .. Len(cs) : Len(cs[m]) \in 1 .. k
  BY DEF IsClustering, Shaped
<1>4. PICK L \in Nat : L = Len(cs)
  BY <1>3
<1>5. <<x>> \in Seq(1 .. n) /\ Len(<<x>>) = 1
  BY <1>1
<1>6. /\ d \in Seq(Seq(1 .. n)) /\ Len(d) = L + 1
      /\ \A m \in 1 .. L : d[m] = cs[m]
      /\ d[L + 1] = <<x>>
  BY <1>2, <1>3, <1>4, <1>5, AppendProperties
<1>7. Len(d[L + 1]) = 1 /\ d[L + 1][1] = x /\ \A j \in 1 .. Len(d[L + 1]) : j = 1
  <2>1. Len(d[L + 1]) = 1 /\ d[L + 1][1] = x
    BY <1>5, <1>6
  <2>2. \A j \in 1 .. 1 : j = 1  OBVIOUS
  <2>. QED BY <2>1, <2>2
<1>8. \A m : m \in 1 .. L + 1 <=> m \in 1 .. L \/ m = L + 1  OBVIOUS
<1>9. \A m \in 1 .. L : ~(L + 1 <= m) /\ m # L + 1  OBVIOUS
<1>10. \A m \in 1 .. L : Len(cs[m]) \in 1 .. k /\ 1 \in 1 .. Len(cs[m])
  <2>1. ASSUME NEW m \in 1 .. L PROVE Len(cs[m]) \in 1 .. k /\ 1 \in 1 .. Len(cs[m])
    <3>1. Len(cs[m]) \in 1 .. k
      BY <1>3, <1>4
    <3>. QED BY <3>1
  <2>. QED BY <2>1
<1>11. \A m \in 1 .. L : \A j \in 1 .. Len(cs[m]) :
          /\ cs[m][j] \in 1 .. k /\ cs[m][1] <= cs[m][j] /\ <<cs[m][1], cs[m][j]>> \in A
  <2>1. ASSUME NEW m \in 1 .. L, NEW j \in 1 .. Len(cs[m])
        PROVE  cs[m][j] \in 1 .. k /\ cs[m][1] <= cs[m][j] /\ <<cs[m][1], cs[m][j]>> \in A
    <3>1. cs[m] \in Seq(1 .. n)
      BY <1>3, <1>4
    <3>2. cs[m][j] \in 1 .. n
      BY <3>1
    <3>3. cs[m][1] <= cs[m][j] /\ cs[m][j] <= k /\ <<cs[m][1], cs[m][j]>> \in A
      BY <1>4 DEF IsClustering, Led
    <3>. QED BY <3>2, <3>3
  <2>. QED BY <2>1
<1>12. Shaped(d, k + 1, n)
  <2>1. ASSUME NEW m \in 1 .. L + 1 PROVE Len(d[m]) \in 1 .. k + 1
    <3>1. CASE m \in 1 .. L
      <4>1. Len(d[m]) \in 1 .. k
        BY <1>6, <1>10, <3>1
      <4>. QED BY <4>1
    <3>2. CASE m = L + 1
      <4>1. Len(d[m]) = 1 /\ 1 \in 1 .. k + 1
        BY <1>7, <3>2
      <4>. QED BY <4>1
    <3>. QED BY <1>8, <3>1, <3>2
  <2>. QED BY <1>6, <2>1 DEF Shaped
<1>13. Led(d, A, k + 1)
  <2>1. ASSUME NEW m \in 1 .. L + 1, NEW j \in 1 .. Len(d[m])
        PROVE  d[m][1] <= d[m][j] /\ d[m][j] <= k + 1 /\ <<d[m][1], d[m][j]>> \in A
    <3>1. CASE m \in 1 .. L
      <4>1. d[m] = cs[m] /\ cs[m][j] \in 1 .. k /\ cs[m][1] <= cs[m][j] /\ <<cs[m][1], cs[m][j]>> \in A
        BY <1>6, <1>11, <3>1
      <4>2. cs[m][j] <= k + 1
        BY <4>1
      <4>. QED BY <4>1, <4>2
    <3>2. CASE m = L + 1
      <4>1. j = 1 /\ d[m][j] = x /\ d[m][1] = x
        BY <1>7, <3>2
      <4>. QED BY <1>1, <4>1
    <3>. QED BY <1>8, <3>1, <3>2
  <2>. QED BY <1>6, <2>1 DEF Led
<1>14. Placed(d, k + 1)
  <2>1. ASSUME NEW i \in 1 .. k + 1 PROVE \E m \in 1 .. L + 1 : \E j \in 1 .. Len(d[m]) : d[m][j] = i
    <3>1. CASE i \in 1 .. k
      <4>1. PICK m \in 1 .. L : \E j \in 1 .. Len(cs[m]) : cs[m][j] = i
        BY <1>4, <3>1 DEF IsClustering, Placed
      <4>. QED BY <1>6, <1>8, <4>1
    <3>2. CASE i = k + 1
      BY <1>1, <1>7, <1>8, <3>2
    <3>. QED BY <3>1, <3>2
  <2>. QED BY <1>6, <2>1 DEF Placed
<1>15. Apart(d)
  <2>1. ASSUME NEW m \in 1 .. L, NEW i \in 1 .. Len(d[m]) PROVE d[m][i] # x
    <3>1. d[m][i] \in 1 .. k
      BY <1>6, <1>11, <2>1
    <3>. QED BY <1>1, <3>1
  <2>2. ASSUME NEW m \in 1 .. L + 1, NEW h \in 1 .. L + 1, NEW i \in 1 .. Len(d[m]), NEW j \in 1 .. Len(d[h]),
               d[m][i] = d[h][j]
        PROVE  m = h /\ i = j
    <3>1. CASE m \in 1 .. L /\ h \in 1 .. L
      <4>1. d[m] = cs[m] /\ d[h] = cs[h]
        BY <1>6, <3>1
      <4>. QED BY <1>4, <2>2, <3>1, <4>1 DEF IsClustering, Apart
    <3>2. CASE m = L + 1 /\ h = L + 1
      <4>1. i = 1 /\ j = 1
        BY <1>7, <3>2
      <4>. QED BY <3>2, <4>1
    <3>3. CASE m \in 1 .. L /\ h = L + 1
      <4>1. d[h][j] = x
        BY <1>7, <3>3
      <4>. QED BY <2>1, <2>2, <3>3, <4>1
    <3>4. CASE m = L + 1 /\ h \in 1 .. L
      <4>1. d[m][i] = x
        BY <1>7, <3>4
      <4>. QED BY <2>1, <2>2, <3>4, <4>1
    <3>. QED BY <1>8, <3>1, <3>2, <3>3, <3>4
  <2>. QED BY <1>6, <2>2 DEF Apart
<1>16. InTurn(d, A)
  <2>1. ASSUME NEW m \in 1 .. L + 1, NEW h \in 1 .. L + 1, m < h
        PROVE  d[m][1] < d[h][1] /\ <<d[m][1], d[h][1]>> \notin A
    <3>1. m \in 1 .. L
      BY <2>1
    <3>2. d[m] = cs[m] /\ cs[m][1] \in 1 .. k
      BY <1>6, <1>10, <1>11, <3>1
    <3>3. CASE h \in 1 .. L
      <4>1. d[h] = cs[h]
        BY <1>6, <3>3
      <4>. QED BY <1>4, <2>1, <3>1, <3>2, <3>3, <4>1 DEF IsClustering, InTurn
    <3>4. CASE h = L + 1
      <4>1. d[h][1] = x
        BY <1>7, <3>4
      <4>2. <<cs[m][1], x>> \notin A
        BY <1>1, <1>4, <3>1 DEF Joins
      <4>. QED BY <1>1, <3>2, <4>1, <4>2
    <3>. QED BY <1>8, <3>3, <3>4
  <2>. QED BY <1>6, <2>1 DEF InTurn
<1>. QED BY <1>1, <1>2, <1>12, <1>13, <1>14, <1>15, <1>16 DEF IsClustering

\* A sample that agrees with the first one of some clusters joins the earliest of these.
LEMMA JoinsACluster ==
    ASSUME NEW n \in Nat, NEW A, NEW k \in Nat, k + 1 <= n, NEW cs, IsClustering(cs, A, k, n),
           NEW f \in 1 .. Len(cs), <<cs[f][1], k + 1>> \in A
    PROVE  IsClustering([cs EXCEPT ![f] = Append(@, k + 1)], A, k + 1, n)
<1>1. PICK x \in 1 .. n : x = k + 1  OBVIOUS
<1>2. cs \in Seq(Seq(1 .. n)) /\ \A m \in 1 .. Len(cs) : Len(cs[m]) \in 1 .. k
  BY DEF IsClustering, Shaped
<1>3. PICK L \in Nat : L = Len(cs)
  BY <1>2
<1>4. PICK c \in Seq(1 .. n) : c = cs[f]
  BY <1>2
<1>5. PICK l \in 1 .. k : l = Len(c)
  BY <1>2, <1>4
<1>6. PICK e : e = Append(c, x)  OBVIOUS
<1>7. /\ e \in Seq(1 .. n) /\ Len(e) = l + 1 /\ e[l + 1] = x
      /\ \A j \in 1 .. l : e[j] = c[j]
  BY <1>4, <1>5, <1>6, AppendProperties
<1>8. PICK d : d = [cs EXCEPT ![f] = e]  OBVIOUS
<1>9. /\ d \in Seq(Seq(1 .. n)) /\ Len(d) = L
      /\ \A m \in 1 .. L : d[m] = IF m = f THEN e ELSE cs[m]
  <2>1. PICK S : S = Seq(1 .. n)  OBVIOUS
  <2>2. cs \in Seq(S) /\ e \in S
    BY <1>2, <1>7, <2>1
  <2>3. d \in Seq(S) /\ Len(d) = Len(cs) /\ \A m \in 1 .. Len(cs) : d[m] = IF m = f THEN e ELSE cs[m]
    BY <1>8, <2>2, ExceptSeq
  <2>. QED BY <1>3, <2>1, <2>3
<1>10. \A j : j \in 1 .. l + 1 <=> j \in 1 .. l \/ j = l + 1
  BY <1>5
<1>11. \A m \in 1 .. L : \A j \in 1 .. Len(cs[m]) :
          /\ cs[m][j] \in 1 .. k /\ cs[m][1] <= cs[m][j] /\ <<cs[m][1], cs[m][j]>> \in A
  <2>1. ASSUME NEW m \in 1 .. L, NEW j \in 1 .. Len(cs[m])
        PROVE  cs[m][j] \in 1 .. k /\ cs[m][1] <= cs[m][j] /\ <<cs[m][1], cs[m][j]>> \in A
    <3>1. cs[m] \in Seq(1 .. n)
      BY <1>2, <1>3
    <3>2. cs[m][j] \in 1 .. n
      BY <3>1
    <3>3. cs[m][1] <= cs[m][j] /\ cs[m][j] <= k /\ <<cs[m][1], cs[m][j]>> \in A
      BY <1>3 DEF IsClustering, Led
    <3>. QED BY <3>2, <3>3
  <2>. QED BY <2>1
<1>12. \A m \in 1 .. L : 1 \in 1 .. Len(cs[m]) /\ d[m][1] = cs[m][1] /\ cs[m][1] \in 1 .. k
  <2>1. ASSUME NEW m \in 1 .. L PROVE 1 \in 1 .. Len(cs[m]) /\ d[m][1] = cs[m][1] /\ cs[m][1] \in 1 .. k
    <3>1. Len(cs[m]) \in 1 .. k
      BY <1>2, <1>3
    <3>2. 1 \in 1 .. Len(cs[m])
      BY <3>1
    <3>3. cs[m][1] \in 1 .. k
      BY <1>11, <3>2
    <3>4. 1 \in 1 .. l
      BY <1>5
    <3>5. CASE m = f
      <4>1. d[m] = e /\ cs[m] = c /\ e[1] = c[1]
        BY <1>4, <1>7, <1>9, <3>4, <3>5
      <4>. QED BY <3>2, <3>3, <4>1
    <3>6. CASE m # f
      <4>1. d[m] = cs[m]
        BY <1>9, <3>6
      <4>. QED BY <3>2, <3>3, <4>1
    <3>. QED BY <3>5, <3>6
  <2>. QED BY <2>1
<1>13. ASSUME NEW m \in 1 .. L, NEW j \in 1 .. Len(d[m])
       PROVE  \/ m = f /\ j = l + 1 /\ d[m][j] = x
              \/ j \in 1 .. Len(cs[m]) /\ d[m][j] = cs[m][j]
  <2>1. CASE m = f
    <3>1. d[m] = e /\ j \in 1 .. l + 1 /\ cs[m] = c /\ Len(cs[m]) = l
      BY <1>4, <1>5, <1>7, <1>9, <1>13, <2>1
    <3>. QED BY <1>7, <1>10, <2>1, <3>1
  <2>2. CASE m # f
    <3>1. d[m] = cs[m]
      BY <1>9, <2>2
    <3>. QED BY <1>13, <3>1
  <2>. QED BY <2>1, <2>2
<1>14. Shaped(d, k + 1, n)
  <2>1. ASSUME NEW m \in 1 .. L PROVE Len(d[m]) \in 1 .. k + 1
    <3>1. CASE m = f
      <4>1. Len(d[m]) = l + 1
        BY <1>7, <1>9, <3>1
      <4>2. l + 1 \in 1 .. k + 1
        BY <1>5
      <4>. QED BY <4>1, <4>2
    <3>2. CASE m # f
      <4>1. Len(d[m]) \in 1 .. k
        BY <1>2, <1>3, <1>9, <3>2
      <4>. QED BY <4>1
    <3>. QED BY <3>1, <3>2
  <2>. QED BY <1>9, <2>1 DEF Shaped
<1>15. Led(d, A, k + 1)
  <2>1. ASSUME NEW m \in 1 .. L, NEW j \in 1 .. Len(d[m])
        PROVE  d[m][1] <= d[m][j] /\ d[m][j] <= k + 1 /\ <<d[m][1], d[m][j]>> \in A
    <3>1. CASE m = f /\ d[m][j] = x
      <4>1. d[m][1] = cs[f][1] /\ cs[f][1] \in 1 .. k
        BY <1>12, <3>1
      <4>. QED BY <1>1, <3>1, <4>1
    <3>2. CASE j \in 1 .. Len(cs[m]) /\ d[m][j] = cs[m][j]
      <4>1. cs[m][j] \in 1 .. k /\ cs[m][1] <= cs[m][j] /\ <<cs[m][1], cs[m][j]>> \in A
        BY <1>11, <3>2
      <4>2. cs[m][j] <= k + 1
        BY <4>1
      <4>. QED BY <1>12, <3>2, <4>1, <4>2
    <3>. QED BY <1>13, <3>1, <3>2
  <2>. QED BY <1>9, <2>1 DEF Led
<1>16. Placed(d, k + 1)
  <2>1. ASSUME NEW i \in 1 .. k + 1 PROVE \E m \in 1 .. L : \E j \in 1 .. Len(d[m]) : d[m][j] = i
    <3>1. CASE i \in 1 .. k
      <4>1. PICK m \in 1 .. L : \E j \in 1 .. Len(cs[m]) : cs[m][j] = i
        BY <1>3, <3>1 DEF IsClustering, Placed
      <4>2. PICK j \in 1 .. Len(cs[m]) : cs[m][j] = i
        BY <4>1
      <4>3. CASE m = f
        <5>1. j \in 1 .. l /\ cs[m] = c /\ d[m] = e
          BY <1>4, <1>5, <1>9, <4>3
        <5>2. j \in 1 .. Len(d[m]) /\ d[m][j] = i
          BY <1>7, <1>10, <4>2, <5>1
        <5>. QED BY <5>2
      <4>4. CASE m # f
        BY <1>9, <4>2, <4>4
      <4>. QED BY <4>3, <4>4
    <3>2. CASE i = k + 1
      <4>1. f \in 1 .. L /\ d[f] = e
        BY <1>3, <1>9
      <4>2. l + 1 \in 1 .. Len(d[f]) /\ d[f][l + 1] = i
        BY <1>1, <1>5, <1>7, <3>2, <4>1
      <4>. QED BY <4>1, <4>2
    <3>. QED BY <3>1, <3>2
  <2>. QED BY <1>9, <2>1 DEF Placed
<1>17. Apart(d)
  <2>1. ASSUME NEW m \in 1 .. L, NEW i \in 1 .. Len(cs[m]) PROVE cs[m][i] # x
    <3>1. cs[m][i] \in 1 .. k
      BY <1>11, <2>1
    <3>. QED BY <1>1, <3>1
  <2>2. ASSUME NEW m \in 1 .. L, NEW h \in 1 .. L, NEW i \in 1 .. Len(d[m]), NEW j \in 1 .. Len(d[h]),
               d[m][i] = d[h][j]
        PROVE  m = h /\ i = j
    <3>1. CASE m = f /\ i = l + 1 /\ d[m][i] = x
      <4>1. h = f /\ j = l + 1
        BY <1>13, <2>1, <2>2, <3>1
      <4>. QED BY <3>1, <4>1
    <3>2. CASE i \in 1 .. Len(cs[m]) /\ d[m][i] = cs[m][i]
      <4>1. j \in 1 .. Len(cs[h]) /\ d[h][j] = cs[h][j]
        BY <1>13, <2>1, <2>2, <3>2
      <4>2. m \in 1 .. Len(cs) /\ h \in 1 .. Len(cs) /\ cs[m][i] = cs[h][j]
        BY <1>3, <2>2, <3>2, <4>1
      <4>3. Apart(cs)
        BY DEF IsClustering
      <4>. QED BY <3>2, <4>1, <4>2, <4>3 DEF Apart
    <3>. QED BY <1>13, <3>1, <3>2
  <2>. QED BY <1>9, <2>2 DEF Apart
<1>18. InTurn(d, A)
  <2>1. ASSUME NEW m \in 1 .. L, NEW h \in 1 .. L, m < h
        PROVE  d[m][1] < d[h][1] /\ <<d[m][1], d[h][1]>> \notin A
    BY <1>3, <1>12, <2>1 DEF IsClustering, InTurn
  <2>. QED BY <1>9, <2>1 DEF InTurn
<1>19. d = [cs EXCEPT ![f] = Append(@, k + 1)]
  BY <1>1, <1>4, <1>6, <1>8
<1>. QED BY <1>14, <1>15, <1>16, <1>17, <1>18, <1>19 DEF IsClustering

\* Who agrees with whom: what agree(i) is in MajorityIsMostVoted.
Agreement(answers, equal, n) ==
    {p \in (1 .. n) \X (1 .. n) :
       IF answers[p[1]] = Blank THEN p[2] = p[1]
       ELSE /\ answers[p[2]] # Blank
            /\ Norm[answers[p[1]]] = Norm[answers[p[2]]] \/ <<answers[p[1]], answers[p[2]]>> \in equal}

IsPoll(answers, n) == DOMAIN answers = 1 .. n /\ Len(answers) = n

\* Each agrees with itself, a blank one with no other.
LEMMA AgreementIs ==
    ASSUME NEW n \in Nat, NEW answers, NEW equal, NEW A, A = Agreement(answers, equal, n)
    PROVE  /\ \A i \in 1 .. n : <<i, i>> \in A
           /\ \A i, j \in 1 .. n : <<i, j>> \in A /\ answers[i] = Blank => j = i
           /\ \A i, j \in 1 .. n : <<i, j>> \in A /\ answers[j] = Blank => j = i
           /\ \A i, j \in 1 .. n : answers[i] # Blank /\ answers[j] # Blank =>
                (<<i, j>> \in A <=> Norm[answers[i]] = Norm[answers[j]] \/ <<answers[i], answers[j]>> \in equal)
<1>1. ASSUME NEW i \in 1 .. n, NEW j \in 1 .. n
      PROVE  <<i, j>> \in A <=>
                IF answers[i] = Blank THEN j = i
                ELSE /\ answers[j] # Blank
                     /\ Norm[answers[i]] = Norm[answers[j]] \/ <<answers[i], answers[j]>> \in equal
  BY DEF Agreement
<1>. QED BY <1>1

\* The place of an answer in terms of the agreement.
LEMMA PlacingJoins ==
    ASSUME NEW n \in Nat, NEW answers, NEW equal, NEW A, A = Agreement(answers, equal, n),
           NEW k \in Nat, k + 1 <= n, NEW cs, IsClustering(cs, A, k, n)
    PROVE  PlaceAnswer(cs, k + 1, answers, equal) = Joined(cs, k + 1, A)
<1>1. PICK x \in 1 .. n : x = k + 1  OBVIOUS
<1>2. PICK L \in Nat : L = Len(cs) /\ DOMAIN cs = 1 .. L
  <2>1. cs \in Seq(Seq(1 .. n))
    BY DEF IsClustering, Shaped
  <2>. QED BY <2>1
<1>3. ASSUME NEW m \in 1 .. L PROVE cs[m][1] \in 1 .. n /\ cs[m][1] # x
  <2>1. cs[m] \in Seq(1 .. n) /\ Len(cs[m]) \in 1 .. k
    BY <1>2 DEF IsClustering, Shaped
  <2>2. 1 \in 1 .. Len(cs[m])
    BY <2>1
  <2>3. cs[m][1] \in 1 .. n
    BY <2>1, <2>2
  <2>4. cs[m][1] <= k
    BY <1>2, <2>2 DEF IsClustering, Led
  <2>. QED BY <1>1, <2>3, <2>4
<1>4. PICK fit : fit = {m \in DOMAIN cs : Votes(answers[x], answers[cs[m][1]], equal)}  OBVIOUS
<1>5. PICK J : J = Joins(cs, x, A)  OBVIOUS
<1>6. \A m : m \in J <=> m \in 1 .. L /\ <<cs[m][1], x>> \in A
  BY <1>2, <1>5 DEF Joins
<1>7. PlaceAnswer(cs, x, answers, equal) =
        IF answers[x] = Blank \/ fit = {} THEN Append(cs, <<x>>) ELSE [cs EXCEPT ![Min(fit)] = Append(@, x)]
  BY <1>4 DEF PlaceAnswer
<1>8. Joined(cs, x, A) = IF J = {} THEN Append(cs, <<x>>) ELSE [cs EXCEPT ![Min(J)] = Append(@, x)]
  BY <1>5 DEF Joined
<1>9. CASE answers[x] = Blank
  <2>1. ASSUME NEW m \in J PROVE FALSE
    <3>1. m \in 1 .. L /\ <<cs[m][1], x>> \in A
      BY <1>6, <2>1
    <3>. QED BY <1>3, <1>9, <3>1, AgreementIs
  <2>. QED BY <1>1, <1>7, <1>8, <1>9, <2>1
<1>10. CASE answers[x] # Blank
  <2>1. ASSUME NEW m \in 1 .. L PROVE m \in fit <=> m \in J
    <3>1. PICK r \in 1 .. n : r = cs[m][1] /\ r # x
      BY <1>3
    <3>2. m \in J <=> <<r, x>> \in A
      BY <1>6, <3>1
    <3>3. m \in fit <=> Votes(answers[x], answers[r], equal)
      BY <1>2, <1>4, <3>1
    <3>4. <<r, x>> \in A <=> Votes(answers[x], answers[r], equal)
      <4>1. CASE answers[r] = Blank
        <5>1. <<r, x>> \notin A
          BY <3>1, <4>1, AgreementIs
        <5>2. ~Votes(answers[x], answers[r], equal)
          BY <4>1 DEF Votes
        <5>. QED BY <5>1, <5>2
      <4>2. CASE answers[r] # Blank
        <5>1. <<r, x>> \in A <=>
                Norm[answers[r]] = Norm[answers[x]] \/ <<answers[r], answers[x]>> \in equal
          BY <1>10, <4>2, AgreementIs
        <5>. QED BY <4>2, <5>1 DEF Votes
      <4>. QED BY <4>1, <4>2
    <3>. QED BY <3>2, <3>3, <3>4
  <2>2. fit = J
    BY <1>2, <1>4, <1>6, <2>1
  <2>. QED BY <1>1, <1>7, <1>8, <1>10, <2>2
<1>. QED BY <1>9, <1>10

\* One more sample.
LEMMA PollGoesOn ==
    ASSUME NEW n \in Nat, NEW answers, NEW equal, NEW A, A = Agreement(answers, equal, n),
           NEW k \in Nat, k + 1 <= n, NEW cs, IsClustering(cs, A, k, n)
    PROVE  IsClustering(PlaceAnswer(cs, k + 1, answers, equal), A, k + 1, n)
<1>1. PICK J : J = Joins(cs, k + 1, A)  OBVIOUS
<1>2. J \subseteq Nat /\ \A m \in J : m \in 1 .. Len(cs) /\ <<cs[m][1], k + 1>> \in A
  <2>1. cs \in Seq(Seq(1 .. n))
    BY DEF IsClustering, Shaped
  <2>2. Len(cs) \in Nat
    BY <2>1
  <2>. QED BY <1>1, <2>2 DEF Joins
<1>3. PlaceAnswer(cs, k + 1, answers, equal) = Joined(cs, k + 1, A)
  BY PlacingJoins
<1>4. CASE J = {}
  <2>1. <<k + 1, k + 1>> \in A
    <3>1. k + 1 \in 1 .. n  OBVIOUS
    <3>. QED BY <3>1, AgreementIs
  <2>2. IsClustering(Append(cs, <<k + 1>>), A, k + 1, n)
    BY <1>1, <1>4, <2>1, BeginsACluster
  <2>. QED BY <1>1, <1>3, <1>4, <2>2 DEF Joined
<1>5. CASE J # {}
  <2>1. PICK f : f = Min(J)  OBVIOUS
  <2>2. f \in J
    BY <1>2, <1>5, <2>1, MinIs
  <2>3. f \in 1 .. Len(cs) /\ <<cs[f][1], k + 1>> \in A
    BY <1>2, <2>2
  <2>4. IsClustering([cs EXCEPT ![f] = Append(@, k + 1)], A, k + 1, n)
    BY <2>3, JoinsACluster
  <2>. QED BY <1>1, <1>3, <1>5, <2>1, <2>4 DEF Joined
<1>. QED BY <1>4, <1>5

\* A sample is placed among any clusters.
LEMMA PlacesAmongAny ==
    ASSUME NEW n \in Nat, NEW answers, NEW equal, NEW cs \in Seq(Seq(1 .. n)), NEW x \in 1 .. n
    PROVE  PlaceAnswer(cs, x, answers, equal) \in Seq(Seq(1 .. n))
<1>1. PICK fit : fit = {m \in DOMAIN cs : Votes(answers[x], answers[cs[m][1]], equal)}  OBVIOUS
<1>2. <<x>> \in Seq(1 .. n)  OBVIOUS
<1>3. PICK S : S = Seq(1 .. n)  OBVIOUS
<1>4. cs \in Seq(S) /\ <<x>> \in S
  BY <1>2, <1>3
<1>5. Append(cs, <<x>>) \in Seq(S)
  BY <1>4, AppendProperties
<1>6. ASSUME fit # {} PROVE [cs EXCEPT ![Min(fit)] = Append(@, x)] \in Seq(S)
  <2>1. DOMAIN cs = 1 .. Len(cs) /\ Len(cs) \in Nat
    BY <1>4
  <2>2. fit \subseteq Nat
    BY <1>1, <2>1
  <2>3. PICK f : f = Min(fit)  OBVIOUS
  <2>4. f \in fit
    BY <1>6, <2>2, <2>3, MinIs
  <2>5. f \in 1 .. Len(cs)
    BY <1>1, <2>1, <2>4
  <2>6. cs[f] \in Seq(1 .. n)
    BY <1>3, <1>4, <2>5
  <2>7. Append(cs[f], x) \in Seq(1 .. n)
    BY <2>6, AppendProperties
  <2>8. PICK e \in S : e = Append(cs[f], x)
    BY <1>3, <2>7
  <2>9. [cs EXCEPT ![f] = e] \in Seq(S)
    BY <1>4, <2>5, ExceptSeq
  <2>10. [cs EXCEPT ![f] = e] = [cs EXCEPT ![f] = Append(@, x)]
    BY <2>8
  <2>. QED BY <2>3, <2>9, <2>10
<1>. QED BY <1>1, <1>3, <1>5, <1>6 DEF PlaceAnswer

\* g is the fold of PlaceAnswer over the parts of D.
IsPolling(g, ids, answers, equal, D) ==
    g = [T \in SUBSET D |->
           IF T = {} THEN <<>> ELSE PlaceAnswer(g[T \ {Max(T)}], ids[Max(T)], answers, equal)]

\* The loop as a fold.
LEMMA PollIsFold ==
    ASSUME NEW answers, NEW equal, NEW ids, ids = [i \in DOMAIN answers |-> i]
    PROVE  ClusterAnswers(answers, equal) = (CHOOSE g : IsPolling(g, ids, answers, equal, DOMAIN ids))[DOMAIN ids]
BY DEF ClusterAnswers, FoldLeft, MapThenFoldSet, IsPolling

\* The clusters of all samples.
LEMMA AnswersAreClustered ==
    ASSUME NEW n \in Nat, NEW answers, IsPoll(answers, n), NEW equal, NEW A, A = Agreement(answers, equal, n)
    PROVE  IsClustering(ClusterAnswers(answers, equal), A, n, n)
<1>1. PICK X : X = Seq(Seq(1 .. n))  OBVIOUS
<1>2. PICK ids : ids = [i \in DOMAIN answers |-> i]  OBVIOUS
<1>3. DOMAIN ids = 1 .. n /\ \A i \in 1 .. n : ids[i] = i
  BY <1>2 DEF IsPoll
<1>4. PICK F : F = [c \in X \X (1 .. n) |-> PlaceAnswer(c[1], ids[c[2]], answers, equal)]  OBVIOUS
<1>5. ASSUME NEW c \in X, NEW i \in 1 .. n
      PROVE  F[<<c, i>>] = PlaceAnswer(c, ids[i], answers, equal) /\ F[<<c, i>>] \in X
  <2>1. F[<<c, i>>] = PlaceAnswer(c, ids[i], answers, equal)
    BY <1>4
  <2>2. PlaceAnswer(c, i, answers, equal) \in X
    BY <1>1, PlacesAmongAny
  <2>. QED BY <1>3, <2>1, <2>2
<1>6. F \in [X \X (1 .. n) -> X]
  BY <1>4, <1>5
<1>7. <<>> \in X
  <2>1. <<>> \in Seq(Seq(1 .. n))  OBVIOUS
  <2>. QED BY <1>1, <2>1
<1>8. PICK h : IsFold(h, F, <<>>, n, X)
  BY <1>6, <1>7, FoldsExist
<1>9. h = [T \in SUBSET (1 .. n) |-> h[T]] /\ h[{}] = <<>>
  BY <1>8 DEF IsFold
<1>10. ASSUME NEW T \in SUBSET (1 .. n)
       PROVE  h[T] = IF T = {} THEN <<>> ELSE PlaceAnswer(h[T \ {Max(T)}], ids[Max(T)], answers, equal)
  <2>1. CASE T # {}
    <3>1. FoldsOn(h, F, T, n, X)
      BY <1>8, <2>1, FoldAt
    <3>. QED BY <1>5, <2>1, <3>1 DEF FoldsOn
  <2>. QED BY <1>9, <2>1
<1>11. IsPolling(h, ids, answers, equal, 1 .. n)
  BY <1>9, <1>10 DEF IsPolling
<1>12. PICK g : g = CHOOSE f : IsPolling(f, ids, answers, equal, DOMAIN ids)  OBVIOUS
<1>13. IsPolling(g, ids, answers, equal, 1 .. n)
  BY <1>3, <1>11, <1>12
<1>14. IsFolded(g, F, <<>>, n, X)
  <2>1. ASSUME NEW T \in SUBSET (1 .. n), T # {}, g[T \ {Max(T)}] \in X
        PROVE  g[T] = F[<<g[T \ {Max(T)}], Max(T)>>]
    <3>1. Max(T) \in 1 .. n
      BY <2>1, MaxOfPart
    <3>. QED BY <1>5, <1>13, <2>1, <3>1 DEF IsPolling
  <2>2. g[{}] = <<>>
    BY <1>13 DEF IsPolling
  <2>. QED BY <2>1, <2>2 DEF IsFolded
<1>15. PICK p : IsSteps(p, F, <<>>, n, X, g[1 .. n])
  BY <1>6, <1>7, <1>14, FoldsAreSteps
<1>. DEFINE G == {k \in Nat : k <= n => IsClustering(p[k], A, k, n)}
<1>16. 0 \in G
  <2>1. Len(<<>>) = 0 /\ 1 .. 0 = {}  OBVIOUS
  <2>2. Shaped(<<>>, 0, n)
    BY <1>1, <1>7, <2>1 DEF Shaped
  <2>3. Led(<<>>, A, 0) /\ Placed(<<>>, 0) /\ Apart(<<>>) /\ InTurn(<<>>, A)
    BY <2>1 DEF Led, Placed, Apart, InTurn
  <2>. QED BY <1>15, <2>2, <2>3 DEF IsClustering, IsSteps
<1>17. ASSUME NEW k \in Nat, k \in G PROVE k + 1 \in G
  <2>1. ASSUME k + 1 <= n PROVE IsClustering(p[k + 1], A, k + 1, n)
    <3>1. k <= n /\ k \in 0 .. n /\ k + 1 \in 1 .. n
      BY <2>1
    <3>2. PICK c \in X : c = p[k] /\ IsClustering(c, A, k, n)
      BY <1>15, <1>17, <3>1 DEF IsSteps
    <3>3. IsClustering(PlaceAnswer(c, k + 1, answers, equal), A, k + 1, n)
      BY <2>1, <3>2, PollGoesOn
    <3>4. p[k + 1] = F[<<c, k + 1>>]
      BY <1>15, <2>1, <3>2 DEF IsSteps
    <3>5. p[k + 1] = PlaceAnswer(c, k + 1, answers, equal)
      BY <1>3, <1>5, <3>1, <3>4
    <3>. QED BY <3>3, <3>5
  <2>2. k + 1 \in Nat  OBVIOUS
  <2>. QED BY <2>1, <2>2
<1>18. Nat \subseteq G
  <2>. HIDE DEF G
  <2>. QED BY <1>16, <1>17, NaturalSteps
<1>19. IsClustering(p[n], A, n, n)
  BY <1>18
<1>20. ClusterAnswers(answers, equal) = (CHOOSE f : IsPolling(f, ids, answers, equal, DOMAIN ids))[DOMAIN ids]
  BY <1>2, PollIsFold
<1>. QED BY <1>3, <1>12, <1>15, <1>19, <1>20 DEF IsSteps

\* A set that is listed once from 1 to l has l members.
LEMMA ListedOnce ==
    ASSUME NEW l \in Nat, NEW T, NEW f \in [1 .. l -> T],
           \A i, j \in 1 .. l : f[i] = f[j] => i = j, \A t \in T : \E i \in 1 .. l : f[i] = t
    PROVE  Cardinality(T) = l
<1>1. f \in Bijection(1 .. l, T)
  BY DEF Bijection, Injection, Surjection, IsInjective
<1>2. ExistsBijection(1 .. l, T)
  BY <1>1 DEF ExistsBijection
<1>. QED BY <1>2, FS_CountingElements

\* What the clusters of n samples are.
LEMMA ClustersAre ==
    ASSUME NEW n \in Nat, NEW A, NEW cs, IsClustering(cs, A, n, n)
    PROVE  /\ cs \in Seq(Seq(1 .. n)) /\ Len(cs) \in Nat /\ DOMAIN cs = 1 .. Len(cs)
           /\ \A m \in 1 .. Len(cs) :
                DOMAIN cs[m] = 1 .. Len(cs[m]) /\ Len(cs[m]) \in 1 .. n /\ 1 \in 1 .. Len(cs[m])
           /\ \A m \in 1 .. Len(cs) : \A j \in 1 .. Len(cs[m]) :
                cs[m][j] \in 1 .. n /\ j \in 1 .. n /\ cs[m][1] <= cs[m][j] /\ <<cs[m][1], cs[m][j]>> \in A
<1>1. cs \in Seq(Seq(1 .. n)) /\ \A m \in 1 .. Len(cs) : Len(cs[m]) \in 1 .. n
  BY DEF IsClustering, Shaped
<1>2. Len(cs) \in Nat /\ DOMAIN cs = 1 .. Len(cs)
  BY <1>1
<1>3. ASSUME NEW m \in 1 .. Len(cs)
      PROVE  cs[m] \in Seq(1 .. n) /\ DOMAIN cs[m] = 1 .. Len(cs[m]) /\ 1 \in 1 .. Len(cs[m])
  <2>1. cs[m] \in Seq(1 .. n) /\ Len(cs[m]) \in 1 .. n
    BY <1>1
  <2>. QED BY <2>1
<1>4. ASSUME NEW m \in 1 .. Len(cs), NEW j \in 1 .. Len(cs[m])
      PROVE  cs[m][j] \in 1 .. n /\ j \in 1 .. n /\ cs[m][1] <= cs[m][j] /\ <<cs[m][1], cs[m][j]>> \in A
  <2>1. cs[m][j] \in 1 .. n
    BY <1>3
  <2>2. j \in 1 .. n
    BY <1>1
  <2>3. Led(cs, A, n)
    BY DEF IsClustering
  <2>. QED BY <2>1, <2>2, <2>3 DEF Led
<1>. QED BY <1>1, <1>2, <1>3, <1>4

\* Each sample votes once, a blank one for nothing, for any relation that math-verify answers.
THEOREM EachAlwaysVotesOnce ==
    ASSUME NEW n \in Nat, NEW answers, IsPoll(answers, n), NEW equal
    PROVE  OneVoteEach(answers, equal)
<1>1. PICK A : A = Agreement(answers, equal, n)  OBVIOUS
<1>2. PICK cs : cs = ClusterAnswers(answers, equal)  OBVIOUS
<1>3. IsClustering(cs, A, n, n)
  BY <1>1, <1>2, AnswersAreClustered
<1>4. PICK V : V = {p \in (DOMAIN cs) \X (DOMAIN answers) : p[2] \in DOMAIN cs[p[1]]}  OBVIOUS
<1>5. PICK val : val = [p \in V |-> cs[p[1]][p[2]]]  OBVIOUS
<1>6. /\ Len(cs) \in Nat /\ DOMAIN cs = 1 .. Len(cs)
      /\ \A m \in 1 .. Len(cs) : DOMAIN cs[m] = 1 .. Len(cs[m]) /\ Len(cs[m]) \in 1 .. n /\ 1 \in 1 .. Len(cs[m])
      /\ \A m \in 1 .. Len(cs) : \A j \in 1 .. Len(cs[m]) :
            cs[m][j] \in 1 .. n /\ j \in 1 .. n /\ cs[m][1] <= cs[m][j] /\ <<cs[m][1], cs[m][j]>> \in A
  BY <1>3, ClustersAre
<1>7. ASSUME NEW p \in V
      PROVE  /\ p[1] \in 1 .. Len(cs) /\ p[2] \in 1 .. Len(cs[p[1]]) /\ p = <<p[1], p[2]>>
             /\ val[p] = cs[p[1]][p[2]] /\ val[p] \in 1 .. n
  <2>1. p \in (DOMAIN cs) \X (DOMAIN answers) /\ p[2] \in DOMAIN cs[p[1]]
    BY <1>4, <1>7
  <2>2. p = <<p[1], p[2]>> /\ p[1] \in DOMAIN cs
    BY <2>1
  <2>3. p[1] \in 1 .. Len(cs) /\ p[2] \in 1 .. Len(cs[p[1]])
    BY <1>6, <2>1, <2>2
  <2>4. val[p] = cs[p[1]][p[2]]
    BY <1>5, <1>7
  <2>5. cs[p[1]][p[2]] \in 1 .. n
    BY <1>6, <2>3
  <2>. QED BY <2>2, <2>3, <2>4, <2>5
<1>8. ASSUME NEW i \in 1 .. n PROVE \E p \in V : val[p] = i
  <2>0. PICK m \in 1 .. Len(cs) : \E j \in 1 .. Len(cs[m]) : cs[m][j] = i
    BY <1>3 DEF IsClustering, Placed
  <2>1. PICK j \in 1 .. Len(cs[m]) : cs[m][j] = i
    BY <2>0
  <2>2. PICK p : p = <<m, j>>  OBVIOUS
  <2>3. p \in (DOMAIN cs) \X (DOMAIN answers) /\ p[2] \in DOMAIN cs[p[1]] /\ cs[p[1]][p[2]] = i
    <3>1. j \in 1 .. n /\ DOMAIN cs[m] = 1 .. Len(cs[m])
      BY <1>6
    <3>. QED BY <1>6, <2>1, <2>2, <3>1 DEF IsPoll
  <2>. QED BY <1>4, <1>5, <2>3
<1>9. ASSUME NEW p \in V, NEW q \in V, val[p] = val[q] PROVE p = q
  <2>1. Apart(cs)
    BY <1>3 DEF IsClustering
  <2>2. p[1] = q[1] /\ p[2] = q[2]
    BY <1>7, <1>9, <2>1 DEF Apart
  <2>. QED BY <1>7, <2>2
<1>10. {cs[v[1]][v[2]] : v \in V} = DOMAIN answers
  <2>1. PICK B : B = {cs[v[1]][v[2]] : v \in V}  OBVIOUS
  <2>2. \A b \in B : b \in 1 .. n
    BY <1>7, <2>1
  <2>3. ASSUME NEW i \in 1 .. n PROVE i \in B
    BY <1>7, <1>8, <2>1
  <2>4. B = 1 .. n
    BY <2>2, <2>3
  <2>. QED BY <2>1, <2>4 DEF IsPoll
<1>11. Cardinality(V) = Len(answers)
  <2>1. PICK f : f = [i \in 1 .. n |-> CHOOSE p \in V : val[p] = i]  OBVIOUS
  <2>2. ASSUME NEW i \in 1 .. n PROVE f[i] \in V /\ val[f[i]] = i
    BY <1>8, <2>1
  <2>3. f \in [1 .. n -> V]
    BY <2>1, <2>2
  <2>4. \A i, j \in 1 .. n : f[i] = f[j] => i = j
    BY <2>2
  <2>5. ASSUME NEW p \in V PROVE \E i \in 1 .. n : f[i] = p
    <3>1. val[p] \in 1 .. n
      BY <1>7
    <3>2. f[val[p]] \in V /\ val[f[val[p]]] = val[p]
      BY <2>2, <3>1
    <3>3. f[val[p]] = p
      BY <1>9, <3>2
    <3>. QED BY <3>1, <3>3
  <2>6. Cardinality(V) = n
    BY <2>3, <2>4, <2>5, ListedOnce
  <2>. QED BY <2>6 DEF IsPoll
<1>12. ASSUME NEW m \in DOMAIN cs, NEW x \in DOMAIN cs[m], answers[cs[m][x]] = Blank
       PROVE  Len(cs[m]) = 1
  <2>1. m \in 1 .. Len(cs) /\ x \in 1 .. Len(cs[m])
    BY <1>6
  <2>2. PICK r \in 1 .. n : r = cs[m][1]
    BY <1>6, <2>1
  <2>3. PICK b \in 1 .. n : b = cs[m][x] /\ <<r, b>> \in A
    BY <1>6, <2>1, <2>2
  <2>4. r = b
    BY <1>1, <1>12, <2>3, AgreementIs
  <2>5. ASSUME NEW j \in 1 .. Len(cs[m]) PROVE j = 1
    <3>1. PICK y \in 1 .. n : y = cs[m][j] /\ <<r, y>> \in A
      BY <1>6, <2>1, <2>2
    <3>2. y = r
      BY <1>1, <1>12, <2>3, <2>4, <3>1, AgreementIs
    <3>3. Apart(cs)
      BY <1>3 DEF IsClustering
    <3>4. 1 \in 1 .. Len(cs[m]) /\ cs[m][j] = cs[m][1]
      BY <1>6, <2>1, <2>2, <3>1, <3>2
    <3>. QED BY <2>1, <3>3, <3>4 DEF Apart
  <2>6. Len(cs[m]) \in 1 .. n /\ Len(cs[m]) \in 1 .. Len(cs[m])
    BY <1>6, <2>1
  <2>. QED BY <2>5, <2>6
<1>. QED BY <1>2, <1>4, <1>10, <1>11, <1>12 DEF OneVoteEach

\* The samples that vote as i does, and the ones that no other outvotes.
VotesAs(answers, equal, i) ==
    IF answers[i] = Blank THEN {i}
    ELSE {j \in DOMAIN answers :
            answers[j] # Blank /\ (Norm[answers[i]] = Norm[answers[j]] \/ <<answers[i], answers[j]>> \in equal)}
Winners(answers, equal) ==
    {i \in DOMAIN answers : \A j \in DOMAIN answers :
       Cardinality(VotesAs(answers, equal, j)) <= Cardinality(VotesAs(answers, equal, i))}
IsEquivalence(answers, equal) ==
    \A i, j \in DOMAIN answers :
        j \in VotesAs(answers, equal, i) => VotesAs(answers, equal, i) = VotesAs(answers, equal, j)

\* The majority answer in these terms.
LEMMA MajorityUnfolds ==
    ASSUME NEW answers, NEW equal, NEW w, w = Min(Winners(answers, equal)),
           IsEquivalence(answers, equal) =>
             MajorityAnswer(answers, equal) =
                [answer |-> answers[w], size |-> Cardinality(VotesAs(answers, equal, w))]
    PROVE  MajorityIsMostVoted(answers, equal)
BY DEF MajorityIsMostVoted, VotesAs, Winners, IsEquivalence

\* M is the largest of L clusters, the earliest of equal ones.
IsLargest(cs, M) ==
    /\ M \in 1 .. Len(cs)
    /\ \A j \in 1 .. Len(cs) :
         Len(cs[j]) < Len(cs[M]) \/ (Len(cs[j]) = Len(cs[M]) /\ M <= j)

\* There is a largest cluster where there is one.
LEMMA LargestIs ==
    ASSUME NEW n \in Nat, NEW A, NEW cs, IsClustering(cs, A, n, n), Len(cs) # 0
    PROVE  IsLargest(cs, Largest(cs))
<1>1. /\ Len(cs) \in Nat /\ DOMAIN cs = 1 .. Len(cs)
      /\ \A m \in 1 .. Len(cs) : Len(cs[m]) \in 1 .. n
  BY ClustersAre
<1>2. PICK T : T = {Len(cs[m]) : m \in 1 .. Len(cs)}  OBVIOUS
<1>3. T \in SUBSET (1 .. n) /\ T # {}
  <2>1. 1 \in 1 .. Len(cs)
    BY <1>1
  <2>. QED BY <1>1, <1>2, <2>1
<1>4. PICK l \in 1 .. n : l \in T /\ \A x \in T : x <= l
  BY <1>3, MaxOfPart
<1>5. PICK U : U = {m \in 1 .. Len(cs) : Len(cs[m]) = l}  OBVIOUS
<1>6. U \subseteq Nat /\ U # {}
  BY <1>2, <1>4, <1>5
<1>7. PICK M \in U : \A x \in U : M <= x
  BY <1>6, LeastNumber
<1>8. ASSUME NEW j \in 1 .. Len(cs)
      PROVE  Len(cs[j]) < Len(cs[M]) \/ (Len(cs[j]) = Len(cs[M]) /\ M <= j)
  <2>1. PICK x \in 1 .. n : x = Len(cs[j])
    BY <1>1
  <2>2. x <= l /\ Len(cs[M]) = l
    BY <1>2, <1>4, <1>5, <1>7, <2>1
  <2>3. x = l => M <= j
    BY <1>5, <1>7, <2>1
  <2>. QED BY <2>1, <2>2, <2>3
<1>9. M \in 1 .. Len(cs)
  BY <1>5, <1>7
<1>10. Largest(cs) = CHOOSE m \in 1 .. Len(cs) : \A j \in 1 .. Len(cs) :
          Len(cs[j]) < Len(cs[m]) \/ (Len(cs[j]) = Len(cs[m]) /\ m <= j)
  BY <1>1 DEF Largest
<1>. QED BY <1>8, <1>9, <1>10 DEF IsLargest

\* Where equality is an equivalence the majority answer is the one that no other answer outvotes,
\* and of those the one that was given first, for any number of samples.
THEOREM MajorityIsAlwaysMostVoted ==
    ASSUME NEW n \in Nat, n # 0, NEW answers, IsPoll(answers, n), NEW equal
    PROVE  MajorityIsMostVoted(answers, equal)
<1>1. PICK A : A = Agreement(answers, equal, n)  OBVIOUS
<1>2. PICK cs : cs = ClusterAnswers(answers, equal)  OBVIOUS
<1>3. IsClustering(cs, A, n, n)
  BY <1>1, <1>2, AnswersAreClustered
<1>4. /\ Len(cs) \in Nat
      /\ \A m \in 1 .. Len(cs) : Len(cs[m]) \in 1 .. n /\ 1 \in 1 .. Len(cs[m])
      /\ \A m \in 1 .. Len(cs) : \A j \in 1 .. Len(cs[m]) :
            cs[m][j] \in 1 .. n /\ cs[m][1] <= cs[m][j] /\ <<cs[m][1], cs[m][j]>> \in A
  BY <1>3, ClustersAre
<1>5. PICK agr : agr = [i \in 1 .. n |-> VotesAs(answers, equal, i)]  OBVIOUS
<1>6. ASSUME NEW i \in 1 .. n
      PROVE  /\ agr[i] = VotesAs(answers, equal, i) /\ agr[i] \subseteq 1 .. n
             /\ \A j \in 1 .. n : j \in agr[i] <=> <<i, j>> \in A
  <2>1. agr[i] = VotesAs(answers, equal, i)
    BY <1>5
  <2>2. agr[i] \subseteq 1 .. n
    BY <2>1 DEF VotesAs, IsPoll
  <2>3. ASSUME NEW j \in 1 .. n PROVE j \in agr[i] <=> <<i, j>> \in A
    <3>1. <<i, j>> \in A <=>
            IF answers[i] = Blank THEN j = i
            ELSE /\ answers[j] # Blank
                 /\ Norm[answers[i]] = Norm[answers[j]] \/ <<answers[i], answers[j]>> \in equal
      BY <1>1 DEF Agreement
    <3>2. j \in agr[i] <=>
            IF answers[i] = Blank THEN j = i
            ELSE /\ answers[j] # Blank
                 /\ Norm[answers[i]] = Norm[answers[j]] \/ <<answers[i], answers[j]>> \in equal
      BY <2>1 DEF VotesAs, IsPoll
    <3>. QED BY <3>1, <3>2
  <2>. QED BY <2>1, <2>2, <2>3
<1>7. PICK W : W = Winners(answers, equal)  OBVIOUS
<1>8. \A i : i \in W <=> i \in 1 .. n /\ \A j \in 1 .. n : Cardinality(agr[j]) <= Cardinality(agr[i])
  <2>1. W = {i \in 1 .. n : \A j \in 1 .. n :
               Cardinality(VotesAs(answers, equal, j)) <= Cardinality(VotesAs(answers, equal, i))}
    BY <1>7 DEF Winners, IsPoll
  <2>. QED BY <1>6, <2>1
<1>9. ASSUME IsEquivalence(answers, equal)
      PROVE  \E w : w = Min(W) /\ MajorityAnswer(answers, equal) =
                [answer |-> answers[w], size |-> Cardinality(VotesAs(answers, equal, w))]
  <2>1. \A i, j \in 1 .. n : j \in agr[i] => agr[i] = agr[j]
    BY <1>6, <1>9 DEF IsEquivalence, IsPoll
  <2>2. ASSUME NEW i \in 1 .. n
        PROVE  \E m \in 1 .. Len(cs) : \E j \in 1 .. Len(cs[m]) : cs[m][j] = i /\ agr[i] = agr[cs[m][1]]
    <3>1. PICK m \in 1 .. Len(cs) : \E j \in 1 .. Len(cs[m]) : cs[m][j] = i
      BY <1>3 DEF IsClustering, Placed
    <3>2. PICK j \in 1 .. Len(cs[m]) : cs[m][j] = i
      BY <3>1
    <3>3. PICK r \in 1 .. n : r = cs[m][1]
      BY <1>4
    <3>4. <<r, i>> \in A
      BY <1>4, <3>2, <3>3
    <3>5. agr[r] = agr[i]
      BY <1>6, <2>1, <3>4
    <3>. QED BY <3>2, <3>3, <3>5
  <2>3. ASSUME NEW m \in 1 .. Len(cs) PROVE Cardinality(agr[cs[m][1]]) = Len(cs[m])
    <3>1. PICK r \in 1 .. n : r = cs[m][1]
      BY <1>4
    <3>2. PICK l \in 1 .. n : l = Len(cs[m])
      BY <1>4
    <3>3. PICK f : f = [j \in 1 .. l |-> cs[m][j]]  OBVIOUS
    <3>4. ASSUME NEW j \in 1 .. l PROVE f[j] = cs[m][j] /\ f[j] \in agr[r]
      <4>1. f[j] = cs[m][j] /\ cs[m][j] \in 1 .. n /\ <<r, cs[m][j]>> \in A
        BY <1>4, <3>1, <3>2, <3>3
      <4>. QED BY <1>6, <4>1
    <3>5. f \in [1 .. l -> agr[r]]
      BY <3>3, <3>4
    <3>6. ASSUME NEW i \in 1 .. l, NEW j \in 1 .. l, f[i] = f[j] PROVE i = j
      <4>1. Apart(cs)
        BY <1>3 DEF IsClustering
      <4>2. i \in 1 .. Len(cs[m]) /\ j \in 1 .. Len(cs[m]) /\ cs[m][i] = cs[m][j]
        BY <3>2, <3>4, <3>6
      <4>. QED BY <4>1, <4>2 DEF Apart
    <3>7. ASSUME NEW i \in agr[r] PROVE \E j \in 1 .. l : f[j] = i
      <4>1. i \in 1 .. n /\ agr[i] = agr[r]
        BY <1>6, <2>1
      <4>2. PICK h \in 1 .. Len(cs) : \E j \in 1 .. Len(cs[h]) : cs[h][j] = i /\ agr[i] = agr[cs[h][1]]
        BY <2>2, <4>1
      <4>3. PICK j \in 1 .. Len(cs[h]) : cs[h][j] = i
        BY <4>2
      <4>4. PICK q \in 1 .. n : q = cs[h][1] /\ agr[q] = agr[r]
        BY <1>4, <4>1, <4>2
      <4>5. <<q, q>> \in A /\ <<r, r>> \in A
        BY <1>1, AgreementIs
      <4>6. <<r, q>> \in A /\ <<q, r>> \in A
        BY <1>6, <4>4, <4>5
      <4>7. InTurn(cs, A) /\ Len(cs) \in Nat
        BY <1>3, <1>4 DEF IsClustering
      <4>8. ~(h < m) /\ ~(m < h)
        BY <3>1, <4>4, <4>6, <4>7 DEF InTurn
      <4>9. h = m
        BY <1>4, <4>8
      <4>. QED BY <3>2, <3>4, <4>3, <4>9
    <3>8. l \in Nat  OBVIOUS
    <3>9. Cardinality(agr[r]) = l
      BY <3>5, <3>6, <3>7, <3>8, ListedOnce
    <3>. QED BY <3>1, <3>2, <3>9
  <2>4. Len(cs) # 0
    <3>1. 1 \in 1 .. n  OBVIOUS
    <3>2. PICK m \in 1 .. Len(cs) : \E j \in 1 .. Len(cs[m]) : cs[m][j] = 1
      BY <1>3, <3>1 DEF IsClustering, Placed
    <3>. QED BY <1>4, <3>2
  <2>5. PICK M : M = Largest(cs)  OBVIOUS
  <2>6. /\ M \in 1 .. Len(cs)
        /\ \A j \in 1 .. Len(cs) : Len(cs[j]) < Len(cs[M]) \/ (Len(cs[j]) = Len(cs[M]) /\ M <= j)
    <3>1. IsLargest(cs, M)
      BY <1>3, <2>4, <2>5, LargestIs
    <3>. QED BY <3>1 DEF IsLargest
  <2>7. PICK w \in 1 .. n : w = cs[M][1]
    BY <1>4, <2>6
  <2>8. Cardinality(agr[w]) = Len(cs[M])
    BY <2>3, <2>6, <2>7
  <2>9. PICK b \in 1 .. n : b = Len(cs[M])
    BY <1>4, <2>6
  <2>10. ASSUME NEW i \in 1 .. n
         PROVE  Cardinality(agr[i]) <= b /\ (Cardinality(agr[i]) = b => w <= i)
    <3>1. PICK m \in 1 .. Len(cs) : \E j \in 1 .. Len(cs[m]) : cs[m][j] = i /\ agr[i] = agr[cs[m][1]]
      BY <2>2
    <3>2. PICK j \in 1 .. Len(cs[m]) : cs[m][j] = i /\ agr[i] = agr[cs[m][1]]
      BY <3>1
    <3>3. Cardinality(agr[i]) = Len(cs[m])
      BY <2>3, <3>2
    <3>4. PICK c \in 1 .. n : c = Len(cs[m])
      BY <1>4
    <3>5. c < b \/ (c = b /\ M <= m)
      BY <2>6, <2>9, <3>4
    <3>6. PICK r \in 1 .. n : r = cs[m][1] /\ r <= i
      BY <1>4, <3>2
    <3>7. ASSUME M <= m PROVE w <= i
      <4>1. InTurn(cs, A)
        BY <1>3 DEF IsClustering
      <4>2. M < m => w < r
        BY <2>6, <2>7, <3>6, <4>1 DEF InTurn
      <4>3. M = m => w = r
        BY <2>7, <3>6
      <4>4. M < m \/ M = m
        BY <1>4, <2>6, <3>7
      <4>. QED BY <3>6, <4>2, <4>3, <4>4
    <3>. QED BY <3>3, <3>4, <3>5, <3>7
  <2>11. w \in W
    BY <1>8, <2>8, <2>9, <2>10
  <2>12. ASSUME NEW i \in W PROVE w <= i
    <3>1. i \in 1 .. n /\ Cardinality(agr[w]) <= Cardinality(agr[i])
      BY <1>8, <2>12
    <3>2. PICK m \in 1 .. Len(cs) : \E j \in 1 .. Len(cs[m]) : cs[m][j] = i /\ agr[i] = agr[cs[m][1]]
      BY <2>2, <3>1
    <3>3. PICK c \in 1 .. n : c = Cardinality(agr[i])
      BY <1>4, <2>3, <3>2
    <3>4. c <= b /\ b <= c
      BY <2>8, <2>9, <2>10, <3>1, <3>3
    <3>5. c = b
      BY <3>4
    <3>. QED BY <2>10, <3>1, <3>3, <3>5
  <2>13. w = Min(W)
    <3>1. W \subseteq Nat /\ W # {}
      BY <1>8, <2>11
    <3>. QED BY <2>11, <2>12, <3>1, MinIs
  <2>14. MajorityAnswer(answers, equal) = [answer |-> answers[cs[M][1]], size |-> Len(cs[M])]
    BY <1>2, <2>5 DEF MajorityAnswer
  <2>15. Cardinality(VotesAs(answers, equal, w)) = Len(cs[M])
    BY <1>6, <2>8
  <2>. QED BY <2>7, <2>13, <2>14, <2>15
<1>. QED BY <1>7, <1>9, MajorityUnfolds
-----------------------------------------------------------------------------
(* ScoringIsRight.                                                           *)

ScoringInv ==
    /\ Named
    /\ input.of = "text" => \E n \in Nat : IsText(input.text, n)
    /\ input.of = "answers" => \E n \in Nat \ {0} : IsPoll(input.answers, n)
    /\ input.of = "counts" => input.n \in Nat /\ input.c \in 0 .. input.n /\ input.k \in Nat

\* A step takes a text, answers or counts of some length.
LEMMA ScoringKeeps == ASSUME ScoringInv, Next PROVE ScoringInv'
<1>1. /\ Named'
      /\ input'.of = "counts" => TakeCounts
      /\ input'.of = "answers" => TakeAnswers
      /\ input'.of = "text" => TakeText
  BY StepsByName DEF ScoringInv
<1>2. ASSUME input'.of = "text" PROVE \E n \in Nat : IsText(input'.text, n)
  <2>1. PICK t \in UpTo(MaxText, Characters) : input' = [of |-> "text", text |-> t]
    BY <1>1, <1>2 DEF TakeText
  <2>2. PICK n \in 1 .. MaxText : t \in [1 .. n -> Characters]
    BY DEF UpTo
  <2>3. n \in Nat /\ input'.text = t
    BY <2>1
  <2>4. DOMAIN t = 1 .. n /\ Len(t) = n
    BY <2>2, <2>3
  <2>. QED BY <2>3, <2>4 DEF IsText
<1>3. ASSUME input'.of = "answers" PROVE \E n \in Nat \ {0} : IsPoll(input'.answers, n)
  <2>1. PICK a \in UpTo(MaxSamples, Answers \cup {Blank}), eq \in Equalities :
          input' = [of |-> "answers", answers |-> a, equal |-> eq]
    BY <1>1, <1>3 DEF TakeAnswers
  <2>2. PICK n \in 1 .. MaxSamples : a \in [1 .. n -> Answers \cup {Blank}]
    BY DEF UpTo
  <2>3. n \in Nat \ {0} /\ input'.answers = a
    BY <2>1
  <2>4. DOMAIN a = 1 .. n /\ Len(a) = n
    BY <2>2, <2>3
  <2>. QED BY <2>3, <2>4 DEF IsPoll
<1>4. ASSUME input'.of = "counts"
      PROVE  input'.n \in Nat /\ input'.c \in 0 .. input'.n /\ input'.k \in Nat
  <2>1. PICK n \in 1 .. MaxSamples : \E c \in 0 .. n, k \in 1 .. n :
          input' = [of |-> "counts", n |-> n, c |-> c, k |-> k]
    BY <1>1, <1>4 DEF TakeCounts
  <2>2. PICK c \in 0 .. n, k \in 1 .. n : input' = [of |-> "counts", n |-> n, c |-> c, k |-> k]
    BY <2>1
  <2>3. input'.n = n /\ input'.c = c /\ input'.k = k
    BY <2>2
  <2>4. n \in Nat /\ k \in Nat  OBVIOUS
  <2>. QED BY <2>3, <2>4
<1>. QED BY <1>1, <1>2, <1>3, <1>4 DEF ScoringInv

\* The scores of a problem: the content of the last box, the votes of its samples and pass@k are
\* what boxed.py and scoring.py say they are, for texts and samples of any number.
THEOREM ScoringIsAlwaysRight == Spec => []ScoringIsRight
<1>1. Init => ScoringInv
  BY NamedInit DEF ScoringInv
<1>2. ASSUME ScoringInv, UNCHANGED input PROVE ScoringInv'
  BY <1>2 DEF ScoringInv, Named
<1>3. ScoringInv /\ [Next]_input => ScoringInv'
  BY <1>2, ScoringKeeps
<1>4. ASSUME ScoringInv PROVE ScoringIsRight
  <2>1. ASSUME input.of = "text" PROVE ContentIsBalanced(input.text)
    <3>1. PICK text : text = input.text  OBVIOUS
    <3>2. PICK n \in Nat : IsText(text, n)
      BY <1>4, <2>1, <3>1 DEF ScoringInv
    <3>. QED BY <3>1, <3>2, ContentIsAlwaysBalanced
  <2>2. ASSUME input.of = "answers"
        PROVE  OneVoteEach(input.answers, input.equal) /\ MajorityIsMostVoted(input.answers, input.equal)
    <3>1. PICK answers, equal : answers = input.answers /\ equal = input.equal  OBVIOUS
    <3>2. PICK n \in Nat \ {0} : IsPoll(answers, n)
      BY <1>4, <2>2, <3>1 DEF ScoringInv
    <3>3. n \in Nat /\ n # 0  OBVIOUS
    <3>4. OneVoteEach(answers, equal)
      BY <3>2, <3>3, EachAlwaysVotesOnce
    <3>5. MajorityIsMostVoted(answers, equal)
      BY <3>2, <3>3, MajorityIsAlwaysMostVoted
    <3>. QED BY <3>1, <3>4, <3>5
  <2>3. ASSUME input.of = "counts" PROVE PassAtKCounts(input.n, input.c, input.k)
    <3>1. PICK n, c, k : n = input.n /\ c = input.c /\ k = input.k  OBVIOUS
    <3>2. n \in Nat /\ c \in 0 .. n /\ k \in Nat
      BY <1>4, <2>3, <3>1 DEF ScoringInv
    <3>3. PassAtKCounts(n, c, k)
      BY <3>2, PassAtKAlwaysCounts
    <3>. QED BY <3>1, <3>3
  <2>. QED BY <2>1, <2>2, <2>3 DEF ScoringIsRight
<1>5. ScoringInv => ScoringIsRight
  BY <1>4
<1>. QED BY <1>1, <1>3, <1>5, PTL DEF Spec

(* What the preflight passes.                                                *)

\* Leaves that an arm or a profile sets over base_grpo's body.
ArmLeaves == {"groupSize", "nStd", "nCuts", "maxPrompt", "maxResponse", "maxModelLen", "budget", "agentWorkers"}
ProfileLeaves ==
    {"dtype", "actorDtype", "refDtype", "actorParam", "refParam", "backend", "attention", "removePadding",
     "hwProfile", "budget"}

\* A leaf of the upper layer is its own.
LEMMA UpperLeaf ==
    ASSUME NEW f, NEW g, NEW x \in DOMAIN f
    PROVE  Over(f, g)[x] = f[x] /\ x \in DOMAIN Over(f, g)
BY DEF Over

\* A leaf the upper layer does not have is the lower one's.
LEMMA LowerLeaf ==
    ASSUME NEW f, NEW g, NEW x \in DOMAIN g, x \notin DOMAIN f
    PROVE  Over(f, g)[x] = g[x] /\ x \in DOMAIN Over(f, g)
BY DEF Over

\* No leaf is lost, and none is made up.
LEMMA LaterDomain ==
    ASSUME NEW f, NEW g
    PROVE  DOMAIN Over(f, g) = DOMAIN f \cup DOMAIN g
BY DEF Over

\* An arm sets no other leaves.
LEMMA ArmDomain ==
    ASSUME NEW arm \in DOMAIN Arm
    PROVE  DOMAIN Arm[arm] \subseteq ArmLeaves
BY DEF Arm, ArmLeaves

\* A profile o over its own leaves q.
PrecisionIs(o, d, p, b, q) ==
    /\ DOMAIN o = {"dtype", "actorDtype", "refDtype", "actorParam", "refParam", "backend", "attention",
                   "removePadding"} \cup DOMAIN q
    /\ o.dtype = d /\ o.actorDtype = d /\ o.refDtype = d /\ o.actorParam = p /\ o.refParam = p
    /\ o.backend = b /\ o.attention = "sdpa" /\ o.removePadding = FALSE
    /\ "hwProfile" \in DOMAIN q => o.hwProfile = q.hwProfile
    /\ "budget" \in DOMAIN q => o.budget = q.budget
\* The leaves of a profile over those it adds.
LEMMA PrecisionLeaves ==
    ASSUME NEW d, NEW p, NEW b, NEW q, NEW o, o = Over(Precision(d, p, b), q)
    PROVE  PrecisionIs(o, d, p, b, q)
<1>1. PICK r : r = Precision(d, p, b)  OBVIOUS
<1>2. /\ DOMAIN r = {"dtype", "actorDtype", "refDtype", "actorParam", "refParam", "backend", "attention",
                          "removePadding"} 
      /\ r.dtype = d /\ r.actorDtype = d /\ r.refDtype = d /\ r.actorParam = p /\ r.refParam = p
      /\ r.backend = b /\ r.attention = "sdpa" /\ r.removePadding = FALSE
  BY <1>1 DEF Precision
<1>3. DOMAIN o = DOMAIN r \cup DOMAIN q /\ \A x \in DOMAIN r : o[x] = r[x]
  BY <1>1, LaterDomain, UpperLeaf
<1>4. \A x \in DOMAIN q : x \notin DOMAIN r => o[x] = q[x]
  BY <1>1, LowerLeaf
<1>5. "hwProfile" \in DOMAIN q => o["hwProfile"] = q["hwProfile"]
  BY <1>2, <1>4
<1>6. "budget" \in DOMAIN q => o["budget"] = q["budget"]
  BY <1>2, <1>4
<1>. QED BY <1>2, <1>3, <1>5, <1>6 DEF PrecisionIs

\* What a profile says.
ProfileIs(o, hw) ==
    /\ DOMAIN o \subseteq ProfileLeaves /\ ProfileLeaves \ {"budget"} \subseteq DOMAIN o
    /\ o.hwProfile = hw /\ o.attention = "sdpa" /\ o.removePadding = FALSE
    /\ o.actorDtype = o.dtype /\ o.refDtype = o.dtype /\ o.refParam = o.actorParam
    /\ hw = "sm75" => o.dtype = "float16" /\ o.actorParam = "fp16" /\ o.backend = "TRITON_ATTN" /\ "budget" \notin DOMAIN o
    /\ hw = "h100" => o.dtype = "bfloat16" /\ o.actorParam = "bf16" /\ o.backend = "FLASH_ATTN" /\ "budget" \in DOMAIN o
                        /\ o.budget = HopperBudget
\* Both profiles are as said.
LEMMA ProfileLeavesAre ==
    ASSUME NEW hw \in DOMAIN Hardware
    PROVE  hw \in {"sm75", "h100"} /\ ProfileIs(Hardware[hw], hw)
<1>1. DOMAIN Hardware = {"sm75", "h100"}
  BY DEF Hardware
<1>2. ProfileIs(Hardware["sm75"], "sm75")
  <2>1. PICK q : q = [hwProfile |-> "sm75"]  OBVIOUS
  <2>2. DOMAIN q = {"hwProfile"} /\ q.hwProfile = "sm75"
    BY <2>1
  <2>3. PICK o : o = Hardware["sm75"]  OBVIOUS
  <2>4. o = Over(Precision("float16", "fp16", "TRITON_ATTN"), q)
    BY <2>1, <2>3 DEF Hardware
  <2>5. PrecisionIs(o, "float16", "fp16", "TRITON_ATTN", q)
    BY <2>4, PrecisionLeaves
  <2>6. /\ DOMAIN o = {"dtype", "actorDtype", "refDtype", "actorParam", "refParam", "backend", "attention",
                       "removePadding", "hwProfile"}
        /\ o.dtype = "float16" /\ o.actorDtype = "float16" /\ o.refDtype = "float16" /\ o.actorParam = "fp16"
        /\ o.refParam = "fp16" /\ o.backend = "TRITON_ATTN" /\ o.attention = "sdpa" /\ o.removePadding = FALSE
        /\ o.hwProfile = "sm75"
    BY <2>2, <2>5 DEF PrecisionIs
  <2>7. ProfileIs(o, "sm75")
    BY <2>6 DEF ProfileIs, ProfileLeaves
  <2>. QED BY <2>3, <2>7
<1>3. ProfileIs(Hardware["h100"], "h100")
  <2>1. PICK q : q = [hwProfile |-> "h100", budget |-> HopperBudget]  OBVIOUS
  <2>2. DOMAIN q = {"hwProfile", "budget"} /\ q.hwProfile = "h100" /\ q.budget = HopperBudget
    BY <2>1
  <2>3. PICK o : o = Hardware["h100"]  OBVIOUS
  <2>4. o = Over(Precision("bfloat16", "bf16", "FLASH_ATTN"), q)
    BY <2>1, <2>3 DEF Hardware
  <2>5. PrecisionIs(o, "bfloat16", "bf16", "FLASH_ATTN", q)
    BY <2>4, PrecisionLeaves
  <2>6. /\ DOMAIN o = {"dtype", "actorDtype", "refDtype", "actorParam", "refParam", "backend", "attention",
                       "removePadding", "hwProfile", "budget"}
        /\ o.dtype = "bfloat16" /\ o.actorDtype = "bfloat16" /\ o.refDtype = "bfloat16" /\ o.actorParam = "bf16"
        /\ o.refParam = "bf16" /\ o.backend = "FLASH_ATTN" /\ o.attention = "sdpa" /\ o.removePadding = FALSE
        /\ o.hwProfile = "h100" /\ o.budget = HopperBudget
    BY <2>2, <2>5 DEF PrecisionIs
  <2>7. ProfileIs(o, "h100")
    BY <2>6 DEF ProfileIs, ProfileLeaves
  <2>. QED BY <2>3, <2>7
<1>. QED BY <1>1, <1>2, <1>3

\* Which layer a leaf of the composed configuration is from.
LEMMA LayersDecide ==
    ASSUME NEW arm \in DOMAIN Arm, NEW hw \in DOMAIN Hardware, NEW layout, NEW memory, NEW x,
           NEW c, c = Merged(arm, layout, memory, hw)
    PROVE  /\ x \in DOMAIN Arm[arm] => c[x] = Arm[arm][x] /\ x \in DOMAIN c
           /\ x \notin DOMAIN Arm[arm] /\ x \in DOMAIN Hardware[hw] => c[x] = Hardware[hw][x] /\ x \in DOMAIN c
           /\ x \notin DOMAIN Arm[arm] /\ x \notin DOMAIN Hardware[hw] =>
                /\ x \in DOMAIN Body => c[x] = Body[x] /\ x \in DOMAIN c
                /\ x \notin DOMAIN Body =>
                     /\ x \in DOMAIN MemoryPlan[memory] => c[x] = MemoryPlan[memory][x] /\ x \in DOMAIN c
                     /\ x \notin DOMAIN MemoryPlan[memory] =>
                          /\ x \in DOMAIN Layout[layout] => c[x] = Layout[layout][x] /\ x \in DOMAIN c
                          /\ x \notin DOMAIN Layout[layout] /\ x \in DOMAIN VerlDefaults =>
                               c[x] = VerlDefaults[x] /\ x \in DOMAIN c
<1>1. PICK l : l = Over(Layout[layout], VerlDefaults)  OBVIOUS
<1>2. PICK p : p = Over(MemoryPlan[memory], l)  OBVIOUS
<1>3. PICK b : b = Over(Body, p)  OBVIOUS
<1>4. PICK h : h = Over(Hardware[hw], b)  OBVIOUS
<1>5. c = Over(Arm[arm], h)
  BY <1>1, <1>2, <1>3, <1>4 DEF Merged
<1>6. /\ x \in DOMAIN Layout[layout] => l[x] = Layout[layout][x] /\ x \in DOMAIN l
      /\ x \notin DOMAIN Layout[layout] /\ x \in DOMAIN VerlDefaults => l[x] = VerlDefaults[x] /\ x \in DOMAIN l
  BY <1>1, UpperLeaf, LowerLeaf
<1>7. /\ x \in DOMAIN MemoryPlan[memory] => p[x] = MemoryPlan[memory][x] /\ x \in DOMAIN p
      /\ x \notin DOMAIN MemoryPlan[memory] /\ x \in DOMAIN l => p[x] = l[x] /\ x \in DOMAIN p
  BY <1>2, UpperLeaf, LowerLeaf
<1>8. /\ x \in DOMAIN Body => b[x] = Body[x] /\ x \in DOMAIN b
      /\ x \notin DOMAIN Body /\ x \in DOMAIN p => b[x] = p[x] /\ x \in DOMAIN b
  BY <1>3, UpperLeaf, LowerLeaf
<1>9. /\ x \in DOMAIN Hardware[hw] => h[x] = Hardware[hw][x] /\ x \in DOMAIN h
      /\ x \notin DOMAIN Hardware[hw] /\ x \in DOMAIN b => h[x] = b[x] /\ x \in DOMAIN h
  BY <1>4, UpperLeaf, LowerLeaf
<1>10. /\ x \in DOMAIN Arm[arm] => c[x] = Arm[arm][x] /\ x \in DOMAIN c
       /\ x \notin DOMAIN Arm[arm] /\ x \in DOMAIN h => c[x] = h[x] /\ x \in DOMAIN c
  BY <1>5, UpperLeaf, LowerLeaf
<1>. QED BY <1>6, <1>7, <1>8, <1>9, <1>10

\* The leaves of a layer that no layer over it sets.
LEMMA BodyLeaf ==
    ASSUME NEW arm \in DOMAIN Arm, NEW hw \in DOMAIN Hardware, NEW layout, NEW memory,
           NEW c, c = Merged(arm, layout, memory, hw),
           NEW x \in DOMAIN Body, x \notin ArmLeaves, x \notin ProfileLeaves
    PROVE  c[x] = Body[x] /\ x \in DOMAIN c
<1>1. ProfileIs(Hardware[hw], hw)
  BY ProfileLeavesAre
<1>2. x \notin DOMAIN Arm[arm] /\ x \notin DOMAIN Hardware[hw]
  BY <1>1, ArmDomain DEF ProfileIs
<1>. QED BY <1>2, LayersDecide

\* Those of a memory plan.
LEMMA PlanLeaf ==
    ASSUME NEW arm \in DOMAIN Arm, NEW hw \in DOMAIN Hardware, NEW layout, NEW memory,
           NEW c, c = Merged(arm, layout, memory, hw),
           NEW x \in DOMAIN MemoryPlan[memory], x \notin ArmLeaves, x \notin ProfileLeaves, x \notin DOMAIN Body
    PROVE  c[x] = MemoryPlan[memory][x] /\ x \in DOMAIN c
<1>1. ProfileIs(Hardware[hw], hw)
  BY ProfileLeavesAre
<1>2. x \notin DOMAIN Arm[arm] /\ x \notin DOMAIN Hardware[hw]
  BY <1>1, ArmDomain DEF ProfileIs
<1>. QED BY <1>2, LayersDecide

\* Those of a layout, or of verl where the layout has none.
LEMMA LayoutLeaf ==
    ASSUME NEW arm \in DOMAIN Arm, NEW hw \in DOMAIN Hardware, NEW layout, NEW memory,
           NEW c, c = Merged(arm, layout, memory, hw),
           NEW x, x \notin DOMAIN Arm[arm], x \notin ProfileLeaves, x \notin DOMAIN Body,
           x \notin DOMAIN MemoryPlan[memory]
    PROVE  /\ x \in DOMAIN Layout[layout] => c[x] = Layout[layout][x] /\ x \in DOMAIN c
           /\ x \notin DOMAIN Layout[layout] /\ x \in DOMAIN VerlDefaults => c[x] = VerlDefaults[x] /\ x \in DOMAIN c
<1>1. ProfileIs(Hardware[hw], hw)
  BY ProfileLeavesAre
<1>2. x \notin DOMAIN Hardware[hw]
  BY <1>1 DEF ProfileIs
<1>. QED BY <1>2, LayersDecide

\* Those of a profile.
LEMMA ProfileLeaf ==
    ASSUME NEW arm \in DOMAIN Arm, NEW hw \in DOMAIN Hardware, NEW layout, NEW memory,
           NEW c, c = Merged(arm, layout, memory, hw),
           NEW x \in ProfileLeaves, x # "budget"
    PROVE  c[x] = Hardware[hw][x] /\ x \in DOMAIN c
<1>1. ProfileIs(Hardware[hw], hw)
  BY ProfileLeavesAre
<1>2. x \notin DOMAIN Arm[arm]
  BY ArmDomain DEF ArmLeaves, ProfileLeaves
<1>3. x \in DOMAIN Hardware[hw]
  BY <1>1 DEF ProfileIs
<1>. QED BY <1>2, <1>3, LayersDecide

\* The body's leaves that the arms leave alone.
BodyIs(c) ==
    /\ c.rolloutIs = NoValue /\ c.rolloutRs = NoValue /\ ~c.bypass /\ ~c.engineLogProbs
    /\ c.sampling = <<"1.0", "1.0">> /\ c.valSampling = <<"1.0", "0.8", 20>> /\ ~c.thinking
    /\ c.klLoss /\ c.klCoef = "1e-3" /\ c.klType = "low_var_kl+" /\ c.aggregation = "seq-mean-token-mean"
    /\ c.enabled /\ c.cuts = <<5, "0.03", 5>> /\ c.processors = {"CutsLogitsProcessor"}
    /\ c.nnodes = 1 /\ c.hookInstalled /\ c.freeCacheEngine /\ c.gradientCheckpointing /\ c.ourManager
    /\ c.fusedKernels /\ c.dynamic = [g \in Engines |-> TRUE] /\ c.micro = [g \in Engines |-> Null]
    /\ c.seed = 42 /\ c.resumeMode = "auto" /\ c.savesInRunDir /\ c.namedAfterRun
    /\ c.useV1 /\ c.trainerMode = "mixed_cuts_sync" /\ c.ourReward
\* The body's leaves are those of base_grpo.yaml, with two references to resolve.
LEMMA BodyStands ==
    ASSUME NEW arm \in DOMAIN Arm, NEW hw \in DOMAIN Hardware, NEW layout, NEW memory,
           NEW c, c = Merged(arm, layout, memory, hw)
    PROVE  BodyIs(c) /\ c.rolloutN = Interpolated /\ c.seeds = {Interpolated}
<1>1. c.rolloutIs = NoValue /\ c.rolloutRs = NoValue /\ ~c.bypass /\ ~c.engineLogProbs
  BY BodyLeaf DEF Body, ArmLeaves, ProfileLeaves
<1>2. c.sampling = <<"1.0", "1.0">> /\ c.valSampling = <<"1.0", "0.8", 20>> /\ ~c.thinking
  BY BodyLeaf DEF Body, ArmLeaves, ProfileLeaves
<1>3. c.klLoss /\ c.klCoef = "1e-3" /\ c.klType = "low_var_kl+" /\ c.aggregation = "seq-mean-token-mean"
  BY BodyLeaf DEF Body, ArmLeaves, ProfileLeaves
<1>4. c.enabled /\ c.cuts = <<5, "0.03", 5>> /\ c.processors = {"CutsLogitsProcessor"}
  BY BodyLeaf DEF Body, ArmLeaves, ProfileLeaves
<1>5. c.nnodes = 1 /\ c.hookInstalled /\ c.freeCacheEngine /\ c.gradientCheckpointing /\ c.ourManager
  BY BodyLeaf DEF Body, ArmLeaves, ProfileLeaves
<1>6. c.fusedKernels /\ c.dynamic = [g \in Engines |-> TRUE] /\ c.micro = [g \in Engines |-> Null]
  <2>0. c.fusedKernels /\ "dynamic" \in DOMAIN Body /\ "micro" \in DOMAIN Body
    BY BodyLeaf DEF Body, ArmLeaves, ProfileLeaves
  <2>1. c.dynamic = Body.dynamic /\ c.micro = Body.micro
    BY <2>0, BodyLeaf DEF ArmLeaves, ProfileLeaves
  <2>2. Body.dynamic = [g \in Engines |-> TRUE]
    BY DEF Body
  <2>3. Body.micro = [g \in Engines |-> Null]
    BY DEF Body
  <2>. QED BY <2>0, <2>1, <2>2, <2>3
<1>7. c.seed = 42 /\ c.resumeMode = "auto" /\ c.savesInRunDir /\ c.namedAfterRun
  BY BodyLeaf DEF Body, ArmLeaves, ProfileLeaves
<1>8. c.useV1 /\ c.trainerMode = "mixed_cuts_sync" /\ c.ourReward
  BY BodyLeaf DEF Body, ArmLeaves, ProfileLeaves
<1>9. c.rolloutN = Interpolated /\ c.seeds = {Interpolated}
  BY BodyLeaf DEF Body, ArmLeaves, ProfileLeaves
<1>. QED BY <1>1, <1>2, <1>3, <1>4, <1>5, <1>6, <1>7, <1>8, <1>9 DEF BodyIs

\* The leaves an arm sets, with the profile's token budgets.
ArmIs(c) ==
    /\ c.groupSize \in {4, 16} /\ c.nStd \in Nat /\ c.nCuts \in Nat /\ c.nStd + c.nCuts = c.groupSize
    /\ c.maxPrompt \in Nat /\ c.maxResponse \in Nat /\ c.maxModelLen \in Nat /\ c.budget \in [Engines -> Nat]
    /\ c.maxModelLen >= c.maxPrompt + c.maxResponse
    /\ \A g \in Engines : c.budget[g] >= c.maxPrompt + c.maxResponse
\* Under each arm and profile the group is whole and the longest sequence fits.
LEMMA ArmStands ==
    ASSUME NEW arm \in DOMAIN Arm, NEW hw \in DOMAIN Hardware, NEW layout, NEW memory,
           NEW c, c = Merged(arm, layout, memory, hw)
    PROVE  ArmIs(c)
<1>1. ProfileIs(Hardware[hw], hw) /\ hw \in {"sm75", "h100"}
  BY ProfileLeavesAre
<1>2. arm \in {"math_mixed_cuts", "math_grpo", "smoke"}
  BY DEF Arm
<1>3. ASSUME NEW x \in {"groupSize", "maxPrompt", "maxResponse", "maxModelLen"}, x \notin DOMAIN Arm[arm]
      PROVE  c[x] = Body[x]
  <2>1. x \notin DOMAIN Hardware[hw] /\ x \in DOMAIN Body
    BY <1>1 DEF ProfileIs, ProfileLeaves, Body
  <2>. QED BY <1>3, <2>1, LayersDecide
<1>4. CASE arm = "smoke"
  <2>1. /\ c.groupSize = 4 /\ c.nStd = 2 /\ c.nCuts = 2 /\ c.maxPrompt = 512 /\ c.maxResponse = 512
        /\ c.maxModelLen = 1536
    BY <1>4, LayersDecide DEF Arm
  <2>2. c.budget = [g \in Engines |-> 2048]
    BY <1>4, LayersDecide DEF Arm
  <2>. QED BY <2>1, <2>2 DEF ArmIs
<1>5. CASE arm # "smoke"
  <2>1. DOMAIN Arm[arm] = {"nStd", "nCuts"}
    BY <1>2, <1>5 DEF Arm
  <2>2. c.groupSize = 16 /\ c.maxPrompt = 1024 /\ c.maxResponse = 5000 /\ c.maxModelLen = 6144
    BY <1>3, <2>1 DEF Body
  <2>3. c.nStd \in Nat /\ c.nCuts \in Nat /\ c.nStd + c.nCuts = 16
    <3>1. c.nStd = Arm[arm].nStd /\ c.nCuts = Arm[arm].nCuts
      BY <2>1, LayersDecide
    <3>2. Arm[arm].nStd \in Nat /\ Arm[arm].nCuts \in Nat /\ Arm[arm].nStd + Arm[arm].nCuts = 16
      BY <1>2, <1>5 DEF Arm
    <3>. QED BY <3>1, <3>2
  <2>4. c.budget \in [Engines -> Nat] /\ \A g \in Engines : c.budget[g] >= 6144
    <3>1. CASE hw = "sm75"
      <4>1. c.budget = Body.budget
        BY <1>1, <2>1, <3>1, LayersDecide DEF ProfileIs, Body
      <4>2. Body.budget = [g \in Engines |-> 6144]
        BY DEF Body
      <4>. QED BY <4>1, <4>2
    <3>2. CASE hw = "h100"
      <4>1. c.budget = HopperBudget
        BY <1>1, <2>1, <3>2, LayersDecide DEF ProfileIs
      <4>. QED BY <4>1 DEF HopperBudget, Engines
    <3>. QED BY <1>1, <3>1, <3>2
  <2>. QED BY <2>2, <2>3, <2>4 DEF ArmIs
<1>. QED BY <1>4, <1>5

\* The leaves of a memory plan and of the layout under it.
PlanIs(c, p) ==
    /\ c.loraRank = p.loraRank /\ c.loraMerge = p.loraMerge /\ c.strategy = p.strategy /\ c.lr = p.lr
    /\ c.schedule = p.schedule /\ c.modelDtype = p.modelDtype /\ c.offload = p.offload
    /\ c.saveLoraOnly = p.saveLoraOnly
PlanLeaves == {"loraRank", "loraMerge", "strategy", "lr", "schedule", "modelDtype", "offload", "saveLoraOnly"}
\* A memory plan stands as it is.
LEMMA PlanStands ==
    ASSUME NEW arm \in DOMAIN Arm, NEW hw \in DOMAIN Hardware, NEW layout, NEW memory \in DOMAIN MemoryPlan,
           NEW c, c = Merged(arm, layout, memory, hw)
    PROVE  PlanIs(c, MemoryPlan[memory]) /\ DOMAIN MemoryPlan[memory] = PlanLeaves
<1>1. \A lr, schedule, offload : DOMAIN Lora(lr, schedule, offload) = PlanLeaves
  BY DEF Lora, PlanLeaves
<1>2. \A offload : DOMAIN FullFt(offload) = PlanLeaves
  BY DEF FullFt, PlanLeaves
<1>3. DOMAIN MemoryPlan[memory] = PlanLeaves
  <2>1. memory \in {"plan_b_lora", "plan_b_lora_gpu", "plan_b_lora_calibrated", "plan_b_lora_calibrated_gpu",
                    "plan_a_fullft_offload", "plan_a_manual_offload", "plan_a_fullft_gpu"}
    BY DEF MemoryPlan
  <2>2. /\ MemoryPlan["plan_b_lora"] = Lora("1e-5", "constant", TRUE)
        /\ MemoryPlan["plan_b_lora_gpu"] = Lora("1e-5", "constant", FALSE)
        /\ MemoryPlan["plan_b_lora_calibrated"] = Lora("5e-6", "cosine", TRUE)
        /\ MemoryPlan["plan_b_lora_calibrated_gpu"] = Lora("2e-6", "cosine", FALSE)
    BY DEF MemoryPlan
  <2>3. /\ MemoryPlan["plan_a_fullft_offload"] = FullFt(TRUE) /\ MemoryPlan["plan_a_manual_offload"] = FullFt(FALSE)
        /\ MemoryPlan["plan_a_fullft_gpu"] = FullFt(FALSE)
    BY DEF MemoryPlan
  <2>. QED BY <1>1, <1>2, <2>1, <2>2, <2>3
<1>4. \A x \in PlanLeaves : x \notin ArmLeaves /\ x \notin ProfileLeaves /\ x \notin DOMAIN Body
  BY DEF PlanLeaves, ArmLeaves, ProfileLeaves, Body
<1>5. \A x \in PlanLeaves : c[x] = MemoryPlan[memory][x]
  BY <1>3, <1>4, PlanLeaf
<1>6. PlanIs(c, MemoryPlan[memory])
  BY <1>5 DEF PlanIs, PlanLeaves
<1>. QED BY <1>3, <1>6

\* The leaves of a layout, the agent workers apart.
LayoutLeaves ==
    {"nGpus", "tp", "numCpusSet", "objectStoreGb", "loaderWorkers", "ncclDisabled", "rewardWorkers"}
LayoutIs(c, l) ==
    /\ c.nGpus = l.nGpus /\ c.tp = l.tp /\ c.numCpusSet = l.numCpusSet /\ c.objectStoreGb = l.objectStoreGb
    /\ c.loaderWorkers = l.loaderWorkers /\ c.agentWorkers \in {2, l.agentWorkers}
    /\ c.ncclDisabled = (IF "ncclDisabled" \in DOMAIN l THEN l.ncclDisabled ELSE FALSE)
    /\ c.rewardWorkers = (IF "rewardWorkers" \in DOMAIN l THEN l.rewardWorkers ELSE 8)
\* A layout stands as it is, but for the smoke test's own number of agent workers.
LEMMA LayoutStands ==
    ASSUME NEW arm \in DOMAIN Arm, NEW hw \in DOMAIN Hardware, NEW layout \in DOMAIN Layout,
           NEW memory \in DOMAIN MemoryPlan, NEW c, c = Merged(arm, layout, memory, hw)
    PROVE  LayoutIs(c, Layout[layout])
<1>1. DOMAIN MemoryPlan[memory] = PlanLeaves
  BY PlanStands
<1>2. DOMAIN Arm[arm] \subseteq ArmLeaves
  BY ArmDomain
<1>3. \A x \in LayoutLeaves : x \notin DOMAIN Arm[arm] /\ x \notin ProfileLeaves /\ x \notin DOMAIN Body
  BY <1>2 DEF LayoutLeaves, ArmLeaves, ProfileLeaves, Body
<1>4. \A x \in LayoutLeaves : x \notin PlanLeaves
  BY DEF LayoutLeaves, PlanLeaves
<1>5. ASSUME NEW x \in LayoutLeaves
      PROVE  /\ x \in DOMAIN Layout[layout] => c[x] = Layout[layout][x]
             /\ x \notin DOMAIN Layout[layout] /\ x \in DOMAIN VerlDefaults => c[x] = VerlDefaults[x]
  BY <1>1, <1>3, <1>4, LayoutLeaf
<1>6. /\ c.nGpus = Layout[layout].nGpus /\ c.tp = Layout[layout].tp
      /\ c.numCpusSet = Layout[layout].numCpusSet /\ c.objectStoreGb = Layout[layout].objectStoreGb
      /\ c.loaderWorkers = Layout[layout].loaderWorkers
  <2>1. {"nGpus", "tp", "numCpusSet", "objectStoreGb", "loaderWorkers", "agentWorkers"} \subseteq DOMAIN Layout[layout]
    BY DEF Layout
  <2>. QED BY <1>5, <2>1 DEF LayoutLeaves
<1>7. c.ncclDisabled = (IF "ncclDisabled" \in DOMAIN Layout[layout] THEN Layout[layout].ncclDisabled ELSE FALSE)
  BY <1>5 DEF LayoutLeaves, VerlDefaults
<1>8. c.rewardWorkers = (IF "rewardWorkers" \in DOMAIN Layout[layout] THEN Layout[layout].rewardWorkers ELSE 8)
  BY <1>5 DEF LayoutLeaves, VerlDefaults
<1>9. c.agentWorkers \in {2, Layout[layout].agentWorkers}
  <2>1. CASE "agentWorkers" \in DOMAIN Arm[arm]
    <3>1. Arm[arm].agentWorkers = 2
      BY <2>1 DEF Arm
    <3>. QED BY <2>1, <3>1, LayersDecide
  <2>2. CASE "agentWorkers" \notin DOMAIN Arm[arm]
    <3>1. "agentWorkers" \notin ProfileLeaves /\ "agentWorkers" \notin DOMAIN Body /\ "agentWorkers" \notin PlanLeaves
      BY DEF ProfileLeaves, Body, PlanLeaves
    <3>2. "agentWorkers" \in DOMAIN Layout[layout]
      BY DEF Layout
    <3>. QED BY <1>1, <2>2, <3>1, <3>2, LayoutLeaf
  <2>. QED BY <2>1, <2>2
<1>. QED BY <1>6, <1>7, <1>8, <1>9 DEF LayoutIs

\* What Compose makes of the merged layers: only the two references are resolved.
ComposedIs(c, m) ==
    /\ DOMAIN c = DOMAIN m /\ \A x \in DOMAIN m : x \notin {"rolloutN", "seeds"} => c[x] = m[x]
    /\ c.rolloutN = m.groupSize /\ c.seeds = {m.seed}
\* rollout.n is the group size, and every seed is the one seed.
LEMMA ComposeResolves ==
    ASSUME NEW arm \in DOMAIN Arm, NEW hw \in DOMAIN Hardware, NEW layout, NEW memory,
           NEW m, m = Merged(arm, layout, memory, hw)
    PROVE  ComposedIs(Compose(arm, layout, memory, hw), m)
<1>1. m.rolloutN = Interpolated /\ m.seeds = {Interpolated}
  BY BodyStands
<1>2. "rolloutN" \in DOMAIN m /\ "seeds" \in DOMAIN m
  BY BodyLeaf DEF Body, ArmLeaves, ProfileLeaves
<1>3. PICK c : c = Compose(arm, layout, memory, hw)  OBVIOUS
<1>4. PICK n : n = IF m.rolloutN = Interpolated THEN m.groupSize ELSE m.rolloutN  OBVIOUS
<1>5. PICK s : s = {IF t = Interpolated THEN m.seed ELSE t : t \in m.seeds}  OBVIOUS
<1>6. s = {m.seed}
  BY <1>1, <1>5
<1>7. c = [m EXCEPT !.rolloutN = n, !.seeds = s]
  BY <1>3, <1>4, <1>5 DEF Compose
<1>8. ComposedIs(c, m)
  BY <1>1, <1>2, <1>4, <1>6, <1>7 DEF ComposedIs
<1>. QED BY <1>3, <1>8

\* Which problems a job's two calls name.
LEMMA PreflightParts ==
    ASSUME NEW e, NEW c
    PROVE  Preflight(e, c) =
             CheckChatTemplate(e) \cup CheckPython(e) \cup CheckSingleNode(e) \cup CheckStorage(e) \cup CheckDurableDir(e)
             \cup CheckPins(e) \cup CheckDriver(e) \cup CheckGpu(e) \cup CheckVllmEngine(e) \cup CheckAttentionBackend(e)
             \cup CheckConfig(e, c)
<1>1. Main(e, c, {"--only-config", "--config"}) = CheckConfig(e, c) \cup CheckChatTemplate(e)
  BY DEF Main
<1>2. Main(e, c, {"--no-staged"}) =
        CheckChatTemplate(e)
        \cup UNION {CheckPython(e), CheckSingleNode(e), CheckStorage(e), CheckDurableDir(e), CheckPins(e),
                    UNION {CheckDriver(e), CheckGpu(e), CheckVllmEngine(e), CheckAttentionBackend(e)}, {}}
  BY DEF Main
<1>3. UNION {CheckPython(e), CheckSingleNode(e), CheckStorage(e), CheckDurableDir(e), CheckPins(e),
                    UNION {CheckDriver(e), CheckGpu(e), CheckVllmEngine(e), CheckAttentionBackend(e)}, {}}
         = CheckPython(e) \cup CheckSingleNode(e) \cup CheckStorage(e) \cup CheckDurableDir(e) \cup CheckPins(e)
           \cup CheckDriver(e) \cup CheckGpu(e) \cup CheckVllmEngine(e) \cup CheckAttentionBackend(e)
  OBVIOUS
<1>. QED BY <1>1, <1>2, <1>3 DEF Preflight

\* The problems of the configuration, one group of checks after the other.
LEMMA CheckParts ==
    ASSUME NEW e, NEW c
    PROVE  Check(c, e) =
             HardwareProblems(c, e) \cup BudgetProblems(c) \cup RecipeProblems(c) \cup ReplicaProblems(c, e)
             \cup LayoutProblems(c) \cup OneGpuProblems(c) \cup MemoryPlanProblems(c) \cup BatchingProblems(c)
             \cup ResumeProblems(c)
BY DEF Check

\* The environment of which acceptance is judged: numbers are numbers, packages and cards are told.
IsMachine(e) ==
    /\ e.gpus \in Seq(Int) /\ e.procDriver \in Int /\ e.smiDriver \in Int /\ e.minDriver \in Int
IsConfig(c) ==
    /\ c.nStd \in Nat /\ c.nCuts \in Nat /\ c.groupSize \in Int /\ c.rolloutN \in Nat \ {0}
    /\ c.maxPrompt \in Int /\ c.maxResponse \in Int /\ c.maxModelLen \in Int
    /\ \A g \in Engines : c.budget[g] \in Int

\* compose_config.py and check_env.py together: whatever configuration and machine they pass, not
\* only those of the sites, runs there, starts and fits, if none of its rollout counts is negative and
\* rollout.n is not 0: compose_config.py:132-138 compares them and asks for no size, scheduler.py:67-70
\* raises.
THEOREM AcceptedRunsAnywhere ==
    ASSUME NEW e, NEW c, IsMachine(e), IsConfig(c)
    PROVE  AcceptedRuns(e, c)
<1>. SUFFICES ASSUME Preflight(e, c) = {}, e.hw # NoValue, e.slurmGpus # Null, e.visible # Null
              PROVE  RunsHere(e, c) /\ StartsWith(c) /\ EverySequenceFits(c)
  BY DEF AcceptedRuns
<1>1. /\ CheckSingleNode(e) = {} /\ CheckDriver(e) = {} /\ CheckGpu(e) = {} /\ CheckVllmEngine(e) = {}
      /\ CheckConfig(e, c) = {}
  BY PreflightParts
<1>2. Check(c, e) = {} /\ e.visible = c.nGpus
  BY <1>1 DEF CheckConfig, Of
<1>3. /\ HardwareProblems(c, e) = {} /\ BudgetProblems(c) = {} /\ ReplicaProblems(c, e) = {}
      /\ BatchingProblems(c) = {} /\ ResumeProblems(c) = {}
  BY <1>2, CheckParts
<1>4. c.tp = c.nGpus /\ e.slurmGpus = c.nGpus
  BY <1>3 DEF ReplicaProblems, Of
<1>5. e.nodes \in {Null, 1}
  BY <1>1 DEF CheckSingleNode, Of
<1>6. (IF e.procDriver # Null THEN e.procDriver ELSE e.smiDriver) >= e.minDriver
  <2>1. PICK d \in Int : d = IF e.procDriver # Null THEN e.procDriver ELSE e.smiDriver
    BY DEF IsMachine
  <2>2. ~(d < e.minDriver)
    BY <1>1, <2>1 DEF CheckDriver, Of
  <2>3. e.minDriver \in Int
    BY DEF IsMachine
  <2>4. d >= e.minDriver
    BY <2>2, <2>3
  <2>. QED BY <2>1, <2>4
<1>7. e.v1Engine /\ e.v2Runner \in {NoValue, ""}
  BY <1>1 DEF CheckVllmEngine, Of
<1>8. /\ c.hwProfile = e.hw
      /\ \/ c.hwProfile = "sm75" /\ c.dtype = "float16" /\ c.backend = "TRITON_ATTN"
         \/ c.hwProfile = "h100" /\ c.dtype = "bfloat16" /\ c.backend = "FLASH_ATTN"
  BY <1>3 DEF HardwareProblems, Of
<1>9. e.cudaInit /\ \A i \in DOMAIN e.gpus : CheckCard(e, e.gpus[i]) = {}
  BY <1>1 DEF CheckGpu, Of
<1>10. ASSUME NEW i \in DOMAIN e.gpus
       PROVE  /\ \E j \in DOMAIN Supports(e.gpus[i]) : Supports(e.gpus[i])[j] = c.backend
              /\ c.dtype = "bfloat16" => HasBf16(e.gpus[i])
  <2>0. e.gpus[i] \in Int
    BY DEF IsMachine
  <2>1. PICK cc \in Int : cc = e.gpus[i] /\ CheckCard(e, cc) = {}
    BY <1>9, <2>0
  <2>2. CASE c.hwProfile = "sm75"
    <3>1. HwProfile(e).cc = 75 /\ ~HwProfile(e).bf16
      BY <1>8, <2>2 DEF HwProfile, Profiles
    <3>2. cc = 75
      BY <2>1, <3>1 DEF CheckCard, Of
    <3>3. Supports(cc) = <<"TRITON_ATTN">>
      BY <3>2 DEF Supports
    <3>. QED BY <1>8, <2>1, <2>2, <3>3
  <2>3. CASE c.hwProfile = "h100"
    <3>1. HwProfile(e).cc = 90 /\ HwProfile(e).bf16
      BY <1>8, <2>3 DEF HwProfile, Profiles
    <3>2. cc >= 80
      BY <2>1, <3>1 DEF CheckCard, Of
    <3>3. Supports(cc) = <<"FLASH_ATTN", "TRITON_ATTN">> /\ HasBf16(cc)
      BY <3>2 DEF Supports, HasBf16
    <3>. QED BY <1>8, <2>1, <2>3, <3>3
  <2>. QED BY <1>8, <2>2, <2>3
<1>11. RunsHere(e, c)
  BY <1>2, <1>4, <1>5, <1>6, <1>7, <1>9, <1>10 DEF RunsHere
<1>12. StartsWith(c)
  <2>1. /\ c.groupSize # Null /\ c.rolloutN = c.groupSize
        /\ c.enabled => c.nStd + c.nCuts = c.groupSize
    BY <1>3 DEF BudgetProblems, Of
  <2>2. c.useV1
    BY <1>3 DEF ResumeProblems, Of
  <2>. QED BY <2>1, <2>2 DEF StartsWith, IsConfig
<1>13. EverySequenceFits(c)
  <2>1. PICK longest \in Int : longest = c.maxPrompt + c.maxResponse
    BY DEF IsConfig
  <2>2. ~\E g \in Engines : c.budget[g] < longest
    BY <1>3, <2>1 DEF BatchingProblems, Of
  <2>3. ~\E g \in Engines : c.dynamic[g] /\ c.micro[g] # Null
    BY <1>3 DEF BatchingProblems, Of
  <2>4. \A g \in Engines : c.budget[g] >= longest
    BY <2>2 DEF IsConfig
  <2>. QED BY <2>1, <2>3, <2>4 DEF EverySequenceFits
<1>. QED BY <1>11, <1>12, <1>13

\* The configuration c of a site: its profile, memory plan and layout, under the arm.
IsOfSite(c, hw, memory, layout) ==
    /\ BodyIs(c) /\ ArmIs(c) /\ c.rolloutN = c.groupSize /\ c.seeds = {42}
    /\ c.hwProfile = hw /\ c.attention = "sdpa" /\ ~c.removePadding
    /\ c.actorDtype = c.dtype /\ c.refDtype = c.dtype /\ c.refParam = c.actorParam
    /\ hw = "sm75" => c.dtype = "float16" /\ c.actorParam = "fp16" /\ c.backend = "TRITON_ATTN"
    /\ hw = "h100" => c.dtype = "bfloat16" /\ c.actorParam = "bf16" /\ c.backend = "FLASH_ATTN"
    /\ PlanIs(c, MemoryPlan[memory]) /\ LayoutIs(c, Layout[layout])
\* Every layer's leaves are leaves of the result.
LEMMA LayersAreIn ==
    ASSUME NEW arm, NEW hw, NEW layout, NEW memory, NEW m, m = Merged(arm, layout, memory, hw)
    PROVE  /\ DOMAIN Arm[arm] \subseteq DOMAIN m /\ DOMAIN Hardware[hw] \subseteq DOMAIN m
           /\ DOMAIN Body \subseteq DOMAIN m /\ DOMAIN MemoryPlan[memory] \subseteq DOMAIN m
           /\ DOMAIN Layout[layout] \subseteq DOMAIN m /\ DOMAIN VerlDefaults \subseteq DOMAIN m
<1>1. PICK l : l = Over(Layout[layout], VerlDefaults)  OBVIOUS
<1>2. PICK p : p = Over(MemoryPlan[memory], l)  OBVIOUS
<1>3. PICK b : b = Over(Body, p)  OBVIOUS
<1>4. PICK h : h = Over(Hardware[hw], b)  OBVIOUS
<1>5. m = Over(Arm[arm], h)
  BY <1>1, <1>2, <1>3, <1>4 DEF Merged
<1>6. DOMAIN l = DOMAIN Layout[layout] \cup DOMAIN VerlDefaults
  BY <1>1, LaterDomain
<1>7. DOMAIN p = DOMAIN MemoryPlan[memory] \cup DOMAIN l
  BY <1>2, LaterDomain
<1>8. DOMAIN b = DOMAIN Body \cup DOMAIN p
  BY <1>3, LaterDomain
<1>9. DOMAIN h = DOMAIN Hardware[hw] \cup DOMAIN b
  BY <1>4, LaterDomain
<1>10. DOMAIN m = DOMAIN Arm[arm] \cup DOMAIN h
  BY <1>5, LaterDomain
<1>. QED BY <1>6, <1>7, <1>8, <1>9, <1>10

\* What is composed for a site is made of that site's layers.
LEMMA ComposedIsOfSite ==
    ASSUME NEW arm \in DOMAIN Arm, NEW hw \in DOMAIN Hardware, NEW layout \in DOMAIN Layout,
           NEW memory \in DOMAIN MemoryPlan
    PROVE  IsOfSite(Compose(arm, layout, memory, hw), hw, memory, layout)
<1>1. PICK m : m = Merged(arm, layout, memory, hw)  OBVIOUS
<1>2. PICK c : c = Compose(arm, layout, memory, hw)  OBVIOUS
<1>3. ComposedIs(c, m)
  BY <1>1, <1>2, ComposeResolves
<1>4. ProfileIs(Hardware[hw], hw)
  BY ProfileLeavesAre
<1>5. BodyIs(m) /\ ArmIs(m) /\ PlanIs(m, MemoryPlan[memory]) /\ LayoutIs(m, Layout[layout])
  BY <1>1, BodyStands, ArmStands, PlanStands, LayoutStands
<1>6. \A x \in DOMAIN Body : x \notin {"rolloutN", "seeds"} => c[x] = m[x]
  BY <1>1, <1>3, LayersAreIn DEF ComposedIs
<1>7. \A x \in {"nStd", "nCuts"} : c[x] = m[x]
  BY <1>1, <1>3, LayersAreIn DEF ComposedIs, Body
<1>8. \A x \in PlanLeaves : c[x] = m[x]
  <2>1. PlanLeaves \subseteq DOMAIN m
    BY <1>1, LayersAreIn, PlanStands
  <2>2. \A x \in PlanLeaves : x \notin {"rolloutN", "seeds"}
    BY DEF PlanLeaves
  <2>. QED BY <1>3, <2>1, <2>2 DEF ComposedIs
<1>9. \A x \in LayoutLeaves \cup {"agentWorkers"} : c[x] = m[x]
  <2>1. {"nGpus", "tp", "numCpusSet", "objectStoreGb", "loaderWorkers", "agentWorkers"} \subseteq DOMAIN Layout[layout]
    BY DEF Layout
  <2>2. {"ncclDisabled", "rewardWorkers"} \subseteq DOMAIN VerlDefaults
    BY DEF VerlDefaults
  <2>3. DOMAIN Layout[layout] \subseteq DOMAIN m /\ DOMAIN VerlDefaults \subseteq DOMAIN m
    BY <1>1, LayersAreIn
  <2>4. LayoutLeaves \cup {"agentWorkers"} \subseteq DOMAIN m
    BY <2>1, <2>2, <2>3 DEF LayoutLeaves
  <2>5. \A x \in LayoutLeaves \cup {"agentWorkers"} : x \notin {"rolloutN", "seeds"}
    BY DEF LayoutLeaves
  <2>. QED BY <1>3, <2>4, <2>5 DEF ComposedIs
<1>10. \A x \in ProfileLeaves \ {"budget"} : c[x] = Hardware[hw][x]
  <2>1. \A x \in ProfileLeaves \ {"budget"} : m[x] = Hardware[hw][x] /\ x \in DOMAIN m
    BY <1>1, ProfileLeaf
  <2>2. \A x \in ProfileLeaves : x \notin {"rolloutN", "seeds"}
    BY DEF ProfileLeaves
  <2>. QED BY <1>3, <2>1, <2>2 DEF ComposedIs
<1>11. BodyIs(c)
  <2>1. {"rolloutIs", "rolloutRs", "bypass", "engineLogProbs", "sampling", "valSampling", "thinking", "klLoss",
         "klCoef", "klType", "aggregation", "enabled", "cuts", "processors", "nnodes", "hookInstalled",
         "freeCacheEngine", "gradientCheckpointing", "ourManager", "fusedKernels", "dynamic", "micro", "seed",
         "resumeMode", "savesInRunDir", "namedAfterRun", "useV1", "trainerMode", "ourReward"} \subseteq DOMAIN Body
    BY DEF Body
  <2>. QED BY <1>5, <1>6, <2>1 DEF BodyIs
<1>12. ArmIs(c)
  <2>1. {"groupSize", "maxPrompt", "maxResponse", "maxModelLen", "budget"} \subseteq DOMAIN Body
    BY DEF Body
  <2>2. /\ c.groupSize = m.groupSize /\ c.maxPrompt = m.maxPrompt /\ c.maxResponse = m.maxResponse
        /\ c.maxModelLen = m.maxModelLen /\ c.budget = m.budget /\ c.nStd = m.nStd /\ c.nCuts = m.nCuts
    BY <1>6, <1>7, <2>1
  <2>. QED BY <1>5, <2>2 DEF ArmIs
<1>13. PlanIs(c, MemoryPlan[memory])
  BY <1>5, <1>8 DEF PlanIs, PlanLeaves
<1>14. LayoutIs(c, Layout[layout])
  BY <1>5, <1>9 DEF LayoutIs, LayoutLeaves
<1>15. c.rolloutN = c.groupSize /\ c.seeds = {42}
  <2>1. "groupSize" \in DOMAIN Body /\ m.seed = 42
    BY <1>5 DEF Body, BodyIs
  <2>2. c.groupSize = m.groupSize
    BY <1>6, <2>1
  <2>. QED BY <1>3, <2>1, <2>2 DEF ComposedIs
<1>16. /\ c.hwProfile = hw /\ c.attention = "sdpa" /\ ~c.removePadding
       /\ c.actorDtype = c.dtype /\ c.refDtype = c.dtype /\ c.refParam = c.actorParam
       /\ hw = "sm75" => c.dtype = "float16" /\ c.actorParam = "fp16" /\ c.backend = "TRITON_ATTN"
       /\ hw = "h100" => c.dtype = "bfloat16" /\ c.actorParam = "bf16" /\ c.backend = "FLASH_ATTN"
  BY <1>4, <1>10 DEF ProfileIs, ProfileLeaves
<1>17. IsOfSite(c, hw, memory, layout)
  BY <1>11, <1>12, <1>13, <1>14, <1>15, <1>16 DEF IsOfSite
<1>. QED BY <1>2, <1>17

\* What the composed configuration of a site does not lack, whatever machine it meets.
LEMMA SitesNameNoProblem ==
    ASSUME NEW c, NEW hw, NEW memory, NEW layout, IsOfSite(c, hw, memory, layout)
    PROVE  BudgetProblems(c) = {} /\ RecipeProblems(c) = {} /\ BatchingProblems(c) = {} /\ ResumeProblems(c) = {}
<1>1. BudgetProblems(c) = {}
  BY DEF IsOfSite, BodyIs, ArmIs, BudgetProblems, Of, Null
<1>2. RecipeProblems(c) = {}
  BY DEF IsOfSite, BodyIs, RecipeProblems, Of
<1>3. BatchingProblems(c) = {}
  <2>1. /\ \A g \in Engines : c.dynamic[g] /\ c.micro[g] = Null
    BY DEF IsOfSite, BodyIs
  <2>2. PICK longest \in Nat : longest = c.maxPrompt + c.maxResponse
    BY DEF IsOfSite, ArmIs
  <2>3. c.maxModelLen \in Nat /\ c.maxModelLen >= longest
    BY <2>2 DEF IsOfSite, ArmIs
  <2>4. \A g \in Engines : c.budget[g] \in Nat /\ c.budget[g] >= longest
    BY <2>2 DEF IsOfSite, ArmIs
  <2>5. ~(c.maxModelLen < longest \/ \E g \in Engines : c.budget[g] < longest)
    BY <2>3, <2>4
  <2>. QED BY <2>1, <2>2, <2>5 DEF BatchingProblems, Of
<1>4. ResumeProblems(c) = {}
  BY DEF IsOfSite, BodyIs, ResumeProblems, Of, Null
<1>. QED BY <1>1, <1>2, <1>3, <1>4

\* The machines: on each of them the checks of check_env.py name nothing.
MachineIs(e, site) ==
    e.hw = EnvFile[site].hw /\ e.slurmGpus = EnvFile[site].slurmGpus /\ e.visible = EnvFile[site].slurmGpus
IsFit(e) ==
    /\ CheckChatTemplate(e) = {} /\ CheckPython(e) = {} /\ CheckSingleNode(e) = {} /\ CheckStorage(e) = {}
    /\ CheckDurableDir(e) = {} /\ CheckPins(e) = {} /\ CheckDriver(e) = {} /\ CheckGpu(e) = {}
    /\ CheckVllmEngine(e) = {} /\ CheckAttentionBackend(e) = {}
\* Nothing is amiss on them, and their numbers are numbers.
LEMMA MachinesAreFit ==
    ASSUME NEW site \in DOMAIN EnvFile, NEW e, e = MachineOf(site)
    PROVE  IsFit(e) /\ MachineIs(e, site) /\ IsMachine(e)
<1>1. PICK f : f = EnvFile[site]  OBVIOUS
<1>2. f.hw \in {"sm75", "h100"} /\ f.slurmGpus \in {1, 4}
  BY <1>1 DEF EnvFile
<1>3. PICK cc \in Int : cc = IF f.hw = "h100" THEN 90 ELSE 75  OBVIOUS
<1>4. /\ e.hw = f.hw /\ e.slurmGpus = f.slurmGpus /\ e.visible = f.slurmGpus /\ e.nodes = 1
      /\ e.gpus = [i \in 1 .. f.slurmGpus |-> cc]
  BY <1>1, <1>3 DEF MachineOf
<1>5. e.packages = [m \in {"torch", "vllm", "transformers"} |-> "pinned"]
  BY <1>1, <1>3 DEF MachineOf
<1>6. /\ e.pythonIsNew /\ e.procDriver = 580 /\ e.smiDriver = 580 /\ e.minDriver = 525
      /\ e.cudaInit /\ e.cuda129 /\ e.wheelArchs = {"sm_75", "sm_80", "sm_90"}
  BY <1>1, <1>3 DEF MachineOf
<1>7. e.sdpaKernel /\ e.v2Runner = NoValue /\ e.v1Engine /\ e.processorFits
  BY <1>1, <1>3 DEF MachineOf
<1>8. e.dirs = [d \in {"stage", "scratch", "cache", "run", "durable"} |-> "writable"]
  BY <1>1, <1>3 DEF MachineOf
<1>9. e.hasScratch /\ e.cacheOnScratch /\ e.stagingEnv /\ e.staged = {"model", "data"} /\ e.tokenizer
  BY <1>1, <1>3 DEF MachineOf
<1>10. e.template = [offEndsEmpty |-> TRUE, onEndsEmpty |-> FALSE, system |-> TRUE, singleTokens |-> TRUE]
  BY <1>1, <1>3 DEF MachineOf
<1>11. MachineIs(e, site)
  BY <1>1, <1>4 DEF MachineIs
<1>12. IsMachine(e)
  BY <1>2, <1>4, <1>6 DEF IsMachine
<1>13. CheckChatTemplate(e) = {}
  BY <1>5, <1>9, <1>10 DEF CheckChatTemplate, Of
<1>14. CheckPython(e) = {}
  BY <1>6 DEF CheckPython, Of
<1>15. CheckSingleNode(e) = {}
  BY <1>4 DEF CheckSingleNode, Of
<1>16. CheckStorage(e) = {} /\ CheckDurableDir(e) = {}
  BY <1>8, <1>9 DEF CheckStorage, CheckDurableDir, Of
<1>17. CheckPins(e) = {}
  BY <1>5 DEF CheckPins, Of
<1>18. CheckDriver(e) = {}
  BY <1>6 DEF CheckDriver, Of, Null
<1>19. CheckVllmEngine(e) = {}
  BY <1>5, <1>7 DEF CheckVllmEngine, Of
<1>20. PICK prof : prof = HwProfile(e)  OBVIOUS
<1>21. /\ prof.cc = cc /\ prof.arch \in e.wheelArchs /\ (prof.bf16 => cc = 90)
       /\ \/ cc = 90 /\ prof.backend = "FLASH_ATTN"
          \/ cc = 75 /\ prof.backend = "TRITON_ATTN"
  <2>1. CASE f.hw = "sm75"
    <3>1. prof = Profiles["sm75"] /\ cc = 75
      BY <1>3, <1>4, <1>20, <2>1 DEF HwProfile, Profiles
    <3>2. prof.cc = 75 /\ prof.arch = "sm_75" /\ ~prof.bf16 /\ prof.backend = "TRITON_ATTN"
      BY <3>1 DEF Profiles
    <3>. QED BY <1>6, <3>1, <3>2
  <2>2. CASE f.hw = "h100"
    <3>1. prof = Profiles["h100"] /\ cc = 90
      BY <1>3, <1>4, <1>20, <2>2 DEF HwProfile, Profiles
    <3>2. prof.cc = 90 /\ prof.arch = "sm_90" /\ prof.backend = "FLASH_ATTN"
      BY <3>1 DEF Profiles
    <3>. QED BY <1>6, <3>1, <3>2
  <2>. QED BY <1>2, <2>1, <2>2
<1>22. e.gpus # <<>> /\ e.gpus[1] = cc /\ \A i \in DOMAIN e.gpus : e.gpus[i] = cc
  BY <1>2, <1>4
<1>23. CheckGpu(e) = {}
  <2>1. \A i \in DOMAIN e.gpus : CheckCard(e, e.gpus[i]) = {}
    BY <1>20, <1>21, <1>22 DEF CheckCard, Of
  <2>2. ~(prof.bf16 /\ ~HasBf16(e.gpus[1]))
    <3>1. HasBf16(90)
      BY DEF HasBf16
    <3>. QED BY <1>21, <1>22, <3>1
  <2>3. UNION {CheckCard(e, e.gpus[i]) : i \in DOMAIN e.gpus} = {}
    BY <2>1
  <2>4. e.packages["torch"] # "broken"
    BY <1>5
  <2>5. PICK before :
          before = Of("torch CUDA runtime", ~e.cuda129) \cup Of("torch arch list", prof.arch \notin e.wheelArchs)
    OBVIOUS
  <2>6. before = {}
    BY <1>6, <1>21, <2>5 DEF Of
  <2>7. /\ Of("sdpa", ~e.sdpaKernel) = {} /\ Of("bf16", prof.bf16 /\ ~HasBf16(e.gpus[1])) = {}
        /\ Of("VLLM_USE_V2_MODEL_RUNNER", e.v2Runner \notin {NoValue, "", "0"}) = {}
    BY <1>7, <2>2 DEF Of
  <2>8. CheckGpu(e) = before \cup UNION {CheckCard(e, e.gpus[i]) : i \in DOMAIN e.gpus}
              \cup Of("sdpa", ~e.sdpaKernel) \cup Of("bf16", prof.bf16 /\ ~HasBf16(e.gpus[1]))
              \cup Of("VLLM_USE_V2_MODEL_RUNNER", e.v2Runner \notin {NoValue, "", "0"})
    BY <1>6, <1>20, <1>22, <2>4, <2>5 DEF CheckGpu
  <2>. QED BY <2>3, <2>6, <2>7, <2>8
<1>24. CheckAttentionBackend(e) = {}
  <2>1. \E j \in DOMAIN Supports(cc) : Supports(cc)[j] = prof.backend
    <3>1. CASE cc = 90
      <4>1. Supports(cc) = <<"FLASH_ATTN", "TRITON_ATTN">>
        BY <3>1 DEF Supports
      <4>. QED BY <1>21, <3>1, <4>1
    <3>2. CASE cc = 75
      <4>1. Supports(cc) = <<"TRITON_ATTN">>
        BY <3>2 DEF Supports
      <4>. QED BY <1>21, <3>2, <4>1
    <3>. QED BY <1>3, <3>1, <3>2
  <2>. QED BY <1>20, <1>22, <2>1 DEF CheckAttentionBackend, Of
<1>25. IsFit(e)
  BY <1>13, <1>14, <1>15, <1>16, <1>17, <1>18, <1>19, <1>23, <1>24 DEF IsFit
<1>. QED BY <1>11, <1>12, <1>25

\* The configuration of Kaggle lacks nothing that a layout, one GPU or a memory plan asks for.
LEMMA KaggleIs ==
    ASSUME NEW c, IsOfSite(c, "sm75", "plan_b_lora", "kaggle_t4")
    PROVE  /\ c.nGpus = 1 /\ c.tp = 1 /\ LayoutProblems(c) = {} /\ OneGpuProblems(c) = {} /\ MemoryPlanProblems(c) = {}
           /\ c.modelDtype = "fp32"
<1>1. /\ c.nGpus = 1 /\ c.tp = 1 /\ c.numCpusSet /\ c.objectStoreGb = 2 /\ c.agentWorkers \in {1, 2}
      /\ c.loaderWorkers = 0 /\ c.rewardWorkers = 2
  BY DEF IsOfSite, LayoutIs, Layout
<1>2. PlanIs(c, Lora("1e-5", "constant", TRUE))
  BY DEF IsOfSite, MemoryPlan
<1>3. /\ c.loraRank = 64 /\ c.loraMerge /\ c.strategy = "fsdp2" /\ c.lr = "1e-5" /\ c.schedule = "constant"
      /\ c.modelDtype = "fp32" /\ c.offload /\ c.saveLoraOnly
  BY <1>2 DEF PlanIs, Lora
<1>4. LayoutProblems(c) = {}
  BY <1>1 DEF IsOfSite, BodyIs, LayoutProblems, Of
<1>5. OneGpuProblems(c) = {}
  BY <1>1, <1>3 DEF IsOfSite, BodyIs, OneGpuProblems, Of
<1>6. MemoryPlanProblems(c) = {}
  BY <1>3 DEF MemoryPlanProblems, Of, Kind, PlanSchedules
<1>. QED BY <1>1, <1>3, <1>4, <1>5, <1>6

\* The one of Jarvis.
LEMMA JarvisIs ==
    ASSUME NEW c, IsOfSite(c, "h100", "plan_a_fullft_gpu", "h100_1gpu")
    PROVE  /\ c.nGpus = 1 /\ c.tp = 1 /\ LayoutProblems(c) = {} /\ OneGpuProblems(c) = {} /\ MemoryPlanProblems(c) = {}
           /\ c.modelDtype = "fp32"
<1>1. c.nGpus = 1 /\ c.tp = 1 /\ c.numCpusSet
  BY DEF IsOfSite, LayoutIs, Layout
<1>2. PlanIs(c, FullFt(FALSE))
  BY DEF IsOfSite, MemoryPlan
<1>3. c.loraRank = 0 /\ c.strategy = "fsdp2" /\ c.lr = "1e-6" /\ c.schedule = "constant" /\ c.modelDtype = "fp32"
  BY <1>2 DEF PlanIs, FullFt
<1>4. LayoutProblems(c) = {}
  BY <1>1 DEF IsOfSite, BodyIs, LayoutProblems, Of
<1>5. OneGpuProblems(c) = {}
  BY <1>1, <1>3 DEF IsOfSite, BodyIs, OneGpuProblems, Of
<1>6. MemoryPlanProblems(c) = {}
  BY <1>3 DEF MemoryPlanProblems, Of, Kind, PlanSchedules
<1>. QED BY <1>1, <1>3, <1>4, <1>5, <1>6

\* The one Ada composes, whatever the number of GPUs.
LEMMA AdaIs ==
    ASSUME NEW c, IsOfSite(c, "sm75", "plan_b_lora_calibrated", "nlp_4gpu")
    PROVE  /\ c.nGpus = 4 /\ c.tp = 4 /\ LayoutProblems(c) = {} /\ OneGpuProblems(c) = {} /\ MemoryPlanProblems(c) = {}
           /\ c.modelDtype = "fp32"
<1>1. c.nGpus = 4 /\ c.tp = 4 /\ c.numCpusSet /\ c.ncclDisabled
  BY DEF IsOfSite, LayoutIs, Layout
<1>2. PlanIs(c, Lora("5e-6", "cosine", TRUE))
  BY DEF IsOfSite, MemoryPlan
<1>3. c.loraRank = 64 /\ c.strategy = "fsdp2" /\ c.lr = "5e-6" /\ c.schedule = "cosine" /\ c.modelDtype = "fp32"
  BY <1>2 DEF PlanIs, Lora
<1>4. LayoutProblems(c) = {}
  BY <1>1 DEF IsOfSite, BodyIs, LayoutProblems, Of
<1>5. OneGpuProblems(c) = {}
  BY <1>1 DEF OneGpuProblems
<1>6. MemoryPlanProblems(c) = {}
  BY <1>3 DEF MemoryPlanProblems, Of, Kind, PlanSchedules
<1>. QED BY <1>1, <1>3, <1>4, <1>5, <1>6

\* The verdict on every site and arm.
THEOREM SitesAreAlwaysDecided ==
    ASSUME NEW site \in DOMAIN EnvFile, NEW arm \in DOMAIN Arm
    PROVE  SitesAreDecided(site, arm)
<1>1. PICK e : e = MachineOf(site)  OBVIOUS
<1>2. IsFit(e) /\ MachineIs(e, site)
  BY <1>1, MachinesAreFit
<1>3. PICK c : c = ConfigOf(site, arm)  OBVIOUS
<1>4. Preflight(e, c) = CheckConfig(e, c)
  BY <1>2, PreflightParts DEF IsFit
<1>5. site \in {"nlp_4gpu", "research_1gpu", "kaggle", "jarvis"}
  BY DEF EnvFile
<1>6. ASSUME NEW hw, NEW memory, NEW layout, IsOfSite(c, hw, memory, layout), e.hw = hw, hw \in {"sm75", "h100"},
             c.tp = c.nGpus, LayoutProblems(c) = {}, OneGpuProblems(c) = {}, MemoryPlanProblems(c) = {},
             c.modelDtype = "fp32", e.slurmGpus = e.visible, e.slurmGpus \in {1, 4}
      PROVE  CheckConfig(e, c) = IF e.slurmGpus = c.nGpus THEN {} ELSE {"MC_SLURM_GPUS", "CUDA_VISIBLE_DEVICES"}
  <2>1. HardwareProblems(c, e) = {}
    <3>1. CASE hw = "sm75"
      <4>1. /\ c.dtype = "float16" /\ c.actorDtype = "float16" /\ c.refDtype = "float16"
            /\ c.actorParam = "fp16" /\ c.refParam = "fp16"
        BY <1>6, <3>1 DEF IsOfSite
      <4>2. c.modelDtype = "fp32"
        BY <1>6
      <4>3. c.hwProfile = "sm75" /\ c.backend = "TRITON_ATTN" /\ c.attention = "sdpa" /\ ~c.removePadding
            /\ e.hw = "sm75"
        BY <1>6, <3>1 DEF IsOfSite
      <4>. QED BY <4>1, <4>2, <4>3 DEF HardwareProblems, Of
    <3>2. CASE hw = "h100"
      <4>1. <<c.actorParam, c.refParam, c.actorDtype, c.refDtype>> = <<"bf16", "bf16", "bfloat16", "bfloat16">>
        BY <1>6, <3>2 DEF IsOfSite
      <4>2. c.hwProfile = "h100" /\ c.dtype = "bfloat16" /\ c.backend = "FLASH_ATTN" /\ c.attention = "sdpa"
            /\ ~c.removePadding /\ e.hw = "h100"
        BY <1>6, <3>2 DEF IsOfSite
      <4>. QED BY <4>1, <4>2 DEF HardwareProblems, Of
    <3>. QED BY <1>6, <3>1, <3>2
  <2>2. BudgetProblems(c) = {} /\ RecipeProblems(c) = {} /\ BatchingProblems(c) = {} /\ ResumeProblems(c) = {}
    BY <1>6, SitesNameNoProblem
  <2>3. c.nnodes = 1
    BY <1>6 DEF IsOfSite, BodyIs
  <2>4. ReplicaProblems(c, e) = IF e.slurmGpus = c.nGpus THEN {} ELSE {"MC_SLURM_GPUS"}
    BY <1>6, <2>3 DEF ReplicaProblems, Of, Null
  <2>5. Check(c, e) = IF e.slurmGpus = c.nGpus THEN {} ELSE {"MC_SLURM_GPUS"}
    BY <1>6, <2>1, <2>2, <2>4, CheckParts
  <2>. QED BY <1>6, <2>5 DEF CheckConfig, Of, Null
<1>7. CASE site = "kaggle"
  <2>1. IsOfSite(c, "sm75", "plan_b_lora", "kaggle_t4")
    BY <1>3, <1>7, ComposedIsOfSite DEF ConfigOf, EnvFile, Hardware, Layout, MemoryPlan
  <2>2. e.hw = "sm75" /\ e.slurmGpus = 1 /\ e.visible = 1
    BY <1>2, <1>7 DEF MachineIs, EnvFile
  <2>. QED BY <1>1, <1>3, <1>4, <1>6, <1>7, <2>1, <2>2, KaggleIs DEF SitesAreDecided
<1>8. CASE site = "jarvis"
  <2>1. IsOfSite(c, "h100", "plan_a_fullft_gpu", "h100_1gpu")
    BY <1>3, <1>8, ComposedIsOfSite DEF ConfigOf, EnvFile, Hardware, Layout, MemoryPlan
  <2>2. e.hw = "h100" /\ e.slurmGpus = 1 /\ e.visible = 1
    BY <1>2, <1>8 DEF MachineIs, EnvFile
  <2>. QED BY <1>1, <1>3, <1>4, <1>6, <1>8, <2>1, <2>2, JarvisIs DEF SitesAreDecided
<1>9. CASE site = "nlp_4gpu"
  <2>1. IsOfSite(c, "sm75", "plan_b_lora_calibrated", "nlp_4gpu")
    BY <1>3, <1>9, ComposedIsOfSite DEF ConfigOf, EnvFile, Hardware, Layout, MemoryPlan
  <2>2. e.hw = "sm75" /\ e.slurmGpus = 4 /\ e.visible = 4
    BY <1>2, <1>9 DEF MachineIs, EnvFile
  <2>. QED BY <1>1, <1>3, <1>4, <1>6, <1>9, <2>1, <2>2, AdaIs DEF SitesAreDecided
<1>10. CASE site = "research_1gpu"
  <2>1. IsOfSite(c, "sm75", "plan_b_lora_calibrated", "nlp_4gpu")
    BY <1>3, <1>10, ComposedIsOfSite DEF ConfigOf, EnvFile, Hardware, Layout, MemoryPlan
  <2>2. e.hw = "sm75" /\ e.slurmGpus = 1 /\ e.visible = 1
    BY <1>2, <1>10 DEF MachineIs, EnvFile
  <2>. QED BY <1>1, <1>3, <1>4, <1>6, <1>10, <2>1, <2>2, AdaIs DEF SitesAreDecided
<1>. QED BY <1>5, <1>7, <1>8, <1>9, <1>10

\* The leaves acceptance is judged by, as those of a configuration are that is changed in any of
\* the ways of OtherValues.
NumberLeaves == {"nStd", "nCuts", "groupSize", "rolloutN", "maxPrompt", "maxResponse", "maxModelLen", "budget"}
\* They stay numbers.
LEMMA DeviationsAreConfigs ==
    ASSUME NEW r, IsConfig(r), NumberLeaves \subseteq DOMAIN r, NEW d \in Deviations(r, OtherValues)
    PROVE  IsConfig(d) /\ NumberLeaves \subseteq DOMAIN d
<1>1. CASE d = r
  BY <1>1
<1>2. CASE d # r
  <2>1. PICK f \in DOMAIN OtherValues : \E v \in OtherValues[f] : d = [r EXCEPT ![f] = v]
    BY <1>2 DEF Deviations
  <2>2. PICK v \in OtherValues[f] : d = [r EXCEPT ![f] = v]
    BY <2>1
  <2>3. DOMAIN d = DOMAIN r /\ \A x \in NumberLeaves : d[x] = IF f = x THEN v ELSE r[x]
    BY <2>2
  <2>4. /\ OtherValues["groupSize"] \subseteq Int /\ OtherValues["nStd"] \subseteq Nat
        /\ OtherValues["nCuts"] \subseteq Nat /\ OtherValues["rolloutN"] \subseteq Nat \ {0}
        /\ OtherValues["maxResponse"] \subseteq Int
    BY DEF OtherValues, Null
  <2>5. "maxPrompt" \notin DOMAIN OtherValues /\ "maxModelLen" \notin DOMAIN OtherValues
    BY DEF OtherValues
  <2>6. \A b \in OtherValues["budget"] : \A g \in Engines : b[g] \in Int
    BY DEF OtherValues
  <2>7. d.groupSize \in Int /\ d.nStd \in Nat /\ d.nCuts \in Nat /\ d.maxResponse \in Int
    BY <2>3, <2>4 DEF IsConfig, NumberLeaves
  <2>8. d.rolloutN \in Nat \ {0}
    BY <2>3, <2>4 DEF IsConfig, NumberLeaves
  <2>9. d.maxPrompt \in Int /\ d.maxModelLen \in Int
    BY <2>3, <2>5 DEF IsConfig, NumberLeaves
  <2>10. \A g \in Engines : d.budget[g] \in Int
    BY <2>3, <2>6 DEF IsConfig, NumberLeaves
  <2>11. IsConfig(d)
    BY <2>7, <2>8, <2>9, <2>10 DEF IsConfig
  <2>. QED BY <2>3, <2>11
<1>. QED BY <1>1, <1>2

\* A machine that is changed in any of the ways of OtherMachine is a machine.
LEMMA DeviationsAreMachines ==
    ASSUME NEW e, IsMachine(e), {"gpus", "procDriver", "smiDriver", "minDriver"} \subseteq DOMAIN e,
           NEW d \in Deviations(e, OtherMachine)
    PROVE  IsMachine(d)
<1>1. CASE d = e
  BY <1>1
<1>2. CASE d # e
  <2>1. PICK f \in DOMAIN OtherMachine : \E v \in OtherMachine[f] : d = [e EXCEPT ![f] = v]
    BY <1>2 DEF Deviations
  <2>2. PICK v \in OtherMachine[f] : d = [e EXCEPT ![f] = v]
    BY <2>1
  <2>3. \A x \in {"gpus", "procDriver", "smiDriver", "minDriver"} : d[x] = IF f = x THEN v ELSE e[x]
    BY <2>2
  <2>4. OtherMachine["procDriver"] \subseteq Int /\ OtherMachine["smiDriver"] \subseteq Int
    <3>1. OtherMachine["procDriver"] = {Null, 390, 580} /\ OtherMachine["smiDriver"] = {Null, 390}
      BY DEF OtherMachine
    <3>. QED BY <3>1 DEF Null
  <2>5. "minDriver" \notin DOMAIN OtherMachine
    BY DEF OtherMachine
  <2>6. OtherMachine["gpus"] \subseteq Seq(Int)
    <3>1. /\ <<61>> \in Seq(Int) /\ <<75>> \in Seq(Int) /\ <<80>> \in Seq(Int) /\ <<90>> \in Seq(Int)
          /\ <<90, 75>> \in Seq(Int) /\ <<80, 61>> \in Seq(Int) /\ <<75, 75, 75, 75>> \in Seq(Int) /\ <<>> \in Seq(Int)
      OBVIOUS
    <3>2. OtherMachine["gpus"] = {<<61>>, <<75>>, <<80>>, <<90>>, <<90, 75>>, <<80, 61>>, <<75, 75, 75, 75>>, <<>>}
      BY DEF OtherMachine
    <3>. QED BY <3>1, <3>2
  <2>. QED BY <2>3, <2>4, <2>5, <2>6 DEF IsMachine
<1>. QED BY <1>1, <1>2

\* The configurations of the sites are such configurations.
LEMMA SitesAreConfigs ==
    ASSUME NEW site \in DOMAIN EnvFile, NEW arm \in DOMAIN Arm
    PROVE  IsConfig(ConfigOf(site, arm)) /\ NumberLeaves \subseteq DOMAIN ConfigOf(site, arm)
<1>1. PICK hw, memory, layout : hw = EnvFile[site].hw /\ memory = EnvFile[site].memory /\ layout = EnvFile[site].layout
  OBVIOUS
<1>2. hw \in DOMAIN Hardware /\ memory \in DOMAIN MemoryPlan /\ layout \in DOMAIN Layout
  BY <1>1 DEF EnvFile, Hardware, MemoryPlan, Layout
<1>3. PICK c : c = ConfigOf(site, arm)  OBVIOUS
<1>4. c = Compose(arm, layout, memory, hw)
  BY <1>1, <1>3 DEF ConfigOf
<1>5. PICK m : m = Merged(arm, layout, memory, hw)  OBVIOUS
<1>6. IsOfSite(c, hw, memory, layout) /\ ComposedIs(c, m)
  BY <1>2, <1>4, <1>5, ComposedIsOfSite, ComposeResolves
<1>7. IsConfig(c)
  BY <1>6 DEF IsOfSite, ArmIs, IsConfig
<1>8. NumberLeaves \subseteq DOMAIN c
  <2>1. NumberLeaves \subseteq DOMAIN Body
    BY DEF NumberLeaves, Body
  <2>. QED BY <1>5, <1>6, <2>1, LayersAreIn DEF ComposedIs
<1>. QED BY <1>3, <1>7, <1>8

\* What has been taken.
PreflightInv ==
    /\ Named
    /\ input.of = "preflight" =>
         /\ input.site \in DOMAIN EnvFile /\ input.arm \in DOMAIN Arm
         /\ IsMachine(input.e) /\ IsConfig(input.c)
\* Whatever is taken is such an environment and configuration.
LEMMA PreflightKeeps ==
    ASSUME PreflightInv, Next
    PROVE  PreflightInv'
<1>1. Named'
  BY StepsByName DEF PreflightInv
<1>2. ASSUME input'.of = "preflight"
      PROVE  /\ input'.site \in DOMAIN EnvFile /\ input'.arm \in DOMAIN Arm
             /\ IsMachine(input'.e) /\ IsConfig(input'.c)
  <2>1. TakePreflight
    BY <1>2, StepsByName DEF PreflightInv
  <2>2. PICK site \in DOMAIN EnvFile, arm \in DOMAIN Arm :
          \E c \in UNION {Deviations(x, OtherValues) : x \in Deviations(ConfigOf(site, arm), OtherValues)},
             e \in Deviations(MachineOf(site), OtherMachine) :
              input' = [of |-> "preflight", site |-> site, arm |-> arm, e |-> e, c |-> c]
    BY <2>1 DEF TakePreflight
  <2>3. PICK c \in UNION {Deviations(x, OtherValues) : x \in Deviations(ConfigOf(site, arm), OtherValues)},
             e \in Deviations(MachineOf(site), OtherMachine) :
              input' = [of |-> "preflight", site |-> site, arm |-> arm, e |-> e, c |-> c]
    BY <2>2
  <2>4. input'.site = site /\ input'.arm = arm /\ input'.e = e /\ input'.c = c
    BY <2>3
  <2>5. PICK x \in Deviations(ConfigOf(site, arm), OtherValues) : c \in Deviations(x, OtherValues)  OBVIOUS
  <2>6. IsConfig(x) /\ NumberLeaves \subseteq DOMAIN x
    BY SitesAreConfigs, DeviationsAreConfigs
  <2>7. IsConfig(c)
    BY <2>5, <2>6, DeviationsAreConfigs
  <2>8. PICK m : m = MachineOf(site)  OBVIOUS
  <2>9. IsMachine(m)
    BY <2>8, MachinesAreFit
  <2>10. {"gpus", "procDriver", "smiDriver", "minDriver"} \subseteq DOMAIN m
    BY <2>8 DEF MachineOf
  <2>11. IsMachine(e)
    BY <2>8, <2>9, <2>10, DeviationsAreMachines
  <2>. QED BY <2>4, <2>7, <2>11
<1>. QED BY <1>1, <1>2 DEF PreflightInv

\* The preflight's verdict: a site's own configuration passes on its own machine, but for the one
\* layout that Ada's one-GPU file does not name, and what passes of the changed ones runs.
THEOREM PreflightIsAlwaysRight == Spec => []PreflightIsRight
<1>1. Init => PreflightInv
  BY NamedInit DEF PreflightInv
<1>2. ASSUME PreflightInv, UNCHANGED input PROVE PreflightInv'
  BY <1>2 DEF PreflightInv, Named
<1>3. PreflightInv /\ [Next]_input => PreflightInv'
  BY <1>2, PreflightKeeps
<1>4. ASSUME PreflightInv PROVE PreflightIsRight
  <2>1. ASSUME input.of = "preflight"
        PROVE  SitesAreDecided(input.site, input.arm) /\ AcceptedRuns(input.e, input.c)
    <3>1. PICK site \in DOMAIN EnvFile, arm \in DOMAIN Arm : site = input.site /\ arm = input.arm
      BY <1>4, <2>1 DEF PreflightInv
    <3>2. SitesAreDecided(site, arm)
      BY SitesAreAlwaysDecided
    <3>3. IsMachine(input.e) /\ IsConfig(input.c)
      BY <1>4, <2>1 DEF PreflightInv
    <3>4. AcceptedRuns(input.e, input.c)
      BY <3>3, AcceptedRunsAnywhere
    <3>. QED BY <3>1, <3>2, <3>4
  <2>. QED BY <2>1 DEF PreflightIsRight
<1>5. PreflightInv => PreflightIsRight
  BY <1>4
<1>. QED BY <1>1, <1>3, <1>5, PTL DEF Spec

-----------------------------------------------------------------------------
(* The stability watch and what a resume rebuilds of it.                     *)

\* Metrics whose entropy is not exactly 0, lines of the log, the state of a watch.
Measured == [grad : Int, entropy : Int \ {0}, kl : Int]
LogLines == [step : Nat \ {0}, m : Measured]
Watches == [grads : Seq(Int), ref : Int, low : Int, streak : Nat]

\* A configuration that does not stop at the first bad step, as the default does not.
IsWatchCfg(cfg) ==
    /\ cfg.history \in Nat \ {0} /\ cfg.patience \in Nat /\ cfg.patience >= 2 /\ ~cfg.abortOnNan
    /\ cfg.klMax \in Int /\ cfg.rise \in Nat /\ cfg.riseAfter \in Int

\* The grad norms stay a sequence.
LEMMA PushKeeps ==
    ASSUME NEW cfg, IsWatchCfg(cfg), NEW s \in Seq(Int), NEW g \in Int
    PROVE  Watch!PushGradNorm(cfg, s, g) \in Seq(Int)
<1>1. CASE Len(s) = cfg.history
  <2>1. s # <<>>
    BY <1>1 DEF IsWatchCfg
  <2>2. Tail(s) \in Seq(Int)
    BY <2>1
  <2>3. Append(Tail(s), g) \in Seq(Int)
    BY <2>2
  <2>. QED BY <1>1, <2>3 DEF Watch!PushGradNorm
<1>2. CASE Len(s) # cfg.history
  <2>1. Append(s, g) \in Seq(Int)  OBVIOUS
  <2>. QED BY <1>2, <2>1 DEF Watch!PushGradNorm
<1>. QED BY <1>1, <1>2

\* What a line adds to a watch.
LEMMA LineIsRead ==
    ASSUME NEW cfg, IsWatchCfg(cfg), NEW w \in Watches, NEW r \in LogLines
    PROVE  LET v == Watch!ReadLine(cfg, w, r) IN
           /\ v \in Watches /\ v.streak = w.streak
           /\ v.grads = IF Watch!Good(r.m.grad) THEN Watch!PushGradNorm(cfg, w.grads, r.m.grad) ELSE w.grads
           /\ v.low = IF Watch!Good(r.m.entropy) THEN Watch!Lower(w.low, r.m.entropy) ELSE w.low
           /\ v.ref = IF r.step = 1 /\ Watch!Good(r.m.entropy) THEN r.m.entropy ELSE w.ref
<1>1. PICK g \in Int, e \in Int : g = r.m.grad /\ e = r.m.entropy
  BY DEF LogLines, Measured
<1>2. /\ w = [grads |-> w.grads, ref |-> w.ref, low |-> w.low, streak |-> w.streak]
      /\ w.grads \in Seq(Int) /\ w.ref \in Int /\ w.low \in Int /\ w.streak \in Nat
  BY DEF Watches
<1>3. PICK gs \in Seq(Int) :
        gs = IF Watch!Good(r.m.grad) THEN Watch!PushGradNorm(cfg, w.grads, r.m.grad) ELSE w.grads
  <2>1. Watch!PushGradNorm(cfg, w.grads, r.m.grad) \in Seq(Int)
    BY <1>1, <1>2, PushKeeps
  <2>. QED BY <1>2, <2>1
<1>4. PICK low \in Int : low = IF Watch!Good(r.m.entropy) THEN Watch!Lower(w.low, r.m.entropy) ELSE w.low
  BY <1>1, <1>2 DEF Watch!Lower
<1>5. PICK ref \in Int : ref = IF r.step = 1 /\ Watch!Good(r.m.entropy) THEN r.m.entropy ELSE w.ref
  BY <1>1, <1>2
<1>6. Watch!ReadLine(cfg, w, r) = [grads |-> gs, ref |-> ref, low |-> low, streak |-> w.streak]
  <2>1. Watch!ReadLine(cfg, w, r) = [w EXCEPT !.grads = gs, !.low = low, !.ref = ref]
    BY <1>3, <1>4, <1>5 DEF Watch!ReadLine
  <2>2. PICK a, b, c, d : a = w.grads /\ b = w.ref /\ c = w.low /\ d = w.streak  OBVIOUS
  <2>3. w = [grads |-> a, ref |-> b, low |-> c, streak |-> d]
    BY <1>2, <2>2
  <2>. QED BY <2>1, <2>2, <2>3
<1>. QED BY <1>2, <1>3, <1>4, <1>5, <1>6 DEF Watches

IsReading(g, cfg, log, ord, D) ==
    g = [T \in SUBSET D |->
           IF T = {} THEN Watch!NewWatch ELSE Watch!ReadLine(cfg, g[T \ {Max(T)}], log[ord[Max(T)]])]

\* The loop as a fold.
LEMMA RebuildIsFold ==
    ASSUME NEW cfg, NEW log, NEW ord, ord = Watch!ReadOrder(log)
    PROVE  Watch!Rebuild(cfg, log) = (CHOOSE g : IsReading(g, cfg, log, ord, DOMAIN ord))[DOMAIN ord]
BY DEF Watch!Rebuild, Watch!FoldLeft, Watch!MapThenFoldSet, Watch!Max, Max, IsReading

IsOfLog(log, n) == log \in Seq(LogLines) /\ Len(log) = n
\* p reads the lines one by one.
ReadsOn(p, cfg, log, ord, n) ==
    /\ p[0] = Watch!NewWatch /\ \A k \in 0 .. n : p[k] \in Watches
    /\ \A k \in Nat : k + 1 <= n => p[k + 1] = Watch!ReadLine(cfg, p[k], log[ord[k + 1]])

\* What a resume rebuilds comes about line by line.
LEMMA RebuildSteps ==
    ASSUME NEW cfg, IsWatchCfg(cfg), NEW n \in Nat, NEW log, IsOfLog(log, n),
           NEW ord \in [1 .. n -> 1 .. n], ord = Watch!ReadOrder(log)
    PROVE  \E p : ReadsOn(p, cfg, log, ord, n) /\ p[n] = Watch!Rebuild(cfg, log)
<1>1. DOMAIN ord = 1 .. n /\ \A i \in 1 .. n : log[ord[i]] \in LogLines
  BY DEF IsOfLog
<1>2. Watch!NewWatch \in Watches
  <2>1. <<>> \in Seq(Int) /\ -1 \in Int /\ 0 \in Nat  OBVIOUS
  <2>. QED BY <2>1 DEF Watch!NewWatch, Watches, Watch!Absent
<1>3. PICK F : F = [x \in Watches \X (1 .. n) |-> Watch!ReadLine(cfg, x[1], log[ord[x[2]]])]  OBVIOUS
<1>4. ASSUME NEW w \in Watches, NEW i \in 1 .. n
      PROVE  F[<<w, i>>] = Watch!ReadLine(cfg, w, log[ord[i]]) /\ F[<<w, i>>] \in Watches
  <2>1. F[<<w, i>>] = Watch!ReadLine(cfg, w, log[ord[i]])
    BY <1>3
  <2>2. Watch!ReadLine(cfg, w, log[ord[i]]) \in Watches
    BY <1>1, LineIsRead
  <2>. QED BY <2>1, <2>2
<1>5. F \in [Watches \X (1 .. n) -> Watches]
  BY <1>3, <1>4
<1>6. PICK h : IsFold(h, F, Watch!NewWatch, n, Watches)
  BY <1>2, <1>5, FoldsExist
<1>7. h = [T \in SUBSET (1 .. n) |-> h[T]] /\ h[{}] = Watch!NewWatch
  BY <1>6 DEF IsFold
<1>8. ASSUME NEW T \in SUBSET (1 .. n)
      PROVE  h[T] = IF T = {} THEN Watch!NewWatch ELSE Watch!ReadLine(cfg, h[T \ {Max(T)}], log[ord[Max(T)]])
  <2>1. CASE T # {}
    <3>1. FoldsOn(h, F, T, n, Watches)
      BY <1>6, <2>1, FoldAt
    <3>. QED BY <1>4, <2>1, <3>1 DEF FoldsOn
  <2>. QED BY <1>7, <2>1
<1>9. IsReading(h, cfg, log, ord, 1 .. n)
  BY <1>7, <1>8 DEF IsReading
<1>10. PICK g : g = CHOOSE f : IsReading(f, cfg, log, ord, DOMAIN ord)  OBVIOUS
<1>11. IsReading(g, cfg, log, ord, 1 .. n)
  BY <1>1, <1>9, <1>10
<1>12. IsFolded(g, F, Watch!NewWatch, n, Watches)
  <2>1. ASSUME NEW T \in SUBSET (1 .. n), T # {}, g[T \ {Max(T)}] \in Watches
        PROVE  g[T] = F[<<g[T \ {Max(T)}], Max(T)>>]
    <3>1. Max(T) \in 1 .. n
      BY <2>1, MaxOfPart
    <3>. QED BY <1>4, <1>11, <2>1, <3>1 DEF IsReading
  <2>2. g[{}] = Watch!NewWatch
    BY <1>11 DEF IsReading
  <2>. QED BY <2>1, <2>2 DEF IsFolded
<1>13. PICK p : IsSteps(p, F, Watch!NewWatch, n, Watches, g[1 .. n])
  BY <1>2, <1>5, <1>12, FoldsAreSteps
<1>14. ASSUME NEW k \in Nat, k + 1 <= n PROVE p[k + 1] = Watch!ReadLine(cfg, p[k], log[ord[k + 1]])
  <2>1. k \in 0 .. n /\ k + 1 \in 1 .. n
    BY <1>14
  <2>2. p[k] \in Watches /\ p[k + 1] = F[<<p[k], k + 1>>]
    BY <1>13, <1>14, <2>1 DEF IsSteps
  <2>. QED BY <1>4, <2>1, <2>2
<1>15. p[n] = Watch!Rebuild(cfg, log)
  <2>1. Watch!Rebuild(cfg, log) = (CHOOSE f : IsReading(f, cfg, log, ord, DOMAIN ord))[DOMAIN ord]
    BY RebuildIsFold
  <2>. QED BY <1>1, <1>10, <1>13, <2>1 DEF IsSteps
<1>16. ReadsOn(p, cfg, log, ord, n)
  BY <1>13, <1>14 DEF ReadsOn, IsSteps
<1>. QED BY <1>15, <1>16

\* The entropies of lines; low is the lowest of them that is there, if one is.
Entropies(log) == {log[i].m.entropy : i \in DOMAIN log}
IsLowest(low, E) ==
    \/ low = Watch!Absent /\ \A e \in E : ~Watch!Good(e)
    \/ low \in E /\ Watch!Good(low) /\ \A e \in E : Watch!Good(e) => low <= e

\* One entropy more.
LEMMA LowestOfMore ==
    ASSUME NEW E \in SUBSET Int, NEW low \in Int, IsLowest(low, E), NEW e \in Int
    PROVE  IsLowest(IF Watch!Good(e) THEN Watch!Lower(low, e) ELSE low, E \cup {e})
<1>. USE DEF IsLowest, Watch!Good, Watch!Absent, Watch!Lower
<1>1. CASE ~Watch!Good(e)
  BY <1>1
<1>2. CASE Watch!Good(e) /\ low = Watch!Absent
  <2>1. \A x \in E : ~(x >= 0)
    BY <1>2
  <2>. QED BY <1>2, <2>1
<1>3. CASE Watch!Good(e) /\ low # Watch!Absent
  <2>1. low \in E /\ low >= 0 /\ \A x \in E : x >= 0 => low <= x
    BY <1>3
  <2>2. CASE e < low
    BY <1>3, <2>1, <2>2
  <2>3. CASE ~(e < low)
    BY <1>3, <2>1, <2>3
  <2>. QED BY <2>2, <2>3
<1>. QED BY <1>1, <1>2, <1>3

Alerts == {"nan", "spike", "collapse", "drift"}
\* What a check says, and what it makes of the watch.
IsCheck(c, cfg, w, m, step) ==
    /\ c.watch \in Watches
    /\ c.watch.grads = IF Watch!Good(m.grad) THEN Watch!PushGradNorm(cfg, w.grads, m.grad) ELSE w.grads
    /\ c.watch.low = IF Watch!Good(m.entropy) THEN Watch!Lower(w.low, m.entropy) ELSE w.low
    /\ c.watch.ref = IF Watch!Good(m.entropy) /\ Watch!NewReference(w, m, step) THEN m.entropy ELSE w.ref
    /\ c.raises => w.streak > 0
    /\ c.alerts \in SUBSET Alerts
    /\ "nan" \in c.alerts <=> Watch!Bad \in {m.grad, m.entropy, m.kl}
    /\ "spike" \in c.alerts <=> Watch!GradSpikes(cfg, w, m)
    /\ "collapse" \in c.alerts <=> Watch!EntropyCollapses(cfg, w, m, step)
    /\ "drift" \in c.alerts <=> Watch!Drifts(cfg, w, m, step)

\* A check is one.
LEMMA CheckIs ==
    ASSUME NEW cfg, IsWatchCfg(cfg), NEW w \in Watches, NEW m \in Measured, NEW step \in Nat \ {0}
    PROVE  IsCheck(Watch!Check(cfg, w, m, step), cfg, w, m, step)
<1>1. PICK g \in Int, e \in Int : g = m.grad /\ e = m.entropy
  BY DEF Measured
<1>2. w.grads \in Seq(Int) /\ w.ref \in Int /\ w.low \in Int /\ w.streak \in Nat
  BY DEF Watches
<1>3. PICK gs \in Seq(Int) :
        gs = IF Watch!Good(m.grad) THEN Watch!PushGradNorm(cfg, w.grads, m.grad) ELSE w.grads
  <2>1. Watch!PushGradNorm(cfg, w.grads, m.grad) \in Seq(Int)
    BY <1>1, <1>2, PushKeeps
  <2>. QED BY <1>2, <2>1
<1>4. PICK low \in Int : low = IF Watch!Good(m.entropy) THEN Watch!Lower(w.low, m.entropy) ELSE w.low
  BY <1>1, <1>2 DEF Watch!Lower
<1>5. PICK ref \in Int :
        ref = IF Watch!Good(m.entropy) /\ Watch!NewReference(w, m, step) THEN m.entropy ELSE w.ref
  BY <1>1, <1>2
<1>6. PICK streak \in Nat : streak = IF Watch!Drifts(cfg, w, m, step) THEN w.streak + 1 ELSE 0
  BY <1>2
<1>7. PICK v : v = [grads |-> gs, ref |-> ref, low |-> low, streak |-> streak]  OBVIOUS
<1>8. PICK A : A = {a \in Alerts :
                        \/ a = "nan" /\ Watch!Bad \in {m.grad, m.entropy, m.kl}
                        \/ a = "spike" /\ Watch!GradSpikes(cfg, w, m)
                        \/ a = "collapse" /\ Watch!EntropyCollapses(cfg, w, m, step)
                        \/ a = "drift" /\ Watch!Drifts(cfg, w, m, step)}
  OBVIOUS
<1>9. PICK R : R = (\/ Watch!Bad \in {m.grad, m.entropy, m.kl} /\ cfg.abortOnNan
                    \/ cfg.abortOnDivergence /\ streak >= cfg.patience)
  OBVIOUS
<1>10. Watch!Check(cfg, w, m, step) = [alerts |-> A, raises |-> R, watch |-> v]
  BY <1>3, <1>4, <1>5, <1>6, <1>7, <1>8, <1>9 DEF Watch!Check, Alerts
<1>11. v \in Watches
  BY <1>7 DEF Watches
<1>12. R => w.streak > 0
  <2>1. R => streak >= cfg.patience
    BY <1>9 DEF IsWatchCfg
  <2>2. streak >= cfg.patience => w.streak > 0
    BY <1>2, <1>6 DEF IsWatchCfg
  <2>. QED BY <2>1, <2>2
<1>13. /\ A \in SUBSET Alerts
       /\ "nan" \in A <=> Watch!Bad \in {m.grad, m.entropy, m.kl}
       /\ "spike" \in A <=> Watch!GradSpikes(cfg, w, m)
       /\ "collapse" \in A <=> Watch!EntropyCollapses(cfg, w, m, step)
       /\ "drift" \in A <=> Watch!Drifts(cfg, w, m, step)
  BY <1>8 DEF Alerts
<1>14. PICK c : c = Watch!Check(cfg, w, m, step)  OBVIOUS
<1>15. c.alerts = A /\ c.watch = v
  BY <1>10, <1>14
<1>16. c.raises = R
  BY <1>10, <1>14
<1>17. c.raises => w.streak > 0
  BY <1>12, <1>16
<1>18. v.grads = gs /\ v.low = low /\ v.ref = ref
  BY <1>7
<1>. QED BY <1>3, <1>4, <1>5, <1>11, <1>13, <1>14, <1>15, <1>17, <1>18 DEF IsCheck

\* u is what one process says at each of the first n steps.
NothingSaid == [watch |-> Watch!NewWatch, alerts |-> {}, raises |-> FALSE]
IsTrace(u, cfg, kept, n) ==
    /\ u[0] = NothingSaid
    /\ \A k \in Nat : k + 1 <= n => u[k + 1] = Watch!Check(cfg, u[k].watch, kept[k + 1], k + 1)

\* What its watch then holds.
TraceAt(u, kept, k) ==
    /\ u[k].watch \in Watches
    /\ IsLowest(u[k].watch.low, {kept[i].entropy : i \in 1 .. k})
    /\ k >= 1 /\ Watch!Good(kept[1].entropy) => u[k].watch.ref = kept[1].entropy

\* Before any step.
LEMMA NewIsWatch == Watch!NewWatch \in Watches /\ Watch!NewWatch.low = Watch!Absent /\ Watch!NewWatch.streak = 0
<1>1. <<>> \in Seq(Int) /\ -1 \in Int /\ 0 \in Nat  OBVIOUS
<1>. QED BY <1>1 DEF Watch!NewWatch, Watches, Watch!Absent

\* At every step.
LEMMA Traced ==
    ASSUME NEW cfg, IsWatchCfg(cfg), NEW kept \in Seq(Measured), NEW n \in Nat, n <= Len(kept),
           NEW u, IsTrace(u, cfg, kept, n), NEW k0 \in Nat, k0 <= n
    PROVE  TraceAt(u, kept, k0)
<1>. DEFINE G == {k \in Nat : k <= n => TraceAt(u, kept, k)}
<1>1. 0 \in G
  <2>1. u[0].watch = Watch!NewWatch
    BY DEF IsTrace, NothingSaid
  <2>2. IsLowest(u[0].watch.low, {kept[i].entropy : i \in 1 .. 0})
    BY <2>1, NewIsWatch DEF IsLowest
  <2>. QED BY <2>1, <2>2, NewIsWatch DEF TraceAt
<1>2. ASSUME NEW k \in Nat, k \in G PROVE k + 1 \in G
  <2>1. ASSUME k + 1 <= n PROVE TraceAt(u, kept, k + 1)
    <3>1. TraceAt(u, kept, k)
      BY <1>2, <2>1
    <3>2. PICK w \in Watches : w = u[k].watch
      BY <3>1 DEF TraceAt
    <3>3. k + 1 \in DOMAIN kept /\ k + 1 \in Nat \ {0}
      BY <2>1
    <3>4. PICK m \in Measured : m = kept[k + 1]
      BY <3>3
    <3>5. PICK e \in Int : e = m.entropy
      BY DEF Measured
    <3>6. u[k + 1] = Watch!Check(cfg, w, m, k + 1)
      BY <2>1, <3>2, <3>4 DEF IsTrace
    <3>7. IsCheck(u[k + 1], cfg, w, m, k + 1)
      BY <3>3, <3>6, CheckIs
    <3>8. PICK v \in Watches : v = u[k + 1].watch
      BY <3>7 DEF IsCheck
    <3>9. PICK E \in SUBSET Int : E = {kept[i].entropy : i \in 1 .. k}
      <4>1. ASSUME NEW i \in 1 .. k PROVE kept[i].entropy \in Int
        <5>1. i \in DOMAIN kept
          BY <2>1
        <5>2. kept[i] \in Measured
          BY <5>1
        <5>. QED BY <5>2 DEF Measured
      <4>. QED BY <4>1
    <3>10. {kept[i].entropy : i \in 1 .. k + 1} = E \cup {e}
      <4>1. 1 .. k + 1 = (1 .. k) \cup {k + 1}  OBVIOUS
      <4>. QED BY <3>4, <3>5, <3>9, <4>1
    <3>11. w.low \in Int /\ IsLowest(w.low, E)
      BY <3>1, <3>2, <3>9 DEF TraceAt, Watches
    <3>12. v.low = IF Watch!Good(e) THEN Watch!Lower(w.low, e) ELSE w.low
      BY <3>5, <3>7, <3>8 DEF IsCheck
    <3>13. IsLowest(v.low, E \cup {e})
      BY <3>11, <3>12, LowestOfMore
    <3>14. ASSUME Watch!Good(kept[1].entropy) PROVE v.ref = kept[1].entropy
      <4>1. v.ref = IF Watch!Good(m.entropy) /\ Watch!NewReference(w, m, k + 1) THEN m.entropy ELSE w.ref
        BY <3>7, <3>8 DEF IsCheck
      <4>2. CASE k = 0
        <5>1. k + 1 = 1
          BY <4>2
        <5>2. m = kept[1] /\ Watch!NewReference(w, m, k + 1)
          BY <3>4, <5>1 DEF Watch!NewReference
        <5>. QED BY <3>14, <4>1, <5>2
      <4>3. CASE k # 0
        <5>1. w.ref = kept[1].entropy
          BY <3>1, <3>2, <3>14, <4>3 DEF TraceAt
        <5>2. k + 1 # 1 /\ w.ref # Watch!Absent
          BY <3>14, <4>3, <5>1 DEF Watch!Good, Watch!Absent
        <5>. QED BY <4>1, <5>1, <5>2 DEF Watch!NewReference
      <4>. QED BY <4>2, <4>3
    <3>. QED BY <3>8, <3>10, <3>13, <3>14 DEF TraceAt
  <2>2. k + 1 \in Nat  OBVIOUS
  <2>. QED BY <2>1, <2>2
<1>3. Nat \subseteq G
  <2>. HIDE DEF G
  <2>. QED BY <1>1, <1>2, NaturalSteps
<1>. QED BY <1>3

\* There is one trace only.
LEMMA TracesAgree ==
    ASSUME NEW cfg, NEW kept, NEW n \in Nat, NEW u, IsTrace(u, cfg, kept, n), NEW v, IsTrace(v, cfg, kept, n)
    PROVE  u[n] = v[n]
<1>. DEFINE G == {k \in Nat : k <= n => u[k] = v[k]}
<1>1. 0 \in G
  BY DEF IsTrace
<1>2. ASSUME NEW k \in Nat, k \in G PROVE k + 1 \in G
  BY <1>2 DEF IsTrace
<1>3. Nat \subseteq G
  <2>. HIDE DEF G
  <2>. QED BY <1>1, <1>2, NaturalSteps
<1>. QED BY <1>3

IsSaying(g, cfg, kept, ids, D) ==
    g = [T \in SUBSET D |->
           IF T = {} THEN NothingSaid
           ELSE Watch!Check(cfg, g[T \ {Max(T)}].watch, kept[ids[Max(T)]], ids[Max(T)])]

\* The steps of one process as a fold.
LEMMA UnbrokenIsFold ==
    ASSUME NEW cfg, NEW kept, NEW ids, ids = [i \in DOMAIN kept |-> i]
    PROVE  Watch!Unbroken(cfg, kept) = (CHOOSE g : IsSaying(g, cfg, kept, ids, DOMAIN ids))[DOMAIN ids].alerts
BY DEF Watch!Unbroken, Watch!FoldLeft, Watch!MapThenFoldSet, Watch!Max, Max, IsSaying, NothingSaid

\* They are a trace.
LEMMA UnbrokenIsTrace ==
    ASSUME NEW cfg, IsWatchCfg(cfg), NEW kept \in Seq(Measured), NEW n \in Nat, n = Len(kept)
    PROVE  \E u : IsTrace(u, cfg, kept, n) /\ Watch!Unbroken(cfg, kept) = u[n].alerts
<1>1. PICK ids : ids = [i \in DOMAIN kept |-> i]  OBVIOUS
<1>2. DOMAIN ids = 1 .. n /\ \A i \in 1 .. n : ids[i] = i /\ kept[i] \in Measured /\ i \in Nat \ {0}
  BY <1>1
<1>3. PICK X : X = {NothingSaid} \cup {Watch!Check(cfg, a[1], a[2], a[3]) : a \in Watches \X Measured \X (Nat \ {0})}
  OBVIOUS
<1>4. ASSUME NEW x \in X PROVE x.watch \in Watches
  <2>1. CASE x = NothingSaid
    BY <2>1, NewIsWatch DEF NothingSaid
  <2>2. CASE x # NothingSaid
    <3>1. PICK a \in Watches \X Measured \X (Nat \ {0}) : x = Watch!Check(cfg, a[1], a[2], a[3])
      BY <1>3, <2>2
    <3>2. a[1] \in Watches /\ a[2] \in Measured /\ a[3] \in Nat \ {0}  OBVIOUS
    <3>3. IsCheck(x, cfg, a[1], a[2], a[3])
      BY <3>1, <3>2, CheckIs
    <3>. QED BY <3>3 DEF IsCheck
  <2>. QED BY <2>1, <2>2
<1>5. PICK F : F = [x \in X \X (1 .. n) |-> Watch!Check(cfg, x[1].watch, kept[ids[x[2]]], ids[x[2]])]  OBVIOUS
<1>6. ASSUME NEW c \in X, NEW i \in 1 .. n
      PROVE  F[<<c, i>>] = Watch!Check(cfg, c.watch, kept[ids[i]], ids[i]) /\ F[<<c, i>>] \in X
  <2>1. F[<<c, i>>] = Watch!Check(cfg, c.watch, kept[ids[i]], ids[i])
    BY <1>5
  <2>2. PICK a \in Watches \X Measured \X (Nat \ {0}) : a = <<c.watch, kept[ids[i]], ids[i]>>
    BY <1>2, <1>4
  <2>. QED BY <1>3, <2>1, <2>2
<1>7. NothingSaid \in X
  BY <1>3
<1>8. F \in [X \X (1 .. n) -> X]
  BY <1>5, <1>6
<1>9. PICK h : IsFold(h, F, NothingSaid, n, X)
  BY <1>7, <1>8, FoldsExist
<1>10. h = [T \in SUBSET (1 .. n) |-> h[T]] /\ h[{}] = NothingSaid
  BY <1>9 DEF IsFold
<1>11. ASSUME NEW T \in SUBSET (1 .. n)
       PROVE  h[T] = IF T = {} THEN NothingSaid
                     ELSE Watch!Check(cfg, h[T \ {Max(T)}].watch, kept[ids[Max(T)]], ids[Max(T)])
  <2>1. CASE T # {}
    <3>1. FoldsOn(h, F, T, n, X)
      BY <1>9, <2>1, FoldAt
    <3>. QED BY <1>6, <2>1, <3>1 DEF FoldsOn
  <2>. QED BY <1>10, <2>1
<1>12. IsSaying(h, cfg, kept, ids, 1 .. n)
  BY <1>10, <1>11 DEF IsSaying
<1>13. PICK g : g = CHOOSE f : IsSaying(f, cfg, kept, ids, DOMAIN ids)  OBVIOUS
<1>14. IsSaying(g, cfg, kept, ids, 1 .. n)
  BY <1>2, <1>12, <1>13
<1>15. IsFolded(g, F, NothingSaid, n, X)
  <2>1. ASSUME NEW T \in SUBSET (1 .. n), T # {}, g[T \ {Max(T)}] \in X
        PROVE  g[T] = F[<<g[T \ {Max(T)}], Max(T)>>]
    <3>1. Max(T) \in 1 .. n
      BY <2>1, MaxOfPart
    <3>. QED BY <1>6, <1>14, <2>1, <3>1 DEF IsSaying
  <2>2. g[{}] = NothingSaid
    BY <1>14 DEF IsSaying
  <2>. QED BY <2>1, <2>2 DEF IsFolded
<1>16. PICK u : IsSteps(u, F, NothingSaid, n, X, g[1 .. n])
  BY <1>7, <1>8, <1>15, FoldsAreSteps
<1>17. ASSUME NEW k \in Nat, k + 1 <= n PROVE u[k + 1] = Watch!Check(cfg, u[k].watch, kept[k + 1], k + 1)
  <2>1. k \in 0 .. n /\ k + 1 \in 1 .. n
    BY <1>17
  <2>2. u[k] \in X /\ u[k + 1] = F[<<u[k], k + 1>>]
    BY <1>16, <1>17, <2>1 DEF IsSteps
  <2>. QED BY <1>2, <1>6, <2>1, <2>2
<1>18. Watch!Unbroken(cfg, kept) = u[n].alerts
  <2>1. Watch!Unbroken(cfg, kept) = (CHOOSE f : IsSaying(f, cfg, kept, ids, DOMAIN ids))[DOMAIN ids].alerts
    BY <1>1, UnbrokenIsFold
  <2>. QED BY <1>2, <1>13, <1>16, <2>1 DEF IsSteps
<1>19. IsTrace(u, cfg, kept, n)
  BY <1>16, <1>17 DEF IsTrace, IsSteps
<1>. QED BY <1>18, <1>19

\* The same Cardinality, by way of two modules.
LEMMA SameCardinality == \A S : Watch!Cardinality(S) = Cardinality(S)
BY DEF Watch!Cardinality, Cardinality

InFileOrder(ord, log, n) ==
    /\ ord \in [1 .. n -> 1 .. n]
    /\ \A i \in 1 .. n : \E a \in 1 .. n : ord[a] = i
    /\ \A a, b \in 1 .. n : a < b => Watch!Before(log, ord[a], ord[b])

\* The lines are read along the steps, those of one step along the file, and each of them.
LEMMA LinesInOrder ==
    ASSUME NEW n \in Nat, NEW log, IsOfLog(log, n), NEW ord, ord = Watch!ReadOrder(log)
    PROVE  InFileOrder(ord, log, n)
<1>1. DOMAIN log = 1 .. n /\ \A i \in 1 .. n : log[i] \in LogLines
  BY DEF IsOfLog
<1>2. \A i \in 1 .. n : log[i].step \in Nat
  BY <1>1 DEF LogLines
<1>3. PICK S : S = 1 .. n  OBVIOUS
<1>4. IsFiniteSet(S) /\ Cardinality(S) = n
  BY <1>3, FS_Interval
<1>5. PICK R : R = {p \in S \X S : Watch!Before(log, p[1], p[2])}  OBVIOUS
<1>6. \A i, j \in S : <<i, j>> \in R <=> Watch!Before(log, i, j)
  BY <1>5
<1>7. IsStrictOrder(R, S)
  <2>1. \A i \in S : i \in Int /\ log[i].step \in Int
    BY <1>2, <1>3
  <2>2. \A i \in S : ~Watch!Before(log, i, i)
    BY <2>1 DEF Watch!Before
  <2>3. \A i, j \in S : i # j => Watch!Before(log, i, j) \/ Watch!Before(log, j, i)
    BY <2>1 DEF Watch!Before
  <2>4. \A i, j, k \in S : Watch!Before(log, i, j) /\ Watch!Before(log, j, k) => Watch!Before(log, i, k)
    BY <2>1 DEF Watch!Before
  <2>. QED BY <1>6, <2>2, <2>3, <2>4 DEF IsStrictOrder
<1>8. \A i \in S : {j \in DOMAIN log : Watch!Before(log, j, i)} = Lower(R, S, i)
  BY <1>1, <1>3, <1>6 DEF Lower
<1>9. ASSUME NEW a \in S, NEW i \in S, Cardinality(Lower(R, S, i)) = a - 1
      PROVE  ord[a] \in S /\ Cardinality(Lower(R, S, ord[a])) = a - 1
  <2>1. ord[a] = CHOOSE j \in S : Cardinality({h \in S : Watch!Before(log, h, j)}) = a - 1
    BY <1>1, <1>3, SameCardinality DEF Watch!ReadOrder
  <2>2. \A j \in S : {h \in S : Watch!Before(log, h, j)} = Lower(R, S, j)
    BY <1>1, <1>3, <1>8
  <2>3. ord[a] \in S /\ Cardinality({h \in S : Watch!Before(log, h, ord[a])}) = a - 1
    BY <1>9, <2>1, <2>2
  <2>. QED BY <2>2, <2>3
<1>10. IsByRank(ord, S, R)
  <2>1. ord = [a \in S |-> ord[a]]
    BY <1>1, <1>3 DEF Watch!ReadOrder
  <2>. QED BY <1>3, <1>4, <1>9, <2>1 DEF IsByRank
<1>11. IsListing(ord, S, R)
  BY <1>4, <1>7, <1>10, RanksList
<1>12. \A a \in 1 .. n : ord[a] \in S
  BY <1>4, <1>11 DEF IsListing
<1>. QED BY <1>3, <1>4, <1>6, <1>11, <1>12 DEF IsListing, InFileOrder

\* The log has the steps of the run and no others.
Matches(log, kept) ==
    Len(log) = Len(kept) /\ \A i \in 1 .. Len(kept) : log[i] = [step |-> i, m |-> kept[i]]

\* They are then read as they stand.
LEMMA MatchesInOrder ==
    ASSUME NEW n \in Nat, NEW log, IsOfLog(log, n), NEW kept, Matches(log, kept), NEW ord, ord = Watch!ReadOrder(log)
    PROVE  \A a \in 1 .. n : ord[a] = a
<1>1. DOMAIN log = 1 .. n /\ \A i \in 1 .. n : log[i].step = i
  <2>1. Len(log) = n /\ Len(kept) = n /\ DOMAIN log = 1 .. n
    BY DEF IsOfLog, Matches
  <2>2. ASSUME NEW i \in 1 .. n PROVE log[i].step = i
    <3>1. log[i] = [step |-> i, m |-> kept[i]]
      BY <2>1 DEF Matches
    <3>. QED BY <3>1
  <2>. QED BY <2>1, <2>2
<1>2. ASSUME NEW i \in 1 .. n PROVE Cardinality({j \in 1 .. n : Watch!Before(log, j, i)}) = i - 1
  <2>1. \A j \in 1 .. n : Watch!Before(log, j, i) <=> j < i
    BY <1>1 DEF Watch!Before
  <2>2. {j \in 1 .. n : Watch!Before(log, j, i)} = 1 .. i - 1
    BY <2>1
  <2>3. 1 \in Int /\ i \in Int /\ i - 1 \in Int /\ i >= 1  OBVIOUS
  <2>4. Cardinality(1 .. i - 1) = IF 1 > i - 1 THEN 0 ELSE i - 1 - 1 + 1
    BY <2>3, FS_Interval
  <2>5. Cardinality(1 .. i - 1) = i - 1
    BY <2>3, <2>4
  <2>. QED BY <2>2, <2>5
<1>3. ASSUME NEW a \in 1 .. n PROVE ord[a] = a
  <2>1. ord[a] = CHOOSE i \in 1 .. n : Cardinality({j \in 1 .. n : Watch!Before(log, j, i)}) = a - 1
    BY <1>1, SameCardinality DEF Watch!ReadOrder
  <2>2. \A i \in 1 .. n : Cardinality({j \in 1 .. n : Watch!Before(log, j, i)}) = a - 1 <=> i = a
    <3>1. \A i \in 1 .. n : i - 1 = a - 1 <=> i = a  OBVIOUS
    <3>. QED BY <1>2, <3>1
  <2>. QED BY <2>1, <2>2
<1>. QED BY <1>3

\* Line i is the last one of step 1.
IsFirst(log, i) == i \in DOMAIN log /\ log[i].step = 1 /\ \A j \in DOMAIN log : j > i => log[j].step # 1

\* What a resume knows of the log.
Knows(w, cfg, log) ==
    /\ w \in Watches /\ w.streak = 0 /\ IsLowest(w.low, Entropies(log))
    /\ \A i : IsFirst(log, i) /\ Watch!Good(log[i].m.entropy) => w.ref = log[i].m.entropy
    /\ \A kept, u : Matches(log, kept) /\ IsTrace(u, cfg, kept, Len(kept)) => w.grads = u[Len(kept)].watch.grads

\* What is read of the log is what there is in it.
LEMMA RebuildKnows ==
    ASSUME NEW cfg, IsWatchCfg(cfg), NEW n \in Nat, NEW log, IsOfLog(log, n)
    PROVE  Knows(Watch!Rebuild(cfg, log), cfg, log)
<1>1. PICK ord : ord = Watch!ReadOrder(log)  OBVIOUS
<1>2. /\ ord \in [1 .. n -> 1 .. n]
      /\ \A i \in 1 .. n : \E a \in 1 .. n : ord[a] = i
      /\ \A a, b \in 1 .. n : a < b => Watch!Before(log, ord[a], ord[b])
  <2>1. InFileOrder(ord, log, n)
    BY <1>1, LinesInOrder
  <2>. QED BY <2>1 DEF InFileOrder
<1>3. PICK p : ReadsOn(p, cfg, log, ord, n) /\ p[n] = Watch!Rebuild(cfg, log)
  BY <1>1, <1>2, RebuildSteps
<1>4. DOMAIN log = 1 .. n /\ Len(log) = n /\ \A i \in 1 .. n : log[i] \in LogLines
  BY DEF IsOfLog
<1>5. ASSUME NEW k \in Nat, k + 1 <= n
      PROVE  /\ k + 1 \in 1 .. n /\ ord[k + 1] \in 1 .. n /\ p[k] \in Watches /\ p[k + 1] \in Watches
             /\ p[k + 1].streak = p[k].streak
             /\ p[k + 1].grads = IF Watch!Good(log[ord[k + 1]].m.grad)
                                 THEN Watch!PushGradNorm(cfg, p[k].grads, log[ord[k + 1]].m.grad) ELSE p[k].grads
             /\ p[k + 1].low = IF Watch!Good(log[ord[k + 1]].m.entropy)
                               THEN Watch!Lower(p[k].low, log[ord[k + 1]].m.entropy) ELSE p[k].low
             /\ p[k + 1].ref = IF log[ord[k + 1]].step = 1 /\ Watch!Good(log[ord[k + 1]].m.entropy)
                               THEN log[ord[k + 1]].m.entropy ELSE p[k].ref
  <2>1. k \in 0 .. n /\ k + 1 \in 1 .. n
    BY <1>5
  <2>2. PICK w \in Watches : w = p[k]
    BY <1>3, <2>1 DEF ReadsOn
  <2>3. ord[k + 1] \in 1 .. n
    BY <1>2, <2>1
  <2>4. PICK r \in LogLines : r = log[ord[k + 1]]
    BY <1>4, <2>3
  <2>5. p[k + 1] = Watch!ReadLine(cfg, w, r)
    BY <1>3, <1>5, <2>2, <2>4 DEF ReadsOn
  <2>. QED BY <2>1, <2>2, <2>3, <2>4, <2>5, LineIsRead
<1>6. p[0] = Watch!NewWatch
  BY <1>3 DEF ReadsOn
<1>. DEFINE Read(k) == {log[ord[a]].m.entropy : a \in 1 .. k}
            G == {k \in Nat : k <= n => p[k].streak = 0 /\ IsLowest(p[k].low, Read(k))}
<1>7. 0 \in G
  BY <1>6, NewIsWatch DEF IsLowest
<1>8. ASSUME NEW k \in Nat, k \in G PROVE k + 1 \in G
  <2>1. ASSUME k + 1 <= n PROVE p[k + 1].streak = 0 /\ IsLowest(p[k + 1].low, Read(k + 1))
    <3>1. p[k].streak = 0 /\ IsLowest(p[k].low, Read(k))
      BY <1>8, <2>1
    <3>2. PICK e \in Int : e = log[ord[k + 1]].m.entropy
      BY <1>4, <1>5, <2>1 DEF LogLines, Measured
    <3>3. PICK low \in Int : low = p[k].low
      BY <1>5, <2>1 DEF Watches
    <3>4. PICK E \in SUBSET Int : E = Read(k)
      <4>1. ASSUME NEW a \in 1 .. k PROVE log[ord[a]].m.entropy \in Int
        <5>1. a \in 1 .. n
          BY <2>1
        <5>2. log[ord[a]] \in LogLines
          BY <1>2, <1>4, <5>1
        <5>. QED BY <5>2 DEF LogLines, Measured
      <4>. QED BY <4>1
    <3>5. Read(k + 1) = E \cup {e}
      <4>1. 1 .. k + 1 = (1 .. k) \cup {k + 1}  OBVIOUS
      <4>. QED BY <3>2, <3>4, <4>1
    <3>6. p[k + 1].low = IF Watch!Good(e) THEN Watch!Lower(low, e) ELSE low
      BY <1>5, <2>1, <3>2, <3>3
    <3>7. IsLowest(low, E)
      BY <3>1, <3>3, <3>4
    <3>8. IsLowest(p[k + 1].low, E \cup {e})
      BY <3>6, <3>7, LowestOfMore
    <3>9. p[k + 1].streak = 0
      BY <1>5, <2>1, <3>1
    <3>. QED BY <3>5, <3>8, <3>9
  <2>2. k + 1 \in Nat  OBVIOUS
  <2>. QED BY <2>1, <2>2
<1>9. n \in G
  <2>1. Nat \subseteq G
    <3>. HIDE DEF G
    <3>. QED BY <1>7, <1>8, NaturalSteps
  <2>. QED BY <2>1
<1>10. Read(n) = Entropies(log)
  BY <1>2, <1>4 DEF Entropies
<1>11. ASSUME NEW i, IsFirst(log, i), Watch!Good(log[i].m.entropy) PROVE p[n].ref = log[i].m.entropy
  <2>1. i \in 1 .. n /\ log[i].step = 1 /\ \A j \in 1 .. n : j > i => log[j].step # 1
    BY <1>4, <1>11 DEF IsFirst
  <2>2. PICK a \in 1 .. n : ord[a] = i
    BY <1>2, <2>1
  <2>3. ASSUME NEW b \in 1 .. n, a < b PROVE log[ord[b]].step # 1
    <3>1. ord[b] \in 1 .. n /\ Watch!Before(log, i, ord[b])
      BY <1>2, <2>2, <2>3
    <3>2. log[ord[b]].step = 1 => i < ord[b]
      BY <2>1, <3>1 DEF Watch!Before
    <3>. QED BY <2>1, <3>1, <3>2
  <2>. DEFINE H == {k \in Nat : a <= k /\ k <= n => p[k].ref = log[i].m.entropy}
  <2>4. 0 \in H  OBVIOUS
  <2>5. ASSUME NEW k \in Nat, k \in H PROVE k + 1 \in H
    <3>1. ASSUME a <= k + 1, k + 1 <= n PROVE p[k + 1].ref = log[i].m.entropy
      <4>1. k + 1 \in 1 .. n
        BY <3>1
      <4>2. p[k + 1].ref = IF log[ord[k + 1]].step = 1 /\ Watch!Good(log[ord[k + 1]].m.entropy)
                           THEN log[ord[k + 1]].m.entropy ELSE p[k].ref
        BY <1>5, <3>1
      <4>3. CASE a = k + 1
        BY <1>11, <2>1, <2>2, <4>2, <4>3
      <4>4. CASE a # k + 1
        <5>1. a <= k /\ k <= n /\ a < k + 1
          BY <3>1, <4>4
        <5>2. p[k].ref = log[i].m.entropy
          BY <2>5, <5>1
        <5>. QED BY <2>3, <4>1, <4>2, <5>1, <5>2
      <4>. QED BY <4>3, <4>4
    <3>2. k + 1 \in Nat  OBVIOUS
    <3>. QED BY <3>1, <3>2
  <2>6. Nat \subseteq H
    <3>. HIDE DEF H
    <3>. QED BY <2>4, <2>5, NaturalSteps
  <2>. QED BY <2>6
<1>12. ASSUME NEW kept, NEW u, Matches(log, kept), IsTrace(u, cfg, kept, Len(kept))
       PROVE  p[n].grads = u[Len(kept)].watch.grads
  <2>1. \A a \in 1 .. n : ord[a] = a
    BY <1>1, <1>12, MatchesInOrder
  <2>2. Len(kept) = n /\ \A i \in 1 .. n : log[i] = [step |-> i, m |-> kept[i]]
    BY <1>4, <1>12 DEF Matches
  <2>3. \A i \in 1 .. n : log[i].m = kept[i] /\ kept[i] \in Measured
    <3>1. ASSUME NEW i \in 1 .. n PROVE log[i].m = kept[i]
      <4>1. log[i] = [step |-> i, m |-> kept[i]]
        BY <2>2
      <4>. QED BY <4>1
    <3>2. ASSUME NEW i \in 1 .. n PROVE log[i].m \in Measured
      BY <1>4 DEF LogLines
    <3>. QED BY <3>1, <3>2
  <2>. DEFINE H == {k \in Nat : k <= n => u[k].watch \in Watches /\ p[k].grads = u[k].watch.grads}
  <2>4. 0 \in H
    BY <1>6, <1>12, NewIsWatch DEF IsTrace, NothingSaid
  <2>5. ASSUME NEW k \in Nat, k \in H PROVE k + 1 \in H
    <3>1. ASSUME k + 1 <= n PROVE u[k + 1].watch \in Watches /\ p[k + 1].grads = u[k + 1].watch.grads
      <4>1. u[k].watch \in Watches /\ p[k].grads = u[k].watch.grads
        BY <2>5, <3>1
      <4>2. k + 1 \in 1 .. n /\ k + 1 \in Nat \ {0}
        BY <3>1
      <4>3. PICK w \in Watches, m \in Measured : w = u[k].watch /\ m = kept[k + 1]
        BY <2>3, <4>1, <4>2
      <4>4. u[k + 1] = Watch!Check(cfg, w, m, k + 1)
        BY <1>12, <2>2, <3>1, <4>3 DEF IsTrace
      <4>5. IsCheck(u[k + 1], cfg, w, m, k + 1)
        BY <4>2, <4>4, CheckIs
      <4>6. /\ u[k + 1].watch \in Watches
            /\ u[k + 1].watch.grads = IF Watch!Good(m.grad) THEN Watch!PushGradNorm(cfg, w.grads, m.grad)
                                      ELSE w.grads
        BY <4>5 DEF IsCheck
      <4>7. log[ord[k + 1]].m = m
        BY <2>1, <2>3, <4>2, <4>3
      <4>. QED BY <1>5, <3>1, <4>1, <4>3, <4>6, <4>7
    <3>2. k + 1 \in Nat  OBVIOUS
    <3>. QED BY <3>1, <3>2
  <2>6. Nat \subseteq H
    <3>. HIDE DEF H
    <3>. QED BY <2>4, <2>5, NaturalSteps
  <2>. QED BY <2>2, <2>6
<1>13. p[n] \in Watches
  <2>1. n \in 0 .. n  OBVIOUS
  <2>. QED BY <1>3, <2>1 DEF ReadsOn
<1>14. p[n].streak = 0 /\ IsLowest(p[n].low, Entropies(log))
  <2>1. p[n].streak = 0 /\ IsLowest(p[n].low, Read(n))
    BY <1>9
  <2>. HIDE DEF Read
  <2>. QED BY <1>10, <2>1
<1>. QED BY <1>3, <1>11, <1>12, <1>13, <1>14 DEF Knows

IsWatchRun(run) ==
    /\ run = [log |-> run.log, kept |-> run.kept, watch |-> run.watch, alerts |-> run.alerts,
              checked |-> run.checked, up |-> run.up]
    /\ run.log \in Seq(LogLines) /\ run.kept \in Seq(Measured) /\ run.watch \in Watches

\* The step 1 that the run stands on is the last one that was logged.
FirstIsLogged(log, kept) == Len(kept) >= 1 => \E i : IsFirst(log, i) /\ log[i].m = kept[1]

\* What the watch of a running process knows: the lowest entropy of every attempt, that of the step 1
\* the run stands on, the grad norms if nothing was abandoned; and who counts a drift has logged it.
KnowsRun(w, cfg, log, kept) ==
    /\ IsLowest(w.low, Entropies(log))
    /\ Len(kept) >= 1 /\ Watch!Good(kept[1].entropy) => w.ref = kept[1].entropy
    /\ \A u : Matches(log, kept) /\ IsTrace(u, cfg, kept, Len(kept)) => w.grads = u[Len(kept)].watch.grads
    /\ w.streak > 0 => Len(log) >= 1 /\ log[Len(log)].step = Len(kept)

WatchRunInv(cfg, run) ==
    /\ IsWatchRun(run) /\ FirstIsLogged(run.log, run.kept)
    /\ run.up => KnowsRun(run.watch, cfg, run.log, run.kept)
    /\ Watch!WatchIsOfTheRun(cfg, run)

\* A new run.
LEMMA WatchStarts ==
    ASSUME NEW cfg, IsWatchCfg(cfg)
    PROVE  WatchRunInv(cfg, Watch!NewWatched)
<1>1. PICK run : run = Watch!NewWatched  OBVIOUS
<1>2. /\ run.log = <<>> /\ run.kept = <<>> /\ run.watch = Watch!NewWatch /\ run.checked = FALSE
      /\ run = [log |-> run.log, kept |-> run.kept, watch |-> run.watch, alerts |-> run.alerts,
                checked |-> run.checked, up |-> run.up]
  BY <1>1 DEF Watch!NewWatched
<1>3. <<>> \in Seq(LogLines) /\ <<>> \in Seq(Measured) /\ Len(<<>>) = 0 /\ DOMAIN <<>> = {}  OBVIOUS
<1>4. IsWatchRun(run)
  BY <1>2, <1>3, NewIsWatch DEF IsWatchRun
<1>5. IsLowest(Watch!NewWatch.low, Entropies(<<>>))
  BY <1>3, NewIsWatch DEF IsLowest, Entropies
<1>6. ASSUME NEW u, IsTrace(u, cfg, <<>>, 0) PROVE Watch!NewWatch.grads = u[0].watch.grads
  BY <1>6 DEF IsTrace, NothingSaid
<1>7. KnowsRun(Watch!NewWatch, cfg, <<>>, <<>>)
  BY <1>3, <1>5, <1>6, NewIsWatch DEF KnowsRun
<1>8. Watch!WatchIsOfTheRun(cfg, run)
  BY <1>2 DEF Watch!WatchIsOfTheRun
<1>9. FirstIsLogged(<<>>, <<>>)
  BY <1>3 DEF FirstIsLogged
<1>. QED BY <1>1, <1>2, <1>4, <1>7, <1>8, <1>9 DEF WatchRunInv

\* The next attempt.
LEMMA ResumesKnow ==
    ASSUME NEW cfg, IsWatchCfg(cfg), NEW run, WatchRunInv(cfg, run), NEW at \in 0 .. Len(run.kept)
    PROVE  WatchRunInv(cfg, Watch!ResumeAt(cfg, run, at))
<1>1. /\ IsWatchRun(run) /\ run.log \in Seq(LogLines) /\ run.kept \in Seq(Measured)
      /\ FirstIsLogged(run.log, run.kept)
  BY DEF WatchRunInv, IsWatchRun
<1>2. PICK log \in Seq(LogLines), kept \in Seq(Measured) : log = run.log /\ kept = run.kept
  BY <1>1
<1>3. PICK n \in Nat : n = Len(log)  OBVIOUS
<1>4. PICK w : w = Watch!Rebuild(cfg, log)  OBVIOUS
<1>5. Knows(w, cfg, log)
  BY <1>3, <1>4, RebuildKnows DEF IsOfLog
<1>6. PICK left : left = SubSeq(kept, 1, at)  OBVIOUS
<1>7. left \in Seq(Measured) /\ Len(left) = at /\ \A i \in 1 .. at : left[i] = kept[i]
  BY <1>2, <1>6
<1>8. PICK r : r = Watch!ResumeAt(cfg, run, at)  OBVIOUS
<1>9. /\ r.log = log /\ r.kept = left /\ r.watch = w /\ r.checked = FALSE
      /\ r = [log |-> r.log, kept |-> r.kept, watch |-> r.watch, alerts |-> r.alerts,
              checked |-> r.checked, up |-> r.up]
  <2>1. PICK a, b, c, d, e, f : run = [log |-> a, kept |-> b, watch |-> c, alerts |-> d, checked |-> e, up |-> f]
    BY <1>1 DEF IsWatchRun
  <2>2. r = [run EXCEPT !.kept = left, !.watch = w, !.checked = FALSE, !.up = TRUE]
    BY <1>2, <1>4, <1>6, <1>8 DEF Watch!ResumeAt
  <2>3. r = [log |-> a, kept |-> left, watch |-> w, alerts |-> d, checked |-> FALSE, up |-> TRUE]
    BY <2>1, <2>2
  <2>4. a = log
    BY <1>2, <2>1
  <2>. QED BY <2>3, <2>4
<1>10. FirstIsLogged(log, left)
  <2>1. at >= 1 => Len(kept) >= 1 /\ left[1] = kept[1]
    BY <1>2, <1>7
  <2>. QED BY <1>1, <1>2, <1>7, <2>1 DEF FirstIsLogged
<1>11. ASSUME at >= 1, Watch!Good(left[1].entropy) PROVE w.ref = left[1].entropy
  <2>1. PICK i : IsFirst(log, i) /\ log[i].m = left[1]
    BY <1>7, <1>10, <1>11 DEF FirstIsLogged
  <2>. QED BY <1>5, <1>11, <2>1 DEF Knows
<1>12. KnowsRun(w, cfg, log, left)
  <2>1. w.streak = 0 /\ IsLowest(w.low, Entropies(log))
    BY <1>5 DEF Knows
  <2>2. \A u : Matches(log, left) /\ IsTrace(u, cfg, left, Len(left)) => w.grads = u[Len(left)].watch.grads
    BY <1>5 DEF Knows
  <2>. QED BY <1>7, <1>11, <2>1, <2>2 DEF KnowsRun
<1>13. Watch!WatchIsOfTheRun(cfg, r)
  BY <1>9 DEF Watch!WatchIsOfTheRun
<1>14. IsWatchRun(r)
  <2>1. w \in Watches
    BY <1>5 DEF Knows
  <2>. QED BY <1>7, <1>9, <2>1 DEF IsWatchRun
<1>. QED BY <1>8, <1>9, <1>10, <1>12, <1>13, <1>14 DEF WatchRunInv

\* The lowest of what is there is one number.
LEMMA LowestIsOne ==
    ASSUME NEW E \in SUBSET Int, NEW low \in Int, NEW lower \in Int, IsLowest(low, E), IsLowest(lower, E)
    PROVE  low = lower
BY DEF IsLowest, Watch!Good, Watch!Absent

HasLine(log, i, m) == \E l \in Watch!ToSet(log) : l = [step |-> i, m |-> m]

\* A step that has its line in the log had it before the step after it was logged.
LEMMA LoggedBefore ==
    ASSUME NEW log \in Seq(LogLines), NEW kept \in Seq(Measured), NEW m \in Measured, NEW n \in Nat, n = Len(kept),
           NEW more, more = log \/ more = Append(log, [step |-> n + 1, m |-> m]), NEW i \in 1 .. n,
           HasLine(more, i, Append(kept, m)[i])
    PROVE  \E j \in DOMAIN log : log[j] = [step |-> i, m |-> kept[i]]
<1>1. Append(kept, m)[i] = kept[i]  OBVIOUS
<1>2. PICK j \in DOMAIN more : more[j] = [step |-> i, m |-> kept[i]]
  BY <1>1 DEF HasLine, Watch!ToSet
<1>3. CASE more = log
  BY <1>2, <1>3
<1>4. CASE more = Append(log, [step |-> n + 1, m |-> m])
  <2>1. CASE j \in DOMAIN log
    <3>1. more[j] = log[j]
      BY <1>4, <2>1
    <3>. QED BY <1>2, <2>1, <3>1
  <2>2. CASE j \notin DOMAIN log
    <3>1. more[j] = [step |-> n + 1, m |-> m]
      BY <1>2, <1>4, <2>2
    <3>2. more[j].step = n + 1 /\ more[j].step = i
      BY <1>2, <3>1
    <3>. QED BY <3>2
  <2>. QED BY <2>1, <2>2
<1>. QED BY <1>3, <1>4

\* A log of the steps of the run and no others matches it.
LEMMA WholeLog ==
    ASSUME NEW log \in Seq(LogLines), NEW kept \in Seq(Measured), NEW m \in Measured, NEW n \in Nat, n = Len(kept),
           Len(log) <= n,
           \A i \in 1 .. n : \E j \in DOMAIN log : log[j] = [step |-> i, m |-> kept[i]],
           \A i \in DOMAIN log : log[i] = [step |-> i, m |-> Append(kept, m)[i]]
    PROVE  Matches(log, kept)
<1>1. ASSUME NEW j \in DOMAIN log PROVE log[j].step = j /\ j \in 1 .. Len(log)
  <2>1. log[j] = [step |-> j, m |-> Append(kept, m)[j]]  OBVIOUS
  <2>. QED BY <2>1
<1>2. Len(log) = n
  <2>1. CASE n = 0
    BY <2>1
  <2>2. CASE n # 0
    <3>1. n \in 1 .. n
      BY <2>2
    <3>2. PICK j \in DOMAIN log : log[j] = [step |-> n, m |-> kept[n]]
      BY <3>1
    <3>3. j = n
      BY <1>1, <3>2
    <3>. QED BY <1>1, <3>3
  <2>. QED BY <2>1, <2>2
<1>3. ASSUME NEW i \in 1 .. n PROVE log[i] = [step |-> i, m |-> kept[i]]
  <2>1. i \in DOMAIN log /\ Append(kept, m)[i] = kept[i]
    BY <1>2
  <2>. QED BY <2>1
<1>. QED BY <1>2, <1>3 DEF Matches

\* What the n-th step says, when what it may know is the same as in one process.
SaysTheSame(c, d, w, v, log, kept, m, n) ==
    /\ "nan" \in c.alerts <=> "nan" \in d.alerts
    /\ (\A i \in 1 .. n : \E j \in DOMAIN log : log[j] = [step |-> i, m |-> kept[i]])
          => /\ "drift" \in d.alerts => "drift" \in c.alerts
             /\ Watch!Good(Append(kept, m)[1].entropy) =>
                  /\ "collapse" \in c.alerts <=> "collapse" \in d.alerts
                  /\ Matches(log, kept) => c.alerts = d.alerts

\* It is.
LEMMA ChecksAgree ==
    ASSUME NEW cfg, IsWatchCfg(cfg), NEW log \in Seq(LogLines), NEW kept \in Seq(Measured), NEW m \in Measured,
           NEW n \in Nat, n = Len(kept), NEW u, IsTrace(u, cfg, kept, n), NEW w \in Watches, KnowsRun(w, cfg, log, kept),
           NEW v \in Watches, v = u[n].watch, NEW c, IsCheck(c, cfg, w, m, n + 1), NEW d, IsCheck(d, cfg, v, m, n + 1)
    PROVE  SaysTheSame(c, d, w, v, log, kept, m, n)
<1>1. "nan" \in c.alerts <=> "nan" \in d.alerts
  BY DEF IsCheck
<1>2. PICK x \in Int, y \in Int : x = w.low /\ y = v.low
  BY DEF Watches
<1>3. PICK e \in Int : e = m.entropy
  BY DEF Measured
<1>4. /\ IsLowest(y, {kept[i].entropy : i \in 1 .. n})
      /\ n >= 1 /\ Watch!Good(kept[1].entropy) => v.ref = kept[1].entropy
  <2>1. TraceAt(u, kept, n)
    BY Traced
  <2>. QED BY <1>2, <2>1 DEF TraceAt
<1>5. IsLowest(x, Entropies(log)) /\ (n >= 1 /\ Watch!Good(kept[1].entropy) => w.ref = kept[1].entropy)
  BY <1>2 DEF KnowsRun
<1>6. ASSUME \A i \in 1 .. n : \E j \in DOMAIN log : log[j] = [step |-> i, m |-> kept[i]]
      PROVE  y > 0 => x > 0 /\ x <= y
  <2>1. SUFFICES ASSUME y > 0 PROVE x > 0 /\ x <= y  OBVIOUS
  <2>2. y \in {kept[i].entropy : i \in 1 .. n}
    BY <1>4, <2>1 DEF IsLowest, Watch!Absent
  <2>3. PICK i \in 1 .. n : y = kept[i].entropy
    BY <2>2
  <2>4. PICK j \in DOMAIN log : log[j] = [step |-> i, m |-> kept[i]]
    BY <1>6
  <2>5. log[j].m.entropy = y
    BY <2>3, <2>4
  <2>6. y \in Entropies(log) /\ Watch!Good(y)
    BY <2>1, <2>5 DEF Entropies, Watch!Good
  <2>7. x \in Entropies(log) /\ Watch!Good(x) /\ x <= y
    BY <1>5, <2>6 DEF IsLowest
  <2>8. PICK h \in DOMAIN log : x = log[h].m.entropy
    BY <2>7 DEF Entropies
  <2>9. x # 0
    <3>1. log[h] \in LogLines  OBVIOUS
    <3>. QED BY <2>8, <3>1 DEF LogLines, Measured
  <2>. QED BY <2>7, <2>9 DEF Watch!Good
<1>7. ASSUME y > 0 => x > 0 /\ x <= y, Watch!Drifts(cfg, v, m, n + 1) PROVE Watch!Drifts(cfg, w, m, n + 1)
  <2>1. CASE m.kl > cfg.klMax
    BY <2>1 DEF Watch!Drifts
  <2>2. CASE Watch!Good(e) /\ y > 0 /\ n + 1 > cfg.riseAfter /\ e > cfg.rise * y
    <3>1. PICK k \in Nat : k = cfg.rise
      BY DEF IsWatchCfg
    <3>2. x > 0 /\ x <= y
      BY <1>7, <2>2
    <3>3. k * x <= k * y
      BY <3>2
    <3>4. k * x \in Int /\ k * y \in Int
      BY <3>1
    <3>5. e > k * x
      BY <2>2, <3>1, <3>3, <3>4
    <3>. QED BY <1>2, <1>3, <2>2, <3>1, <3>2, <3>5 DEF Watch!Drifts
  <2>. QED BY <1>2, <1>3, <1>7, <2>1, <2>2 DEF Watch!Drifts
<1>8. ASSUME Watch!Good(Append(kept, m)[1].entropy)
      PROVE  Watch!EntropyCollapses(cfg, w, m, n + 1) <=> Watch!EntropyCollapses(cfg, v, m, n + 1)
  <2>1. CASE n = 0
    BY <2>1 DEF Watch!EntropyCollapses, Watch!NewReference
  <2>2. CASE n # 0
    <3>1. Append(kept, m)[1] = kept[1]
      BY <2>2
    <3>2. w.ref = v.ref
      BY <1>4, <1>5, <1>8, <2>2, <3>1
    <3>. QED BY <3>2 DEF Watch!EntropyCollapses, Watch!NewReference
  <2>. QED BY <2>1, <2>2
<1>9. ASSUME Matches(log, kept) PROVE w.grads = v.grads /\ x = y
  <2>1. w.grads = v.grads
    BY <1>9 DEF KnowsRun
  <2>2. PICK E : E = Entropies(log)  OBVIOUS
  <2>3. E \in SUBSET Int
    <3>1. \A i \in DOMAIN log : log[i] \in LogLines  OBVIOUS
    <3>. QED BY <2>2, <3>1 DEF Entropies, LogLines, Measured
  <2>4. {kept[i].entropy : i \in 1 .. n} = E
    <3>1. DOMAIN log = 1 .. n
      BY <1>9 DEF Matches
    <3>2. ASSUME NEW i \in 1 .. n PROVE log[i].m.entropy = kept[i].entropy
      <4>1. log[i] = [step |-> i, m |-> kept[i]]
        BY <1>9 DEF Matches
      <4>. QED BY <4>1
    <3>. QED BY <2>2, <3>1, <3>2 DEF Entropies
  <2>5. x = y
    BY <1>4, <1>5, <2>2, <2>3, <2>4, LowestIsOne
  <2>. QED BY <2>1, <2>5
<1>10. ASSUME Matches(log, kept)
       PROVE  /\ Watch!Drifts(cfg, w, m, n + 1) <=> Watch!Drifts(cfg, v, m, n + 1)
              /\ Watch!GradSpikes(cfg, w, m) <=> Watch!GradSpikes(cfg, v, m)
  <2>1. Watch!Drifts(cfg, w, m, n + 1) <=> Watch!Drifts(cfg, v, m, n + 1)
    BY <1>2, <1>9, <1>10 DEF Watch!Drifts
  <2>2. Watch!GradSpikes(cfg, w, m) <=> Watch!GradSpikes(cfg, v, m)
    BY <1>9, <1>10 DEF Watch!GradSpikes
  <2>. QED BY <2>1, <2>2
<1>11. ASSUME \A i \in 1 .. n : \E j \in DOMAIN log : log[j] = [step |-> i, m |-> kept[i]], "drift" \in d.alerts
       PROVE  "drift" \in c.alerts
  <2>1. Watch!Drifts(cfg, v, m, n + 1)
    BY <1>11 DEF IsCheck
  <2>2. Watch!Drifts(cfg, w, m, n + 1)
    BY <1>6, <1>7, <1>11, <2>1
  <2>. QED BY <2>2 DEF IsCheck
<1>12. ASSUME Watch!Good(Append(kept, m)[1].entropy) PROVE "collapse" \in c.alerts <=> "collapse" \in d.alerts
  BY <1>8, <1>12 DEF IsCheck
<1>13. ASSUME Watch!Good(Append(kept, m)[1].entropy), Matches(log, kept) PROVE c.alerts = d.alerts
  <2>1. \A a \in Alerts : a \in c.alerts <=> a \in d.alerts
    BY <1>1, <1>10, <1>12, <1>13 DEF IsCheck, Alerts
  <2>2. c.alerts \in SUBSET Alerts /\ d.alerts \in SUBSET Alerts
    BY DEF IsCheck
  <2>. QED BY <2>1, <2>2
<1>. QED BY <1>1, <1>11, <1>12, <1>13 DEF SaysTheSame

\* A log that matches after a line is added matched before.
LEMMA MatchedBefore ==
    ASSUME NEW log \in Seq(LogLines), NEW kept \in Seq(Measured), NEW m \in Measured, NEW l,
           Matches(Append(log, l), Append(kept, m))
    PROVE  Matches(log, kept)
<1>1. Len(log) = Len(kept)
  BY DEF Matches
<1>2. ASSUME NEW i \in 1 .. Len(kept) PROVE log[i] = [step |-> i, m |-> kept[i]]
  <2>1. Append(log, l)[i] = log[i] /\ Append(kept, m)[i] = kept[i] /\ i \in 1 .. Len(Append(kept, m))
    BY <1>1
  <2>. QED BY <2>1 DEF Matches
<1>. QED BY <1>1, <1>2 DEF Matches

\* A step.
LEMMA StepsKnow ==
    ASSUME NEW cfg, IsWatchCfg(cfg), NEW run, WatchRunInv(cfg, run), run.up, NEW m \in Measured
    PROVE  WatchRunInv(cfg, Watch!Step(cfg, run, m))
<1>1. PICK log \in Seq(LogLines), kept \in Seq(Measured), w \in Watches :
        log = run.log /\ kept = run.kept /\ w = run.watch
  BY DEF WatchRunInv, IsWatchRun
<1>2. PICK n \in Nat : n = Len(kept)  OBVIOUS
<1>3. FirstIsLogged(log, kept) /\ KnowsRun(w, cfg, log, kept)
  BY <1>1 DEF WatchRunInv
<1>4. PICK c : c = Watch!Check(cfg, w, m, n + 1)  OBVIOUS
<1>5. IsCheck(c, cfg, w, m, n + 1)
  <2>1. n + 1 \in Nat \ {0}  OBVIOUS
  <2>. QED BY <1>4, <2>1, CheckIs
<1>6. PICK v \in Watches : v = c.watch
  BY <1>5 DEF IsCheck
<1>7. PICK l \in LogLines : l = [step |-> n + 1, m |-> m]
  <2>1. n + 1 \in Nat \ {0}  OBVIOUS
  <2>2. [step |-> n + 1, m |-> m] \in LogLines
    BY <2>1 DEF LogLines
  <2>. QED BY <2>2
<1>8. PICK all \in Seq(Measured) : all = Append(kept, m)
  <2>1. Append(kept, m) \in Seq(Measured)  OBVIOUS
  <2>. QED BY <2>1
<1>9. Len(all) = n + 1 /\ all[n + 1] = m /\ \A i \in 1 .. n : all[i] = kept[i]
  BY <1>2, <1>8
<1>10. PICK more : more = IF c.raises THEN log ELSE Append(log, l)  OBVIOUS
<1>11. more \in Seq(LogLines) /\ (more = log \/ more = Append(log, l))
  BY <1>10
<1>12. PICK r : r = Watch!Step(cfg, run, m)  OBVIOUS
<1>13. r = [log |-> more, kept |-> all, watch |-> v, alerts |-> c.alerts, checked |-> TRUE, up |-> ~c.raises]
  BY <1>1, <1>2, <1>4, <1>6, <1>7, <1>8, <1>10, <1>12 DEF Watch!Step
<1>14. /\ r.log = more /\ r.kept = all /\ r.watch = v /\ r.alerts = c.alerts
       /\ r = [log |-> r.log, kept |-> r.kept, watch |-> r.watch, alerts |-> r.alerts,
               checked |-> r.checked, up |-> r.up]
  BY <1>13
<1>15. r.up => ~c.raises
  BY <1>13
<1>16. IsWatchRun(r)
  BY <1>11, <1>14 DEF IsWatchRun
<1>17. l.step = n + 1 /\ l.m = m /\ Len(Append(log, l)) = Len(log) + 1 /\ Append(log, l)[Len(log) + 1] = l
       /\ \A i \in DOMAIN log : Append(log, l)[i] = log[i]
  BY <1>7
<1>18. c.raises => Len(log) >= 1 /\ log[Len(log)].step = n
  BY <1>2, <1>3, <1>5 DEF IsCheck, KnowsRun
<1>19. FirstIsLogged(more, all)
  <2>1. CASE n = 0
    <3>1. ~c.raises
      <4>1. ASSUME c.raises PROVE FALSE
        <5>1. Len(log) \in DOMAIN log /\ log[Len(log)].step = 0
          BY <1>18, <2>1, <4>1
        <5>2. log[Len(log)] \in LogLines
          BY <5>1
        <5>. QED BY <5>1, <5>2 DEF LogLines
      <4>. QED BY <4>1
    <3>2. more = Append(log, l)
      BY <1>10, <3>1
    <3>3. DOMAIN more = 1 .. Len(log) + 1
      BY <3>2
    <3>4. IsFirst(more, Len(log) + 1) /\ more[Len(log) + 1].m = all[1]
      BY <1>9, <1>17, <2>1, <3>2, <3>3 DEF IsFirst
    <3>. QED BY <3>4 DEF FirstIsLogged
  <2>2. CASE n # 0
    <3>1. n >= 1 /\ all[1] = kept[1]
      BY <1>9, <2>2
    <3>2. PICK i : IsFirst(log, i) /\ log[i].m = kept[1]
      BY <1>2, <1>3, <3>1 DEF FirstIsLogged
    <3>3. CASE more = log
      BY <3>1, <3>2, <3>3 DEF FirstIsLogged
    <3>4. CASE more = Append(log, l)
      <4>1. i \in DOMAIN log /\ log[i].step = 1 /\ \A j \in DOMAIN log : j > i => log[j].step # 1
        BY <3>2 DEF IsFirst
      <4>2. DOMAIN log = 1 .. Len(log) /\ DOMAIN more = 1 .. Len(log) + 1
        BY <3>4
      <4>3. i \in DOMAIN more /\ more[i] = log[i]
        BY <1>17, <3>4, <4>1, <4>2
      <4>4. ASSUME NEW j \in DOMAIN more, j > i PROVE more[j].step # 1
        <5>1. CASE j \in DOMAIN log
          BY <1>17, <3>4, <4>1, <4>4, <5>1
        <5>2. CASE j \notin DOMAIN log
          <6>1. j = Len(log) + 1
            BY <4>2, <5>2
          <6>2. more[j].step = n + 1
            BY <1>17, <3>4, <6>1
          <6>. QED BY <3>1, <6>2
        <5>. QED BY <5>1, <5>2
      <4>5. IsFirst(more, i) /\ more[i].m = all[1]
        BY <3>1, <3>2, <4>1, <4>3, <4>4 DEF IsFirst
      <4>. QED BY <4>5 DEF FirstIsLogged
    <3>. QED BY <1>11, <3>3, <3>4
  <2>. QED BY <2>1, <2>2
<1>20. PICK u : IsTrace(u, cfg, all, n + 1) /\ Watch!Unbroken(cfg, all) = u[n + 1].alerts
  <2>1. n + 1 \in Nat  OBVIOUS
  <2>. QED BY <1>9, <2>1, UnbrokenIsTrace
<1>21. IsTrace(u, cfg, kept, n)
  <2>1. ASSUME NEW k \in Nat, k + 1 <= n PROVE u[k + 1] = Watch!Check(cfg, u[k].watch, kept[k + 1], k + 1)
    <3>1. k + 1 <= n + 1 /\ k + 1 \in 1 .. n
      BY <2>1
    <3>2. u[k + 1] = Watch!Check(cfg, u[k].watch, all[k + 1], k + 1)
      BY <1>20, <3>1 DEF IsTrace
    <3>. QED BY <1>9, <3>1, <3>2
  <2>2. u[0] = NothingSaid
    BY <1>20 DEF IsTrace
  <2>. QED BY <2>1, <2>2 DEF IsTrace
<1>22. PICK t \in Watches : t = u[n].watch
  <2>1. TraceAt(u, kept, n)
    BY <1>2, <1>21, Traced
  <2>. QED BY <2>1 DEF TraceAt
<1>23. PICK d : d = u[n + 1]  OBVIOUS
<1>24. IsCheck(d, cfg, t, m, n + 1)
  <2>1. n + 1 \in Nat \ {0} /\ n + 1 <= n + 1  OBVIOUS
  <2>2. d = Watch!Check(cfg, t, m, n + 1)
    BY <1>9, <1>20, <1>22, <1>23, <2>1 DEF IsTrace
  <2>. QED BY <2>1, <2>2, CheckIs
<1>25. SaysTheSame(c, d, w, t, log, kept, m, n)
  BY <1>2, <1>3, <1>5, <1>21, <1>22, <1>24, ChecksAgree
<1>26. ASSUME ~c.raises PROVE KnowsRun(v, cfg, more, all)
  <2>1. more = Append(log, l) /\ Len(more) = Len(log) + 1 /\ more[Len(more)].step = n + 1 /\ Len(more) >= 1
    BY <1>10, <1>17, <1>26
  <2>2. PICK e \in Int, low \in Int : e = m.entropy /\ low = w.low
    BY DEF Measured, Watches
  <2>3. PICK E \in SUBSET Int : E = Entropies(log)
    <3>1. \A i \in DOMAIN log : log[i] \in LogLines  OBVIOUS
    <3>2. \A i \in DOMAIN log : log[i].m.entropy \in Int
      BY <3>1 DEF LogLines, Measured
    <3>3. Entropies(log) \in SUBSET Int
      BY <3>2 DEF Entropies
    <3>. QED BY <3>3
  <2>4. Entropies(more) = E \cup {e}
    <3>1. DOMAIN more = DOMAIN log \cup {Len(log) + 1}
      BY <2>1
    <3>2. \A i \in DOMAIN log : more[i] = log[i]
      BY <1>17, <2>1
    <3>3. more[Len(log) + 1].m.entropy = e
      BY <1>17, <2>1, <2>2
    <3>. QED BY <2>3, <3>1, <3>2, <3>3 DEF Entropies
  <2>5. IsLowest(v.low, E \cup {e})
    <3>1. v.low = IF Watch!Good(e) THEN Watch!Lower(low, e) ELSE low
      BY <1>5, <1>6, <2>2 DEF IsCheck
    <3>2. IsLowest(low, E)
      BY <1>3, <2>2, <2>3 DEF KnowsRun
    <3>. QED BY <3>1, <3>2, LowestOfMore
  <2>6. ASSUME Watch!Good(all[1].entropy) PROVE v.ref = all[1].entropy
    <3>1. v.ref = IF Watch!Good(m.entropy) /\ Watch!NewReference(w, m, n + 1) THEN m.entropy ELSE w.ref
      BY <1>5, <1>6 DEF IsCheck
    <3>2. CASE n = 0
      <4>1. all[1] = m /\ n + 1 = 1
        BY <1>9, <3>2
      <4>. QED BY <2>6, <3>1, <4>1 DEF Watch!NewReference
    <3>3. CASE n # 0
      <4>1. all[1] = kept[1] /\ n >= 1
        BY <1>9, <3>3
      <4>2. w.ref = all[1].entropy
        BY <1>2, <1>3, <2>6, <4>1 DEF KnowsRun
      <4>3. n + 1 # 1 /\ w.ref # Watch!Absent
        BY <2>6, <4>1, <4>2 DEF Watch!Good, Watch!Absent
      <4>. QED BY <3>1, <4>2, <4>3 DEF Watch!NewReference
    <3>. QED BY <3>2, <3>3
  <2>7. ASSUME NEW x, Matches(more, all), IsTrace(x, cfg, all, n + 1) PROVE v.grads = x[n + 1].watch.grads
    <3>1. Matches(log, kept)
      BY <1>8, <2>1, <2>7, MatchedBefore
    <3>2. w.grads = t.grads
      BY <1>2, <1>3, <1>21, <1>22, <3>1 DEF KnowsRun
    <3>3. n + 1 \in Nat  OBVIOUS
    <3>4. x[n + 1] = d
      BY <1>20, <1>23, <2>7, <3>3, TracesAgree
    <3>5. d.watch.grads = IF Watch!Good(m.grad) THEN Watch!PushGradNorm(cfg, t.grads, m.grad) ELSE t.grads
      BY <1>24 DEF IsCheck
    <3>6. v.grads = IF Watch!Good(m.grad) THEN Watch!PushGradNorm(cfg, w.grads, m.grad) ELSE w.grads
      BY <1>5, <1>6 DEF IsCheck
    <3>. QED BY <3>2, <3>4, <3>5, <3>6
  <2>. QED BY <1>9, <2>1, <2>4, <2>5, <2>6, <2>7 DEF KnowsRun
<1>27. ASSUME \A i \in 1 .. Len(all) - 1 : \E x \in Watch!ToSet(more) : x = [step |-> i, m |-> all[i]]
       PROVE  \A i \in 1 .. n : \E j \in DOMAIN log : log[j] = [step |-> i, m |-> kept[i]]
  <2>1. ASSUME NEW i \in 1 .. n PROVE \E j \in DOMAIN log : log[j] = [step |-> i, m |-> kept[i]]
    <3>1. HasLine(more, i, Append(kept, m)[i])
      BY SMTT(20), <1>8, <1>9, <1>27 DEF HasLine
    <3>2. more = log \/ more = Append(log, [step |-> n + 1, m |-> m])
      BY <1>7, <1>11
    <3>. QED BY <1>2, <3>1, <3>2, LoggedBefore
  <2>. QED BY <2>1
<1>28. ASSUME \A i \in 1 .. n : \E j \in DOMAIN log : log[j] = [step |-> i, m |-> kept[i]],
              \A i \in DOMAIN more : ~(i > Len(all)) /\ more[i] = [step |-> i, m |-> all[i]]
       PROVE  Matches(log, kept)
  <2>1. DOMAIN log = 1 .. Len(log)  OBVIOUS
  <2>2. ASSUME NEW i \in DOMAIN log PROVE i \in DOMAIN more /\ more[i] = log[i]
    BY <1>11, <1>17, <2>1
  <2>3. \A i \in DOMAIN log : log[i] = [step |-> i, m |-> Append(kept, m)[i]]
    BY <1>8, <1>28, <2>2
  <2>4. Len(log) <= n
    <3>1. CASE c.raises
      <4>1. Len(log) \in DOMAIN log /\ log[Len(log)].step = n
        BY <1>18, <2>1, <3>1
      <4>2. log[Len(log)] = [step |-> Len(log), m |-> Append(kept, m)[Len(log)]]
        BY <2>3, <4>1
      <4>3. log[Len(log)].step = Len(log)
        BY <4>2
      <4>. QED BY <4>1, <4>3
    <3>2. CASE ~c.raises
      <4>1. Len(log) + 1 \in DOMAIN more
        BY <1>10, <1>17, <3>2
      <4>2. ~(Len(log) + 1 > n + 1)
        BY <1>9, <1>28, <4>1
      <4>. QED BY <4>2
    <3>. QED BY <3>1, <3>2
  <2>. QED BY <1>2, <1>28, <2>3, <2>4, WholeLog
<1>29. PICK whole : whole = Watch!Unbroken(cfg, all)  OBVIOUS
<1>30. whole = d.alerts
  BY <1>20, <1>23, <1>29
<1>31. "nan" \in c.alerts <=> "nan" \in whole
  BY <1>25, <1>30 DEF SaysTheSame
<1>32. ASSUME \A i \in 1 .. Len(all) - 1 : \E x \in Watch!ToSet(more) : x = [step |-> i, m |-> all[i]]
       PROVE  /\ "drift" \in whole => "drift" \in c.alerts
              /\ Watch!Good(all[1].entropy) => ("collapse" \in c.alerts <=> "collapse" \in whole)
  BY <1>8, <1>25, <1>27, <1>30, <1>32 DEF SaysTheSame
<1>33. ASSUME \A i \in 1 .. Len(all) - 1 : \E x \in Watch!ToSet(more) : x = [step |-> i, m |-> all[i]],
              Watch!Good(all[1].entropy),
              ~\E i \in DOMAIN more : i > Len(all) \/ more[i] # [step |-> i, m |-> all[i]]
       PROVE  c.alerts = whole
  <2>1. \A i \in 1 .. n : \E j \in DOMAIN log : log[j] = [step |-> i, m |-> kept[i]]
    BY <1>27, <1>33
  <2>2. Matches(log, kept)
    BY <1>28, <1>33, <2>1
  <2>. QED BY <1>8, <1>25, <1>30, <1>33, <2>1, <2>2 DEF SaysTheSame
<1>34. Watch!WatchIsOfTheRun(cfg, r)
  BY <1>14, <1>29, <1>31, <1>32, <1>33 DEF Watch!WatchIsOfTheRun
<1>. QED BY <1>12, <1>14, <1>15, <1>16, <1>19, <1>26, <1>34 DEF WatchRunInv

\* The configuration and the metrics of the run are such.
LEMMA WatchedRun == IsWatchCfg(WatchCfg) /\ Metrics \subseteq Measured
<1>1. IsWatchCfg(WatchCfg)
  BY DEF IsWatchCfg, WatchCfg
<1>2. Metrics \subseteq Measured
  BY DEF Metrics, Measured, Watch!Bad, Watch!Absent
<1>. QED BY <1>1, <1>2

WatchInv == Named /\ (input.of = "watch" => WatchRunInv(WatchCfg, input.run))

\* Every step of the run of TLC keeps it.
LEMMA WatchInvSteps == WatchInv /\ [Next]_input => WatchInv'
<1>1. SUFFICES ASSUME WatchInv, [Next]_input PROVE WatchInv'  OBVIOUS
<1>2. CASE UNCHANGED input
  BY <1>1, <1>2 DEF WatchInv, Named
<1>3. CASE Next
  <2>1. Named'
    BY <1>1, <1>3, StepsByName DEF WatchInv
  <2>2. ASSUME input'.of = "watch" PROVE WatchRunInv(WatchCfg, input'.run)
    <3>1. CASE CheckStep
      <4>1. PICK m \in Metrics :
              input' = [input EXCEPT !.run = Watch!Step(WatchCfg, @, m), !.checks = @ + 1]
        BY <3>1 DEF CheckStep
      <4>2. input.of = "watch" /\ input.run.up
        BY <3>1 DEF CheckStep
      <4>3. WatchRunInv(WatchCfg, Watch!Step(WatchCfg, input.run, m))
        BY <1>1, <4>2, WatchedRun, StepsKnow DEF WatchInv
      <4>4. input'.run = Watch!Step(WatchCfg, input.run, m)
        BY <2>1, <4>1
      <4>. QED BY <4>3, <4>4
    <3>2. CASE Resume
      <4>1. PICK at \in 0 .. Len(input.run.kept) :
              input' = [input EXCEPT !.run = Watch!ResumeAt(WatchCfg, @, at)]
        BY <3>2 DEF Resume
      <4>2. input.of = "watch"
        BY <3>2 DEF Resume
      <4>3. WatchRunInv(WatchCfg, Watch!ResumeAt(WatchCfg, input.run, at))
        BY <1>1, <4>2, WatchedRun, ResumesKnow DEF WatchInv
      <4>4. input'.run = Watch!ResumeAt(WatchCfg, input.run, at)
        BY <4>1
      <4>. QED BY <4>3, <4>4
    <3>3. CASE input' = [of |-> "watch", checks |-> 0, run |-> Watch!NewWatched]
      BY <3>3, WatchedRun, WatchStarts
    <3>. QED BY <1>1, <1>3, <2>2, <3>1, <3>2, <3>3, StepsByName DEF WatchInv
  <2>. QED BY <2>1, <2>2 DEF WatchInv
<1>. QED BY <1>1, <1>2, <1>3

\* The watch of a resumed run.
THEOREM WatchAlwaysSurvivesResumes == Spec => []WatchSurvivesResumes
<1>1. Init => WatchInv
  BY NamedInit DEF WatchInv
<1>2. WatchInv => WatchSurvivesResumes
  BY DEF WatchInv, WatchRunInv, WatchSurvivesResumes
<1>. QED BY <1>1, <1>2, WatchInvSteps, PTL DEF Spec
=============================================================================
