------------------------- MODULE CheckpointsProofs -------------------------
(***************************************************************************)
(* Theorems about the checkpoint directory, for any number of steps, jobs  *)
(* and signals and any setting of the keepers: the tracked step can always *)
(* be resumed from, a step that is being written has no hard links, what a *)
(* pass of the keepers has settled stays settled, so no landmark is lost   *)
(* and a second stage-out changes nothing.                                 *)
(***************************************************************************)
EXTENDS Checkpoints, FiniteSetTheorems, TLAPS

\* The tracker is the newest step verl remembers, and the trainer is at it or writes the
\* next one; the job shell only cleans up when the trainer is gone.
Positions ==
    /\ tracker \in 0 .. LastStep
    /\ paths \subseteq 1 .. tracker
    /\ paths # {} => tracker \in paths
    /\ phase = "train" => step = tracker
    /\ phase \in Writing => step = tracker + 1 /\ step <= LastStep
    /\ shell # "wait" => phase = "off"
ShellAtWork == pc["shell"] \in Working \cup {"scan"} => shell = "keep"

\* What the save in progress has written so far.
Written ==
    /\ phase \in {"optim", "data", "commit"} => "model" \in ckpt[step]
    /\ phase \in {"data", "commit"} => "optim" \in ckpt[step]
    /\ phase = "commit" => "data" \in ckpt[step]

\* The keepers only ever touch committed steps.
KeepersBehind ==
    \A k \in Keepers :
       /\ todo[k] \subseteq 1 .. tracker
       /\ pc[k] \in Working => at[k] \in 1 .. tracker
LinksBehind == \A s \in Steps : kept[s] # {} \/ partial[s] # {} => s <= tracker

Shape ==
    /\ ckpt = [s \in Steps |-> ckpt[s]]
    /\ kept = [s \in Steps |-> kept[s]] /\ partial = [s \in Steps |-> partial[s]]
    /\ pc = [k \in Keepers |-> pc[k]] /\ todo = [k \in Keepers |-> todo[k]]
    /\ at = [k \in Keepers |-> at[k]]

DirInv ==
    /\ Shape /\ Positions /\ ShellAtWork /\ Written /\ KeepersBehind /\ LinksBehind
    /\ TrackerIsResumable

\* verl never deletes the tracked step: an older one is remembered when something has to go.
LEMMA TrackedIsNotOutdated ==
    ASSUME Positions PROVE tracker \notin Outdated
<1>. SUFFICES ASSUME tracker \in Outdated PROVE FALSE
    OBVIOUS
<1>1. Cardinality(paths) >= ToKeep /\ tracker \in paths /\ \A t \in paths : tracker <= t
    BY DEF Outdated
<1>2. paths = {tracker}
    <2>1. \A t \in paths : t \in 1 .. tracker /\ tracker <= t
        BY <1>1 DEF Positions
    <2>2. \A t \in paths : t = tracker
        BY <2>1, CheckpointsAssumption DEF Positions
    <2>. QED
        BY <1>1, <2>2
<1>3. Cardinality(paths) = 1
    BY <1>2, FS_Singleton
<1>. QED
    BY <1>1, <1>3, CheckpointsAssumption

LEMMA DirInvInit == Init => DirInv
BY CheckpointsAssumption DEF Working, Init, DirInv, Shape, ShellAtWork, Keepers, Positions, Written, KeepersBehind,
   LinksBehind, TrackerIsResumable, None, All, Steps, Writing

LEMMA TrainerKeeps == DirInv /\ TrainerStep => DirInv'
<1>. SUFFICES ASSUME DirInv, TrainerStep PROVE DirInv'
    OBVIOUS
<1>. USE CheckpointsAssumption DEF DirInv, Steps, store, keeper, job
<1>0. ShellAtWork'
    BY DEF TrainerStep, BeginSave, WriteFile, Commit, ShellAtWork
<1>1. CASE BeginSave
    <2>1. tracker \notin Outdated
        BY TrackedIsNotOutdated
    <2>2. \A s \in Steps : s # tracker + 1 /\ s \notin Outdated => ckpt'[s] = ckpt[s]
        BY <1>1 DEF BeginSave, Positions
    <2>3. Shape' /\ Positions'
        <3>1. Shape'
            BY <1>1 DEF BeginSave, Shape
        <3>2. paths' \subseteq 1 .. tracker' /\ (paths' # {} => tracker' \in paths')
            BY <1>1, <2>1 DEF BeginSave, Positions
        <3>3. /\ phase' = "model" /\ step' = tracker' + 1 /\ step' <= LastStep
              /\ shell' = shell /\ phase = "train" /\ tracker' = tracker
            BY <1>1 DEF BeginSave, Positions
        <3>. QED
            BY <3>1, <3>2, <3>3 DEF Positions, Writing
    <2>4. Written' /\ KeepersBehind' /\ LinksBehind'
        BY <1>1 DEF BeginSave, Written, KeepersBehind, LinksBehind
    <2>5. TrackerIsResumable'
        BY <1>1, <2>1, <2>2 DEF BeginSave, TrackerIsResumable, Resumable, Positions
    <2>. QED
        BY <1>0, <2>3, <2>4, <2>5
<1>2. CASE WriteFile
    <2>1. step = tracker + 1 /\ step \in Steps
        BY <1>2 DEF WriteFile, Positions, Writing, Files
    <2>2. Shape' /\ Positions'
        BY <1>2, <2>1 DEF WriteFile, Shape, Positions, Writing, Files
    <2>3. Written'
        BY <1>2, <2>1 DEF WriteFile, Written, Shape, Files
    <2>4. KeepersBehind' /\ LinksBehind'
        BY <1>2 DEF WriteFile, KeepersBehind, LinksBehind
    <2>5. \A s \in Steps : s # step => ckpt'[s] = ckpt[s]
        BY <1>2 DEF WriteFile, Shape
    <2>6. TrackerIsResumable'
        BY <1>2, <2>1, <2>5 DEF WriteFile, TrackerIsResumable, Resumable, Positions
    <2>. QED
        BY <1>0, <2>2, <2>3, <2>4, <2>6
<1>3. CASE Commit
    <2>1. step = tracker + 1 /\ step \in Steps
        BY <1>3 DEF Commit, Positions, Writing
    <2>2. Shape' /\ Positions' /\ Written'
        BY <1>3, <2>1 DEF Commit, Shape, Positions, Written, Writing
    <2>3. KeepersBehind' /\ LinksBehind'
        BY <1>3, <2>1 DEF Commit, KeepersBehind, LinksBehind, Positions
    <2>4. TrackerIsResumable'
        BY <1>3 DEF Commit, Written, TrackerIsResumable, Resumable, Files
    <2>. QED
        BY <1>0, <2>2, <2>3, <2>4
<1>. QED
    BY <1>1, <1>2, <1>3 DEF TrainerStep

LEMMA KeepersKeep == ASSUME DirInv, NEW k \in Keepers, KeeperStep(k) PROVE DirInv'
<1>. USE CheckpointsAssumption DEF DirInv, Steps, disk, store, keeper, job
<1>1. CASE KeepBegin(k)
    <2>1. Shape' /\ Positions' /\ ShellAtWork' /\ Written' /\ LinksBehind' /\ TrackerIsResumable'
        BY <1>1 DEF KeepBegin, Candidates, Shape, Positions, ShellAtWork, Keepers, Written, KeepersBehind, LinksBehind,
           TrackerIsResumable, Resumable
    <2>2. KeepersBehind'
        BY <1>1 DEF Working, KeepBegin, Candidates, Shape, KeepersBehind, Positions
    <2>. QED
        BY <2>1, <2>2
<1>2. CASE KeepClear(k) \/ KeepMake(k) \/ KeepEnter(k) \/ KeepDirs(k)
    <2>0. at[k] \in 1 .. tracker
        BY <1>2 DEF KeepClear, KeepMake, KeepEnter, KeepDirs, KeepersBehind, Working
    <2>1. /\ UNCHANGED <<disk, phase, step, kept, todo, at, job>>
          /\ \E p : pc' = [pc EXCEPT ![k] = p] /\ p \in Working \cup {"scan"}
          /\ \E d : partial' = [partial EXCEPT ![at[k]] = d]
        <3>1. CASE KeepClear(k)
            BY <3>1 DEF KeepClear, Working
        <3>2. CASE KeepMake(k)
            BY <3>2 DEF KeepMake, Working
        <3>3. CASE KeepEnter(k)
            BY <3>3 DEF KeepEnter, Working
        <3>4. CASE KeepDirs(k)
            BY <3>4 DEF KeepDirs, Working
        <3>. QED
            BY <1>2, <3>1, <3>2, <3>3, <3>4
    <2>2. pc[k] \in Working
        BY <1>2 DEF KeepClear, KeepMake, KeepEnter, KeepDirs, Working
    <2>3. Shape' /\ Positions' /\ Written' /\ TrackerIsResumable'
        BY <2>1 DEF Shape, Positions, Written, TrackerIsResumable, Resumable
    <2>4. ShellAtWork'
        BY <2>1, <2>2 DEF ShellAtWork, Keepers, Shape
    <2>5. LinksBehind'
        BY <2>0, <2>1, SMTT(30) DEF Shape, LinksBehind, Positions
    <2>6. KeepersBehind'
        BY <2>0, <2>1 DEF Shape, KeepersBehind
    <2>. QED
        BY <2>3, <2>4, <2>5, <2>6
<1>3. CASE KeepFail(k)
    BY <1>3 DEF Working, KeepFail, Shape, Positions, ShellAtWork, Keepers, Written, KeepersBehind, LinksBehind,
       TrackerIsResumable, Resumable
<1>4. CASE KeepPlace(k)
    BY <1>4 DEF Working, KeepPlace, Shape, Positions, ShellAtWork, Keepers, Written, KeepersBehind, LinksBehind,
       TrackerIsResumable, Resumable
<1>5. CASE KeepEnd(k)
    <2>1. Shape' /\ Positions' /\ ShellAtWork' /\ Written' /\ LinksBehind' /\ TrackerIsResumable'
        BY <1>5 DEF Working, KeepEnd, Shape, Positions, ShellAtWork, Keepers, Written, KeepersBehind, LinksBehind,
           TrackerIsResumable, Resumable
    <2>2. KeepersBehind'
        BY <1>5 DEF Working, KeepEnd, Shape, KeepersBehind
    <2>. QED
        BY <2>1, <2>2
<1>6. CASE \E s \in Steps : KeepSkip(k, s) \/ KeepChoose(k, s)
    <2>. PICK s \in Steps : KeepSkip(k, s) \/ KeepChoose(k, s)
        BY <1>6
    <2>1. Shape' /\ Positions' /\ ShellAtWork' /\ Written' /\ LinksBehind' /\ TrackerIsResumable'
        BY DEF KeepSkip, KeepChoose, Shape, Positions, ShellAtWork, Keepers, Written, KeepersBehind, LinksBehind,
           TrackerIsResumable, Resumable
    <2>2. /\ todo'[k] \subseteq todo[k] /\ s \in todo[k]
          /\ pc'[k] \in Working => at'[k] = s
        BY DEF Working, KeepSkip, KeepChoose, Shape
    <2>3. \A j \in Keepers : j # k => todo'[j] = todo[j] /\ pc'[j] = pc[j] /\ at'[j] = at[j]
        BY DEF KeepSkip, KeepChoose, Shape
    <2>4. tracker' = tracker
        BY DEF KeepSkip, KeepChoose
    <2>5. KeepersBehind'
        BY <2>2, <2>3, <2>4 DEF KeepersBehind
    <2>. QED
        BY <2>1, <2>5
<1>7. ASSUME NEW f \in Files, KeepLink(k, f) PROVE DirInv'
    BY <1>7 DEF KeepLink, Shape, Positions, ShellAtWork, Keepers, Written, KeepersBehind, LinksBehind,
       TrackerIsResumable, Resumable
<1>. QED
    BY <1>1, <1>2, <1>3, <1>4, <1>5, <1>6, <1>7 DEF KeeperStep

LEMMA ShellKeeps == DirInv /\ ShellStep => DirInv'
<1>. SUFFICES ASSUME DirInv, ShellStep PROVE DirInv'
    OBVIOUS
<1>. USE CheckpointsAssumption DEF DirInv, Steps, disk, store, keeper, job
<1>1. CASE Prune
    <2>1. tracker \in Steps => ckpt'[tracker] = ckpt[tracker]
        BY <1>1 DEF Prune, Stale
    <2>2. phase' = phase /\ phase = "off"
        BY <1>1 DEF Prune, Positions
    <2>. QED
        BY <1>1, <2>1, <2>2 DEF Prune, Shape, Positions, ShellAtWork, Keepers, Written, KeepersBehind, LinksBehind,
           TrackerIsResumable, Resumable, Writing
<1>2. CASE StageOutEnds
    BY <1>2 DEF Working, StageOutEnds, Shape, Positions, ShellAtWork, Keepers, Written, KeepersBehind, LinksBehind,
       TrackerIsResumable, Resumable
<1>3. CASE ChildEnds \/ Signal
    BY <1>3 DEF Working, ChildEnds, Signal, Shape, Positions, ShellAtWork, Keepers, Written, KeepersBehind, LinksBehind,
       TrackerIsResumable, Resumable, Writing
<1>4. CASE Vanish \/ NextJob
    BY <1>4 DEF Working, Vanish, NextJob, All, Shape, Positions, ShellAtWork, Keepers, Written, KeepersBehind, LinksBehind,
       TrackerIsResumable, Resumable, Writing
<1>. QED
    BY <1>1, <1>2, <1>3, <1>4 DEF ShellStep

LEMMA DirInvStep == DirInv /\ [Next]_vars => DirInv'
<1>1. DirInv /\ UNCHANGED vars => DirInv'
    BY DEF DirInv, vars, disk, store, keeper, job, ShellAtWork, Shape, Positions, Written, KeepersBehind,
       LinksBehind, TrackerIsResumable, Resumable
<1>. QED
    BY <1>1, TrainerKeeps, KeepersKeep, ShellKeeps DEF Next

\* The step the tracker names can always be resumed from.
THEOREM TrackerIsAlwaysResumable == Spec => []TrackerIsResumable
<1>1. DirInv => TrackerIsResumable
    BY DEF DirInv
<1>. QED
    BY <1>1, DirInvInit, DirInvStep, PTL DEF Spec

\* No file that is a hard link of a kept one is ever written.
THEOREM KeptStepsAreNeverRewritten == Spec => []KeptStepsAreNotRewritten
<1>1. DirInv => KeptStepsAreNotRewritten
    BY CheckpointsAssumption
       DEF DirInv, KeptStepsAreNotRewritten, Positions, LinksBehind, Steps
<1>. QED
    BY <1>1, DirInvInit, DirInvStep, PTL DEF Spec

-----------------------------------------------------------------------------
\* Every variable keeps its type; above all, no kept checkpoint holds the optimizer.
THEOREM TypesAlwaysHold == Spec => []TypeOK
<1>. USE CheckpointsAssumption DEF Steps
<1>1. Init => TypeOK
    <2>1. ASSUME Init PROVE /\ ckpt \in [Steps -> SUBSET (Files \cup {"."})]
                            /\ kept \in [Steps -> SUBSET {"model", "data", "actor", ".", "nested"}]
                            /\ partial \in [Steps -> SUBSET {"model", "data", "actor", "."}]
        BY <2>1 DEF Init, None
    <2>2. ASSUME Init PROVE /\ pc \in [Keepers -> Working \cup {"rest", "scan", "dead"}]
                            /\ latest \in [Keepers -> 0 .. LastStep] /\ todo \in [Keepers -> SUBSET Steps]
                            /\ at \in [Keepers -> 0 .. LastStep] /\ files \in [Keepers -> SUBSET {"model", "data"}]
        BY <2>2 DEF Init, All
    <2>3. ASSUME Init PROVE /\ tracker \in 0 .. LastStep /\ step \in 0 .. LastStep
                            /\ passed \in 0 .. LastStep /\ raced \subseteq Steps
        BY <2>3 DEF Init
    <2>4. ASSUME Init PROVE /\ paths \subseteq Steps /\ phase \in Writing \cup {"train", "off"}
                            /\ shell \in {"wait", "keep", "prune", "stop", "gone"} /\ exiting \in BOOLEAN
                            /\ outs \in Nat /\ signals \in Nat /\ lives \in Nat
        BY <2>4 DEF Init
    <2>. QED
        BY <2>1, <2>2, <2>3, <2>4 DEF TypeOK
<1>2. ASSUME TypeOK, DirInv, TrainerStep PROVE TypeOK'
    <2>. USE <1>2 DEF TypeOK, store, keeper, job
    <2>1. CASE BeginSave
        <3>1. step + 1 \in Steps
            BY <2>1 DEF BeginSave
        <3>2. ckpt' \in [Steps -> SUBSET (Files \cup {"."})]
            <4>1. ckpt' = [s \in Steps |-> ckpt'[s]]
                BY <2>1 DEF BeginSave
            <4>2. \A s \in Steps : ckpt'[s] \subseteq Files \cup {"."}
                BY <2>1 DEF BeginSave
            <4>. QED
                BY <4>1, <4>2
        <3>3. paths' \subseteq Steps
            BY <2>1 DEF BeginSave
        <3>4. phase' \in Writing /\ step' \in 0 .. LastStep
            BY <2>1, <3>1 DEF BeginSave, Writing
        <3>. QED
            BY <2>1, <3>2, <3>3, <3>4 DEF BeginSave
    <2>2. CASE WriteFile
        <3>1. step \in Steps /\ phase \in Files /\ phase' \in Writing
            BY <2>2 DEF WriteFile, DirInv, Positions, Files, Writing
        <3>2. ckpt' \in [Steps -> SUBSET (Files \cup {"."})]
            BY <2>2, <3>1 DEF WriteFile
        <3>. QED
            BY <2>2, <3>1, <3>2 DEF WriteFile
    <2>3. CASE Commit
        <3>1. step \in Steps
            BY <2>3 DEF Commit, DirInv, Positions
        <3>. QED
            BY <2>3, <3>1 DEF Commit
    <2>. QED
        BY <1>2, <2>1, <2>2, <2>3 DEF TrainerStep
<1>3. ASSUME TypeOK, DirInv, NEW k \in Keepers, KeeperStep(k) PROVE TypeOK'
    <2>. USE <1>3 DEF TypeOK, disk, store, job
    <2>1. CASE KeepBegin(k)
        <3>1. pc' \in [Keepers -> Working \cup {"rest", "scan", "dead"}]
            BY <2>1 DEF KeepBegin
        <3>2. latest' \in [Keepers -> 0 .. LastStep]
            BY <2>1 DEF KeepBegin
        <3>3. todo' \in [Keepers -> SUBSET Steps]
            <4>1. Candidates \in SUBSET Steps
                BY DEF Candidates
            <4>. QED
                BY <2>1, <4>1 DEF KeepBegin
        <3>. QED
            BY <2>1, <3>1, <3>2, <3>3 DEF KeepBegin
    <2>2. CASE \E s \in Steps : KeepSkip(k, s) \/ KeepChoose(k, s)
        <3>1. PICK s \in Steps : KeepSkip(k, s) \/ KeepChoose(k, s)
            BY <2>2
        <3>2. todo' \in [Keepers -> SUBSET Steps]
            <4>1. todo' = [todo EXCEPT ![k] = @ \ {s}]
                BY <3>1 DEF KeepSkip, KeepChoose
            <4>. QED
                BY <4>1
        <3>3. CASE KeepSkip(k, s)
            BY <3>2, <3>3 DEF KeepSkip
        <3>4. CASE KeepChoose(k, s)
            <4>1. at' \in [Keepers -> 0 .. LastStep] /\ raced' \subseteq Steps
                BY <3>4 DEF KeepChoose
            <4>2. pc' \in [Keepers -> Working \cup {"rest", "scan", "dead"}]
                BY <3>4 DEF KeepChoose, Working
            <4>. QED
                BY <3>2, <3>4, <4>1, <4>2 DEF KeepChoose
        <3>. QED
            BY <3>1, <3>3, <3>4
    <2>. DEFINE Linked == [Steps -> SUBSET {"model", "data", "actor", "."}]
    <2>3. CASE KeepClear(k) \/ KeepMake(k) \/ KeepEnter(k) \/ KeepDirs(k)
        <3>0. at[k] \in Steps
            BY <2>3 DEF KeepClear, KeepMake, KeepEnter, KeepDirs, Working, DirInv, Positions,
               KeepersBehind
        <3>1. Linkable(at[k]) \subseteq {"model", "data"}
            BY <3>0 DEF Linkable, Files
        <3>2. files' \in [Keepers -> SUBSET {"model", "data"}]
            BY <2>3, <3>1 DEF KeepClear, KeepMake, KeepEnter, KeepDirs
        <3>3. partial' \in Linked
            <4>1. CASE KeepClear(k)
                BY <4>1 DEF KeepClear
            <4>4. CASE KeepMake(k)
                BY <4>4 DEF KeepMake
            <4>2. CASE KeepEnter(k)
                BY <4>2 DEF KeepEnter
            <4>3. CASE KeepDirs(k)
                BY <4>3 DEF KeepDirs
            <4>. QED
                BY <2>3, <4>1, <4>2, <4>3, <4>4
        <3>4. pc' \in [Keepers -> Working \cup {"rest", "scan", "dead"}]
            BY <2>3 DEF KeepClear, KeepMake, KeepEnter, KeepDirs, Working
        <3>. QED
            BY <2>3, <3>2, <3>3, <3>4 DEF KeepClear, KeepMake, KeepEnter, KeepDirs
    <2>4. CASE \E f \in Files : KeepLink(k, f)
        <3>1. PICK f \in Files : KeepLink(k, f)
            BY <2>4
        <3>2. f \in {"model", "data"} /\ partial' \in Linked
            <4>1. f \in {"model", "data"}
                BY <3>1 DEF KeepLink
            <4>2. CASE f \in ckpt[at[k]] /\ Parent(f) \in partial[at[k]]
                BY <3>1, <4>1, <4>2 DEF KeepLink
            <4>3. CASE ~(f \in ckpt[at[k]] /\ Parent(f) \in partial[at[k]])
                BY <3>1, <4>3 DEF KeepLink
            <4>. QED
                BY <4>1, <4>2, <4>3
        <3>. QED
            BY <3>1, <3>2 DEF KeepLink
    <2>5. CASE KeepFail(k)
        <3>1. partial' \in Linked /\ files' \in [Keepers -> SUBSET {"model", "data"}]
            BY <2>5 DEF KeepFail
        <3>. QED
            BY <2>5, <3>1 DEF KeepFail
    <2>6. CASE KeepPlace(k)
        <3>1. partial' \in Linked /\ kept' \in [Steps -> SUBSET {"model", "data", "actor", ".", "nested"}]
            <4>1. partial' \in Linked
                BY <2>6 DEF KeepPlace
            <4>2. \A s \in Steps : kept'[s] \subseteq {"model", "data", "actor", ".", "nested"}
                BY <2>6 DEF KeepPlace
            <4>3. kept' = [s \in Steps |-> kept'[s]]
                BY <2>6 DEF KeepPlace
            <4>. QED
                BY <4>1, <4>2, <4>3
        <3>. QED
            BY <2>6, <3>1 DEF KeepPlace
    <2>7. CASE KeepEnd(k)
        BY <2>7 DEF KeepEnd
    <2>. QED
        BY <1>3, <2>1, <2>2, <2>3, <2>4, <2>5, <2>6, <2>7 DEF KeeperStep
<1>4. ASSUME TypeOK, ShellStep PROVE TypeOK'
    <2>. USE <1>4 DEF TypeOK, disk, store, keeper, job
    <2>1. CASE Prune
        <3>1. ckpt' \in [Steps -> SUBSET (Files \cup {"."})]
            BY <2>1 DEF Prune
        <3>. QED
            BY <2>1, <3>1 DEF Prune
    <2>2. CASE StageOutEnds
        <3>1. pc' \in [Keepers -> Working \cup {"rest", "scan", "dead"}]
            BY <2>2 DEF StageOutEnds
        <3>2. outs' \in Nat /\ shell' \in {"wait", "keep", "prune", "stop", "gone"} /\ exiting' \in BOOLEAN
            BY <2>2 DEF StageOutEnds
        <3>. QED
            BY <2>2, <3>1, <3>2 DEF StageOutEnds
    <2>3. CASE ChildEnds
        BY <2>3 DEF ChildEnds
    <2>6. CASE Signal
        <3>1. pc' \in [Keepers -> Working \cup {"rest", "scan", "dead"}]
            BY <2>6 DEF Signal
        <3>2. signals' \in Nat
            BY <2>6 DEF Signal
        <3>. QED
            BY <2>6, <3>1, <3>2 DEF Signal
    <2>4. CASE Vanish
        BY <2>4 DEF Vanish, All
    <2>5. CASE NextJob
        <3>1. /\ pc' \in [Keepers -> Working \cup {"rest", "scan", "dead"}]
              /\ latest' \in [Keepers -> 0 .. LastStep] /\ todo' \in [Keepers -> SUBSET Steps]
              /\ at' \in [Keepers -> 0 .. LastStep] /\ files' \in [Keepers -> SUBSET {"model", "data"}]
            BY <2>5 DEF NextJob, All
        <3>2. lives' \in Nat /\ step' \in 0 .. LastStep /\ passed' \in 0 .. LastStep
            BY <2>5 DEF NextJob
        <3>. QED
            BY <2>5, <3>1, <3>2 DEF NextJob
    <2>. QED
        BY <1>4, <2>1, <2>2, <2>3, <2>4, <2>5, <2>6 DEF ShellStep
<1>5. ASSUME TypeOK, UNCHANGED vars PROVE TypeOK'
    BY <1>5 DEF TypeOK, vars, disk, store, keeper, job
<1>6. TypeOK /\ DirInv /\ [Next]_vars => TypeOK'
    BY <1>2, <1>3, <1>4, <1>5 DEF Next
<1>7. Spec => []DirInv
    BY DirInvInit, DirInvStep, PTL DEF Spec
<1>. QED
    BY <1>1, <1>6, <1>7, PTL DEF Spec

-----------------------------------------------------------------------------
(***************************************************************************)
(* What a pass of mc_keep_checkpoints achieves.  A step that is not        *)
(* eligible is kept or has lost its weights, and stays so: a pass settles  *)
(* the landmarks it listed one by one, whatever verl deletes, the other    *)
(* keeper moves or a signal starts over meanwhile.  Only where the other   *)
(* keeper was at the same step ("raced") can its .partial disappear.       *)
(***************************************************************************)
Landmarks(n) == {s \in Steps : s <= n /\ s % Every = 0}

\* A step with weights has a directory, and so has the one being written.
Housed == \A s \in Steps : "model" \in ckpt[s] \/ (phase \in Writing /\ s = step) => Exists(s)

AtWork(k) == pc[k] \in Working /\ at[k] \notin raced

\* Where a keeper is that does not race, the other one is not.
Alone == \A k \in Keepers : AtWork(k) => \A j \in Keepers \ {k} : pc[j] \in Working => at[j] # at[k]

\* The .partial it has made stays there.
Moved == \A k \in Keepers : AtWork(k) /\ pc[k] \in {"enter", "dirs", "link"} => "." \in partial[at[k]]

\* A pass has settled all it does not have on its list or in its hands.
Passes ==
    \A k \in Keepers :
        /\ todo[k] \subseteq Landmarks(tracker)
        /\ pc[k] \in Working => at[k] \in Landmarks(tracker)
        /\ pc[k] \in Working \cup {"scan"} =>
              /\ latest[k] <= tracker
              /\ k = "shell" => latest[k] = tracker
              /\ \A s \in Landmarks(latest[k]) \ raced :
                    \/ ~Eligible(s)
                    \/ s \in todo[k]
                    \/ pc[k] # "scan" /\ at[k] = s
Passed == passed <= tracker /\ \A s \in Landmarks(passed) \ raced : ~Eligible(s)

\* The shell prunes after its pass; a second stage-out finds nothing left to do.
Swept == shell \in {"prune", "stop"} \/ outs > 0 => \A s \in Landmarks(tracker) \ raced : ~Eligible(s)
Still == shell = "stop" \/ outs > 0 => Stale = {}
After == outs > 0 => shell # "wait" /\ pc["loop"] = "dead" /\ ~AtWork("shell")

PassInv == Housed /\ Alone /\ Moved /\ Passes /\ Passed /\ Swept /\ Still /\ After

LEMMA LandmarksOf ==
    ASSUME NEW n \in 0 .. LastStep
    PROVE  /\ Landmarks(n) \subseteq Steps /\ Landmarks(n) \subseteq 1 .. n
           /\ \A m \in 0 .. LastStep : \A s \in Landmarks(n) : s <= m => s \in Landmarks(m)
    BY CheckpointsAssumption DEF Landmarks, Steps

LEMMA CandidatesAre == Candidates = {s \in Landmarks(tracker) : Exists(s)}
    BY DEF Candidates, Landmarks

\* No kept step is ever lost.
LEMMA KeptIsKept ==
    ASSUME TypeOK, [Next]_vars, NEW s \in 1 .. tracker, kept[s] # {}
    PROVE  kept'[s] # {}
<1>. USE DEF disk, store, keeper, job
<1>0. s \in Steps
    BY CheckpointsAssumption DEF TypeOK, Steps
<1>1. CASE kept' = kept
    BY <1>1
<1>2. CASE \E k \in Keepers : KeepPlace(k)
    <2>1. PICK k \in Keepers : KeepPlace(k)
        BY <1>2
    <2>2. kept' = [kept EXCEPT ![at[k]] = IF partial[at[k]] = {} THEN @
                                          ELSE IF @ = {} THEN partial[at[k]]
                                          ELSE @ \cup {"nested"}]
        BY <2>1 DEF KeepPlace
    <2>. QED
        BY <1>0, <2>2 DEF TypeOK
<1>. QED
    BY <1>1, <1>2 DEF Next, TrainerStep, KeeperStep, ShellStep, BeginSave, WriteFile, Commit,
       KeepBegin, KeepSkip, KeepChoose, KeepClear, KeepMake, KeepEnter, KeepDirs, KeepLink, KeepFail, KeepEnd, Prune,
       StageOutEnds, ChildEnds, Signal, Vanish, NextJob, vars

\* No committed step gets its weights back.
LEMMA GoneIsGone ==
    ASSUME DirInv, TypeOK, [Next]_vars, NEW s \in 1 .. tracker, "model" \in ckpt'[s]
    PROVE  "model" \in ckpt[s]
<1>. USE DEF disk, store, keeper, job
<1>0. s \in Steps /\ s <= tracker /\ tracker \in 0 .. LastStep /\ LastStep \in Nat
    BY CheckpointsAssumption DEF TypeOK, Steps
<1>1. CASE ckpt' = ckpt
    BY <1>1
<1>2. CASE BeginSave
    BY <1>0, <1>2 DEF BeginSave
<1>3. CASE WriteFile
    <2>1. step = tracker + 1
        BY <1>3 DEF WriteFile, DirInv, Positions, Writing, Files
    <2>2. s # step
        BY <1>0, <2>1
    <2>. QED
        BY <1>0, <1>3, <2>2 DEF WriteFile, TypeOK
<1>4. CASE Prune
    BY <1>0, <1>4 DEF Prune
<1>. QED
    BY <1>1, <1>2, <1>3, <1>4 DEF Next, TrainerStep, KeeperStep, ShellStep, Commit,
       KeepBegin, KeepSkip, KeepChoose, KeepClear, KeepMake, KeepEnter, KeepDirs, KeepLink, KeepFail, KeepPlace, KeepEnd,
       StageOutEnds, ChildEnds, Signal, Vanish, NextJob, vars

LEMMA Settled ==
    ASSUME DirInv, TypeOK, [Next]_vars, NEW s \in 1 .. tracker
    PROVE  kept[s] # {} \/ "model" \notin ckpt[s] => kept'[s] # {} \/ "model" \notin ckpt'[s]
    BY KeptIsKept, GoneIsGone

LEMMA HousedKeeps == DirInv /\ TypeOK /\ Housed /\ [Next]_vars => Housed'
<1>. SUFFICES ASSUME DirInv, TypeOK, Housed, [Next]_vars PROVE Housed'
    OBVIOUS
<1>. USE CheckpointsAssumption DEF disk, store, keeper, job, Exists
<1>1. CASE BeginSave
    <2>1. phase' \in Writing /\ step' = step + 1 /\ step + 1 \in Steps
        BY <1>1 DEF BeginSave, TypeOK, Writing, Steps
    <2>2. ASSUME NEW s \in Steps, "model" \in ckpt'[s] \/ s = step + 1 PROVE "." \in ckpt'[s]
        <3>1. ckpt'[s] = IF s \in Outdated THEN ckpt[s] \ Actor
                         ELSE IF s = step + 1 THEN ckpt[s] \cup {"."} ELSE ckpt[s]
            BY <1>1 DEF BeginSave
        <3>2. step + 1 \notin Outdated
            BY <1>1 DEF BeginSave, Outdated, DirInv, Positions
        <3>. QED
            BY <2>2, <3>1, <3>2 DEF Housed, Actor
    <2>. QED
        BY <2>1, <2>2 DEF Housed
<1>2. CASE WriteFile
    <2>1. phase \in Writing /\ step' = step
        BY <1>2 DEF WriteFile, Writing, Files
    <2>2. \A s \in Steps : /\ ckpt[s] \subseteq ckpt'[s]
                           /\ s # step => ckpt'[s] = ckpt[s]
        BY <1>2 DEF WriteFile, TypeOK
    <2>. QED
        BY <2>1, <2>2 DEF Housed
<1>3. CASE Commit
    BY <1>3 DEF Commit, Housed, Writing
<1>4. CASE Prune
    <2>1. phase = "off" /\ phase' = phase
        BY <1>4 DEF Prune, DirInv, Positions
    <2>2. \A s \in Steps : ckpt'[s] = {} \/ ckpt'[s] = ckpt[s]
        BY <1>4 DEF Prune
    <2>. QED
        BY <2>1, <2>2 DEF Housed, Writing
<1>5. CASE ckpt' = ckpt /\ ((phase' = phase /\ step' = step) \/ phase' \notin Writing)
    BY <1>5 DEF Housed
<1>6. CASE NextJob \/ ChildEnds \/ Signal \/ Vanish
    BY <1>5, <1>6 DEF NextJob, ChildEnds, Signal, Vanish, Writing
<1>. QED
    BY <1>1, <1>2, <1>3, <1>4, <1>5, <1>6 DEF Next, TrainerStep, KeeperStep, ShellStep,
       KeepBegin, KeepSkip, KeepChoose, KeepClear, KeepMake, KeepEnter, KeepDirs, KeepLink, KeepFail, KeepPlace, KeepEnd,
       StageOutEnds, vars

\* What has raced once is never counted as calm again; KeepChoose alone puts a keeper at a step.
LEMMA RacedGrows == [Next]_vars => raced \subseteq raced'
<1>. SUFFICES ASSUME [Next]_vars PROVE raced \subseteq raced'
    OBVIOUS
<1>1. CASE \E k \in Keepers, s \in Steps : KeepChoose(k, s)
    BY <1>1 DEF KeepChoose
<1>2. CASE raced' = raced
    BY <1>2
<1>. QED
    BY <1>1, <1>2 DEF Next, TrainerStep, KeeperStep, ShellStep, BeginSave, WriteFile, Commit,
       KeepBegin, KeepSkip, KeepClear, KeepMake, KeepEnter, KeepDirs, KeepLink, KeepFail,
       KeepPlace, KeepEnd, Prune, StageOutEnds, ChildEnds, Signal, Vanish, NextJob, vars, disk,
       store, keeper, job

\* The step of one keeper leaves the other's place alone.
LEMMA OthersStay ==
    ASSUME TypeOK, NEW k \in Keepers, NEW j \in Keepers \ {k}, KeeperStep(j)
    PROVE  /\ pc'[k] = pc[k] /\ at'[k] = at[k] /\ todo'[k] = todo[k]
           /\ latest'[k] = latest[k] /\ files'[k] = files[k]
           /\ tracker' = tracker /\ ckpt' = ckpt
BY DEF KeeperStep, KeepBegin, KeepSkip, KeepChoose, KeepClear, KeepMake, KeepEnter, KeepDirs,
   KeepLink, KeepFail, KeepPlace, KeepEnd, TypeOK, disk, store, keeper, job

LEMMA StayPut ==
    ASSUME TypeOK, [Next]_vars, NEW k \in Keepers, pc'[k] \in Working,
           ~\E s \in Steps : KeepChoose(k, s)
    PROVE  pc[k] \in Working /\ at'[k] = at[k]
<1>. USE DEF disk, store, keeper, job
<1>1. CASE \E j \in Keepers \ {k} : KeeperStep(j)
    BY <1>1, OthersStay
<1>2. CASE KeeperStep(k)
    <2>1. CASE KeepBegin(k) \/ KeepEnd(k) \/ KeepFail(k) \/ KeepPlace(k)
        BY <2>1 DEF KeepBegin, KeepEnd, KeepFail, KeepPlace, TypeOK, Working
    <2>2. CASE \E s \in Steps : KeepSkip(k, s)
        BY <2>2 DEF KeepSkip, Working
    <2>3. CASE KeepClear(k) \/ KeepMake(k) \/ KeepEnter(k) \/ KeepDirs(k)
        BY <2>3 DEF KeepClear, KeepMake, KeepEnter, KeepDirs, Working
    <2>4. CASE \E f \in Files : KeepLink(k, f)
        BY <2>4 DEF KeepLink
    <2>. QED
        BY <1>2, <2>1, <2>2, <2>3, <2>4 DEF KeeperStep
<1>3. CASE TrainerStep \/ UNCHANGED vars
    BY <1>3 DEF TrainerStep, BeginSave, WriteFile, Commit, vars
<1>4. CASE ShellStep
    BY <1>4 DEF ShellStep, Prune, StageOutEnds, ChildEnds, Signal, Vanish, NextJob, All, TypeOK,
       Working
<1>. QED
    BY <1>1, <1>2, <1>3, <1>4 DEF Next

LEMMA WasAtWork ==
    ASSUME TypeOK, [Next]_vars, NEW k \in Keepers, AtWork(k)',
           ~\E s \in Steps : KeepChoose(k, s)
    PROVE  AtWork(k) /\ at'[k] = at[k]
BY StayPut, RacedGrows DEF AtWork

LEMMA AloneKeeps == TypeOK /\ Alone /\ [Next]_vars => Alone'
<1>. SUFFICES ASSUME TypeOK, Alone, [Next]_vars, NEW k \in Keepers, AtWork(k)',
                     NEW j \in Keepers \ {k}, pc'[j] \in Working, at'[j] = at'[k]
              PROVE  FALSE
    BY DEF Alone
<1>1. CASE \E s \in Steps : KeepChoose(k, s)
    <2>1. PICK s \in Steps : KeepChoose(k, s)
        BY <1>1
    <2>2. at'[k] = s /\ pc'[j] = pc[j] /\ at'[j] = at[j]
        BY <2>1 DEF KeepChoose, TypeOK
    <2>3. s \in raced'
        BY <2>1, <2>2 DEF KeepChoose
    <2>. QED
        BY <2>2, <2>3 DEF AtWork
<1>2. CASE \E s \in Steps : KeepChoose(j, s)
    <2>1. PICK s \in Steps : KeepChoose(j, s)
        BY <1>2
    <2>2. at'[j] = s /\ pc'[k] = pc[k] /\ at'[k] = at[k]
        BY <2>1 DEF KeepChoose, TypeOK
    <2>3. k \in Keepers \ {j} /\ pc[k] \in Working /\ at[k] = s
        BY <2>2 DEF AtWork
    <2>4. s \in raced'
        BY <2>1, <2>3 DEF KeepChoose
    <2>. QED
        BY <2>2, <2>3, <2>4 DEF AtWork
<1>3. CASE ~(\E s \in Steps : KeepChoose(k, s)) /\ ~(\E s \in Steps : KeepChoose(j, s))
    <2>1. AtWork(k) /\ at'[k] = at[k]
        BY <1>3, WasAtWork
    <2>2. pc[j] \in Working /\ at'[j] = at[j]
        BY <1>3, StayPut
    <2>. QED
        BY <2>1, <2>2 DEF Alone
<1>. QED
    BY <1>1, <1>2, <1>3

\* What a keeper has in its hands alone, the other one does not touch.
LEMMA OnesOwn ==
    ASSUME DirInv, TypeOK, Alone, NEW k \in Keepers, AtWork(k),
           NEW j \in Keepers \ {k}, KeeperStep(j)
    PROVE  partial'[at[k]] = partial[at[k]] /\ kept'[at[k]] = kept[at[k]]
<1>. USE DEF disk, store, keeper, job
<1>1. pc[j] \in Working => at[j] # at[k]
    BY DEF Alone
<1>2. at[k] \in Steps
    BY CheckpointsAssumption DEF AtWork, DirInv, Positions, KeepersBehind, Steps
<1>3. CASE KeepBegin(j) \/ KeepEnd(j) \/ \E s \in Steps : KeepSkip(j, s) \/ KeepChoose(j, s)
    BY <1>3 DEF KeepBegin, KeepEnd, KeepSkip, KeepChoose
<1>4. CASE KeepClear(j) \/ KeepMake(j) \/ KeepEnter(j) \/ KeepDirs(j)
    <2>1. /\ pc[j] \in Working /\ kept' = kept
          /\ \E d : partial' = [partial EXCEPT ![at[j]] = d]
        BY <1>4 DEF KeepClear, KeepMake, KeepEnter, KeepDirs, Working
    <2>. QED
        BY <1>1, <1>2, <2>1 DEF TypeOK
<1>5. CASE \E f \in Files : KeepLink(j, f)
    <2>1. /\ pc[j] \in Working /\ kept' = kept
          /\ \E d : partial' \in {partial, [partial EXCEPT ![at[j]] = d]}
        BY <1>5 DEF KeepLink, Working
    <2>. QED
        BY <1>1, <1>2, <2>1 DEF TypeOK
<1>6. CASE KeepFail(j) \/ KeepPlace(j)
    <2>1. /\ pc[j] \in Working
          /\ \E d : partial' = [partial EXCEPT ![at[j]] = d]
          /\ \E d : kept' \in {kept, [kept EXCEPT ![at[j]] = d]}
        BY <1>6 DEF KeepFail, KeepPlace, Working
    <2>. QED
        BY <1>1, <1>2, <2>1 DEF TypeOK
<1>. QED
    BY <1>3, <1>4, <1>5, <1>6 DEF KeeperStep

LEMMA MovedKeeps == DirInv /\ TypeOK /\ Alone /\ Moved /\ [Next]_vars => Moved'
<1>. SUFFICES ASSUME DirInv, TypeOK, Alone, Moved, [Next]_vars, NEW k \in Keepers, AtWork(k)',
                     pc'[k] \in {"enter", "dirs", "link"}
              PROVE  "." \in partial'[at'[k]]
    BY DEF Moved
<1>. USE DEF disk, store, keeper, job
<1>1. ~\E s \in Steps : KeepChoose(k, s)
    BY DEF KeepChoose, TypeOK
<1>2. AtWork(k) /\ at'[k] = at[k]
    BY <1>1, WasAtWork
<1>3. at[k] \in Steps
    BY <1>2, CheckpointsAssumption DEF AtWork, DirInv, Positions, KeepersBehind, Steps
<1>4. CASE KeeperStep(k)
    <2>1. CASE KeepMake(k)
        BY <1>2, <1>3, <2>1 DEF KeepMake, TypeOK
    <2>2. CASE KeepEnter(k)
        BY <1>2, <1>3, <2>2 DEF KeepEnter, TypeOK
    <2>3. CASE KeepDirs(k)
        <3>1. "." \in partial[at[k]]
            BY <1>2, <2>3 DEF KeepDirs, Moved
        <3>. QED
            BY <1>2, <1>3, <2>3, <3>1 DEF KeepDirs, TypeOK
    <2>4. CASE \E f \in Files : KeepLink(k, f)
        <3>1. PICK f \in Files : KeepLink(k, f)
            BY <2>4
        <3>2. "." \in partial[at[k]]
            BY <1>2, <3>1 DEF KeepLink, Moved
        <3>. QED
            BY <1>2, <1>3, <3>1, <3>2 DEF KeepLink, TypeOK
    <2>5. CASE KeepBegin(k) \/ KeepEnd(k) \/ KeepFail(k) \/ KeepPlace(k) \/ KeepClear(k)
        BY <2>5 DEF KeepBegin, KeepEnd, KeepFail, KeepPlace, KeepClear, TypeOK
    <2>6. CASE \E s \in Steps : KeepSkip(k, s)
        BY <2>6 DEF KeepSkip
    <2>. QED
        BY <1>1, <1>4, <2>1, <2>2, <2>3, <2>4, <2>5, <2>6 DEF KeeperStep
<1>5. CASE \E j \in Keepers \ {k} : KeeperStep(j)
    <2>1. partial'[at[k]] = partial[at[k]] /\ pc'[k] = pc[k]
        BY <1>2, <1>5, OnesOwn, OthersStay
    <2>. QED
        BY <1>2, <2>1 DEF Moved
<1>6. CASE TrainerStep \/ ShellStep \/ UNCHANGED vars
    <2>1. partial' = partial /\ pc'[k] = pc[k]
        BY <1>6 DEF TrainerStep, ShellStep, BeginSave, WriteFile, Commit, Prune, StageOutEnds,
           ChildEnds, Signal, Vanish, NextJob, vars, TypeOK, All
    <2>. QED
        BY <1>2, <2>1 DEF Moved
<1>. QED
    BY <1>4, <1>5, <1>6 DEF Next

LEMMA TrackerGrows == DirInv /\ [Next]_vars => tracker <= tracker'
<1>. SUFFICES ASSUME DirInv, [Next]_vars PROVE tracker <= tracker'
    OBVIOUS
<1>1. tracker \in 0 .. LastStep
    BY DEF DirInv, Positions
<1>2. CASE Commit
    <2>1. tracker' = tracker + 1
        BY <1>2 DEF Commit, DirInv, Positions, Writing
    <2>. QED
        BY <1>1, <2>1, CheckpointsAssumption
<1>3. CASE tracker' = tracker
    BY <1>1, <1>3, CheckpointsAssumption
<1>. QED
    BY <1>2, <1>3 DEF Next, TrainerStep, KeeperStep, ShellStep, BeginSave, WriteFile, KeepBegin,
       KeepSkip, KeepChoose, KeepClear, KeepMake, KeepEnter, KeepDirs, KeepLink, KeepFail, KeepPlace, KeepEnd, Prune,
       StageOutEnds, ChildEnds, Signal, Vanish, NextJob, vars, disk, store, keeper, job

\* A landmark that is settled stays settled.
LEMMA SettledStay ==
    ASSUME DirInv, TypeOK, [Next]_vars, NEW n \in 0 .. LastStep, n <= tracker,
           NEW s \in Landmarks(n), ~Eligible(s)
    PROVE  kept'[s] # {} \/ "model" \notin ckpt'[s]
<1>1. tracker \in 0 .. LastStep
    BY DEF TypeOK
<1>2. s \in 1 .. tracker
    BY <1>1, LandmarksOf, CheckpointsAssumption
<1>. QED
    BY <1>2, Settled DEF Eligible

LEMMA PassesKeep ==
    DirInv /\ TypeOK /\ Housed /\ Alone /\ Moved /\ Passes /\ [Next]_vars => Passes'
<1>. SUFFICES ASSUME DirInv, TypeOK, Housed, Alone, Moved, Passes, [Next]_vars, NEW k \in Keepers
              PROVE  /\ todo'[k] \subseteq Landmarks(tracker')
                     /\ pc'[k] \in Working => at'[k] \in Landmarks(tracker')
                     /\ pc'[k] \in Working \cup {"scan"} =>
                           /\ latest'[k] <= tracker'
                           /\ k = "shell" => latest'[k] = tracker'
                           /\ \A s \in Landmarks(latest'[k]) \ raced' :
                                 \/ kept'[s] # {} \/ "model" \notin ckpt'[s]
                                 \/ s \in todo'[k]
                                 \/ pc'[k] # "scan" /\ at'[k] = s
    BY DEF Passes, Eligible
<1>. USE DEF disk, store, keeper, job
<1>0. /\ tracker \in 0 .. LastStep /\ tracker <= tracker' /\ tracker' \in 0 .. LastStep
      /\ latest[k] \in 0 .. LastStep /\ LastStep \in Nat /\ raced \subseteq raced'
    <2>1. tracker' \in 0 .. LastStep
        BY DirInvStep DEF DirInv, Positions
    <2>. QED
        BY <2>1, TrackerGrows, RacedGrows, CheckpointsAssumption DEF TypeOK
<1>1. /\ todo[k] \subseteq Landmarks(tracker')
      /\ pc[k] \in Working => at[k] \in Landmarks(tracker')
    BY <1>0, LandmarksOf, CheckpointsAssumption DEF Passes
<1>13. pc'[k] \in Working => at'[k] \in Landmarks(tracker')
    <2>1. CASE \E s \in Steps : KeepChoose(k, s)
        <3>1. PICK s \in Steps : KeepChoose(k, s)
            BY <2>1
        <3>2. at'[k] = s /\ s \in todo[k]
            BY <3>1 DEF KeepChoose, TypeOK
        <3>. QED
            BY <1>1, <3>2
    <2>2. CASE ~\E s \in Steps : KeepChoose(k, s)
        BY <1>1, <2>2, StayPut
    <2>. QED
        BY <2>1, <2>2
\* What is not k's own step: nothing it has settled comes back.
<1>2. ASSUME pc[k] \in Working \cup {"scan"},
             pc'[k] = pc[k] \/ (pc[k] \in Working /\ pc'[k] \in Working),
             latest'[k] = latest[k], todo'[k] = todo[k], at'[k] = at[k],
             k = "shell" => tracker' = tracker
      PROVE  /\ latest'[k] <= tracker'
             /\ k = "shell" => latest'[k] = tracker'
             /\ \A s \in Landmarks(latest'[k]) \ raced' :
                   \/ kept'[s] # {} \/ "model" \notin ckpt'[s]
                   \/ s \in todo'[k]
                   \/ pc'[k] # "scan" /\ at'[k] = s
    <2>1. /\ latest[k] <= tracker
          /\ k = "shell" => latest[k] = tracker
          /\ \A s \in Landmarks(latest[k]) \ raced :
                \/ ~Eligible(s)
                \/ s \in todo[k]
                \/ pc[k] # "scan" /\ at[k] = s
        BY <1>2 DEF Passes
    <2>2. ASSUME NEW s \in Landmarks(latest[k]), ~Eligible(s)
          PROVE  kept'[s] # {} \/ "model" \notin ckpt'[s]
        <3>1. latest[k] \in 0 .. LastStep /\ latest[k] <= tracker
            BY <1>0, <2>1
        <3>. QED
            BY <2>2, <3>1, SettledStay
    <2>3. latest[k] <= tracker'
        BY <1>0, <2>1
    <2>. QED
        BY <1>0, <1>2, <2>1, <2>2, <2>3 DEF Working
<1>3. pc[k] \in Working \cup {"scan"} /\ k = "shell" /\ TrainerStep => FALSE
    BY DEF TrainerStep, BeginSave, WriteFile, Commit, DirInv, ShellAtWork, Positions, Files
<1>4. CASE TrainerStep
    <2>1. UNCHANGED <<pc, latest, todo, at>>
        BY <1>4 DEF TrainerStep, BeginSave, WriteFile, Commit
    <2>. QED
        BY <1>1, <1>13, <1>2, <1>3, <1>4, <2>1
<1>5. CASE ShellStep
    <2>1. tracker' = tracker
        BY <1>5 DEF ShellStep, Prune, StageOutEnds, ChildEnds, Signal, Vanish, NextJob
    <2>2. CASE NextJob \/ Vanish
        <3>1. pc'[k] \notin Working \cup {"scan"} /\ todo'[k] \in {{}, todo[k]}
            BY <2>2 DEF NextJob, Vanish, All, Working
        <3>. QED
            BY <1>1, <1>13, <3>1
    <2>3. CASE Prune \/ StageOutEnds \/ ChildEnds \/ Signal
        <3>1. /\ UNCHANGED <<latest, todo, at>>
              /\ pc'[k] = pc[k] \/ pc'[k] \notin Working \cup {"scan"}
            BY <2>3 DEF Prune, StageOutEnds, ChildEnds, Signal, TypeOK, Working
        <3>. QED
            BY <1>1, <1>13, <1>2, <2>1, <3>1
    <2>. QED
        BY <1>5, <2>2, <2>3 DEF ShellStep
<1>6. CASE UNCHANGED vars
    BY <1>1, <1>13, <1>2, <1>6 DEF vars
<1>7. CASE \E j \in Keepers \ {k} : KeeperStep(j)
    <2>1. /\ tracker' = tracker /\ latest'[k] = latest[k] /\ pc'[k] = pc[k]
          /\ todo'[k] = todo[k] /\ at'[k] = at[k]
        BY <1>7 DEF KeeperStep, KeepBegin, KeepSkip, KeepChoose, KeepClear, KeepMake, KeepEnter, KeepDirs, KeepLink, KeepFail,
           KeepPlace, KeepEnd, TypeOK
    <2>. QED
        BY <1>1, <1>13, <1>2, <2>1
<1>8. CASE KeepBegin(k)
    <2>1. /\ latest'[k] = tracker /\ todo'[k] = Candidates /\ tracker' = tracker
          /\ kept' = kept /\ ckpt' = ckpt
        BY <1>8 DEF KeepBegin, TypeOK
    <2>2. \A s \in Landmarks(tracker) : s \in Candidates \/ "model" \notin ckpt[s]
        BY CandidatesAre DEF Housed, Landmarks
    <2>3. Candidates \subseteq Landmarks(tracker)
        BY CandidatesAre
    <2>. QED
        BY <1>0, <1>13, <2>1, <2>2, <2>3 DEF Working
<1>9. CASE \E s \in Steps : KeepSkip(k, s) \/ KeepChoose(k, s)
    <2>1. PICK s \in Steps : KeepSkip(k, s) \/ KeepChoose(k, s)
        BY <1>9
    <2>2. /\ pc[k] = "scan" /\ todo'[k] = todo[k] \ {s} /\ latest' = latest
          /\ tracker' = tracker /\ kept' = kept /\ ckpt' = ckpt
        BY <2>1 DEF KeepSkip, KeepChoose, TypeOK
    <2>3. ~Eligible(s) \/ (pc'[k] = "clear" /\ at'[k] = s)
        BY <2>1 DEF KeepSkip, KeepChoose, TypeOK
    <2>4. /\ latest[k] <= tracker
          /\ k = "shell" => latest[k] = tracker
          /\ \A t \in Landmarks(latest[k]) \ raced : ~Eligible(t) \/ t \in todo[k]
        BY <2>2 DEF Passes
    <2>5. \A t \in Landmarks(latest'[k]) \ raced' :
             \/ kept'[t] # {} \/ "model" \notin ckpt'[t]
             \/ t \in todo'[k]
             \/ pc'[k] # "scan" /\ at'[k] = t
        BY <1>0, <2>2, <2>3, <2>4 DEF Eligible
    <2>. QED
        BY <1>1, <1>13, <2>2, <2>4, <2>5
<1>10. CASE \/ KeepClear(k) \/ KeepMake(k) \/ KeepDirs(k) \/ (KeepEnter(k) /\ Exists(at[k]))
            \/ \E f \in Files : KeepLink(k, f)
    <2>1. /\ pc[k] \in Working /\ pc'[k] \in Working
          /\ UNCHANGED <<tracker, latest, todo, at>>
        BY <1>10 DEF KeepClear, KeepMake, KeepEnter, KeepDirs, KeepLink, TypeOK, Working
    <2>. QED
        BY <1>1, <1>13, <1>2, <1>13, <2>1
<1>11. CASE KeepFail(k) \/ KeepPlace(k) \/ (KeepEnter(k) /\ ~Exists(at[k]))
    <2>1. /\ pc[k] \in Working \ {"scan"} /\ pc'[k] = "scan" /\ raced' = raced
          /\ UNCHANGED <<tracker, latest, todo, ckpt>>
        BY <1>11 DEF KeepFail, KeepPlace, KeepEnter, TypeOK, Working
    <2>2. at[k] \in Steps
        BY <1>0, <2>1 DEF DirInv, KeepersBehind, Steps
    <2>3. at[k] \notin raced => kept'[at[k]] # {} \/ "model" \notin ckpt'[at[k]]
        <3>1. CASE KeepFail(k)
            BY <2>1, <3>1 DEF KeepFail
        <3>2. CASE KeepPlace(k)
            <4>1. kept' = [kept EXCEPT ![at[k]] = IF partial[at[k]] = {} THEN @
                                                  ELSE IF @ = {} THEN partial[at[k]]
                                                  ELSE @ \cup {"nested"}]
                BY <3>2 DEF KeepPlace
            <4>2. kept'[at[k]] = IF partial[at[k]] = {} THEN kept[at[k]]
                                 ELSE IF kept[at[k]] = {} THEN partial[at[k]]
                                 ELSE kept[at[k]] \cup {"nested"}
                BY <2>2, <4>1 DEF TypeOK
            <4>3. at[k] \notin raced => "." \in partial[at[k]]
                BY <2>1, <3>2 DEF KeepPlace, Moved, AtWork
            <4>. QED
                BY <4>2, <4>3
        <3>3. CASE KeepEnter(k) /\ ~Exists(at[k])
            BY <2>1, <2>2, <3>3 DEF Housed
        <3>. QED
            BY <1>11, <3>1, <3>2, <3>3
    <2>4. /\ latest[k] <= tracker
          /\ k = "shell" => latest[k] = tracker
          /\ \A s \in Landmarks(latest[k]) \ raced : ~Eligible(s) \/ s \in todo[k] \/ at[k] = s
        BY <2>1 DEF Passes
    <2>5. \A s \in Landmarks(latest[k]) :
             ~Eligible(s) => kept'[s] # {} \/ "model" \notin ckpt'[s]
        BY <1>0, <2>4, SettledStay
    <2>. QED
        BY <1>1, <1>13, <2>1, <2>3, <2>4, <2>5
<1>12. CASE KeepEnd(k)
    <2>1. pc'[k] = "rest" /\ todo'[k] = todo[k]
        BY <1>12 DEF KeepEnd, TypeOK
    <2>. QED
        BY <1>1, <1>13, <2>1 DEF Working
<1>. QED
    BY <1>4, <1>5, <1>6, <1>7, <1>8, <1>9, <1>10, <1>11, <1>12 DEF Next, KeeperStep

\* A finished pass has settled every landmark up to the tracker it read.
LEMMA PassSettles ==
    ASSUME TypeOK, Passes, NEW k \in Keepers, KeepEnd(k)
    PROVE  /\ latest[k] \in 0 .. LastStep /\ latest[k] <= tracker
           /\ k = "shell" => latest[k] = tracker
           /\ \A s \in Landmarks(latest[k]) \ raced : ~Eligible(s)
    BY DEF KeepEnd, Passes, TypeOK

LEMMA PassedKeeps == DirInv /\ TypeOK /\ Passes /\ Passed /\ [Next]_vars => Passed'
<1>. SUFFICES ASSUME DirInv, TypeOK, Passes, Passed, [Next]_vars
              PROVE  /\ passed' <= tracker'
                     /\ \A s \in Landmarks(passed') \ raced' : kept'[s] # {} \/ "model" \notin ckpt'[s]
    BY DEF Passed, Eligible
<1>. USE DEF disk, store, keeper, job
<1>0. /\ tracker \in 0 .. LastStep /\ tracker <= tracker' /\ passed \in 0 .. LastStep
      /\ LastStep \in Nat /\ tracker' \in 0 .. LastStep
    <2>1. tracker' \in 0 .. LastStep
        BY DirInvStep DEF DirInv, Positions
    <2>. QED
        BY <2>1, TrackerGrows, CheckpointsAssumption DEF TypeOK
<1>1. ASSUME NEW n \in 0 .. LastStep, n <= tracker, \A s \in Landmarks(n) \ raced : ~Eligible(s),
             passed' = n
      PROVE  /\ passed' <= tracker'
             /\ \A s \in Landmarks(passed') \ raced' : kept'[s] # {} \/ "model" \notin ckpt'[s]
    <2>1. \A s \in Landmarks(n) \ raced' : kept'[s] # {} \/ "model" \notin ckpt'[s]
        BY <1>1, RacedGrows, SettledStay
    <2>. QED
        BY <1>0, <1>1, <2>1
<1>2. CASE passed' = passed
    BY <1>0, <1>1, <1>2 DEF Passed
<1>3. CASE \E k \in Keepers : KeepEnd(k)
    <2>1. PICK k \in Keepers : KeepEnd(k)
        BY <1>3
    <2>2. passed' \in {latest[k], passed}
        BY <2>1 DEF KeepEnd
    <2>. QED
        BY <1>1, <1>2, <2>1, <2>2, PassSettles
<1>4. CASE NextJob
    <2>1. passed' = 0 /\ Landmarks(0) = {}
        BY <1>0, <1>4, LandmarksOf DEF NextJob
    <2>. QED
        BY <1>0, <2>1
<1>. QED
    BY <1>2, <1>3, <1>4 DEF Next, TrainerStep, KeeperStep, ShellStep, BeginSave, WriteFile,
       Commit, KeepBegin, KeepSkip, KeepChoose, KeepClear, KeepMake, KeepEnter, KeepDirs,
       KeepLink, KeepFail, KeepPlace, Prune, StageOutEnds, ChildEnds, Signal, Vanish, vars

\* While the job shell cleans up, the trainer is gone and the tracker stands still.
LEMMA TrackerStands ==
    ASSUME DirInv, [Next]_vars, shell # "wait"
    PROVE  tracker' = tracker /\ ~TrainerStep
<1>1. phase = "off"
    BY DEF DirInv, Positions
<1>2. ~TrainerStep
    BY <1>1 DEF TrainerStep, BeginSave, WriteFile, Commit, Files
<1>. QED
    BY <1>2 DEF Next, KeeperStep, ShellStep, KeepBegin, KeepSkip, KeepChoose, KeepClear, KeepMake, KeepEnter, KeepDirs, KeepLink,
       KeepFail, KeepPlace, KeepEnd, Prune, StageOutEnds, ChildEnds, Signal, Vanish, NextJob,
       vars, disk, store, keeper, job

LEMMA SweptKeeps ==
    DirInv /\ TypeOK /\ Passes /\ Swept /\ After /\ [Next]_vars => Swept'
<1>. SUFFICES ASSUME DirInv, TypeOK, Passes, Swept, After, [Next]_vars,
                     shell' \in {"prune", "stop"} \/ outs' > 0
              PROVE  \A s \in Landmarks(tracker') \ raced' : kept'[s] # {} \/ "model" \notin ckpt'[s]
    BY DEF Swept, Eligible
<1>. USE DEF disk, store, keeper, job
<1>0. tracker \in 0 .. LastStep /\ tracker <= tracker /\ outs \in Nat
    BY CheckpointsAssumption DEF TypeOK
<1>1. ASSUME shell # "wait", \A s \in Landmarks(tracker) \ raced : ~Eligible(s)
      PROVE  \A s \in Landmarks(tracker') \ raced' : kept'[s] # {} \/ "model" \notin ckpt'[s]
    <2>1. tracker' = tracker
        BY <1>1, TrackerStands
    <2>2. \A s \in Landmarks(tracker) \ raced' : kept'[s] # {} \/ "model" \notin ckpt'[s]
        BY <1>0, <1>1, RacedGrows, SettledStay
    <2>. QED
        BY <2>1, <2>2
<1>2. CASE shell \in {"prune", "stop"} \/ outs > 0
    BY <1>1, <1>2 DEF Swept, After
<1>3. CASE KeepEnd("shell")
    <2>1. "shell" \in Keepers /\ pc["shell"] = "scan"
        BY <1>3 DEF Keepers, KeepEnd
    <2>2. shell = "keep"
        BY <2>1 DEF DirInv, ShellAtWork
    <2>. QED
        BY <1>1, <1>3, <2>1, <2>2, PassSettles
<1>4. CASE /\ shell \notin {"prune", "stop"} /\ ~(outs > 0)
           /\ ~KeepEnd("shell")
    BY <1>0, <1>4 DEF Next, TrainerStep, KeeperStep, ShellStep, BeginSave, WriteFile, Commit,
       KeepBegin, KeepSkip, KeepChoose, KeepClear, KeepMake, KeepEnter, KeepDirs, KeepLink, KeepFail, KeepPlace, KeepEnd,
       Keepers, Prune, StageOutEnds, ChildEnds, Signal, Vanish, NextJob, vars
<1>. QED
    BY <1>2, <1>3, <1>4

\* What pruning leaves is not stale: it had fewer than Keep newer directories, and has no more now.
LEMMA PrunedIsFresh == TypeOK /\ Prune => Stale' = {}
<1>. SUFFICES ASSUME TypeOK, Prune, NEW s \in Stale' PROVE FALSE
    OBVIOUS
<1>. DEFINE Above == {t \in Steps : Exists(t) /\ t > s}
            Left == {t \in Steps : "." \in ckpt'[t] /\ t > s}
<1>1. /\ s \in Steps /\ "." \in ckpt'[s] /\ s # tracker /\ Cardinality(Left) >= Keep
    BY DEF Stale, Exists, Prune
<1>2. \A t \in Steps : ckpt'[t] = IF t \in Stale THEN {} ELSE ckpt[t]
    BY DEF Prune
<1>3. Exists(s) /\ s \notin Stale
    BY <1>1, <1>2 DEF Exists
<1>4. ~(Cardinality(Above) >= Keep)
    BY <1>1, <1>3 DEF Stale
<1>5. Left \subseteq Above
    BY <1>2 DEF Exists
<1>6. IsFiniteSet(Above)
    <2>1. IsFiniteSet(Steps) /\ Above \subseteq Steps
        BY FS_Interval, CheckpointsAssumption DEF Steps
    <2>. QED
        BY <2>1, FS_Subset
<1>7. /\ Cardinality(Left) <= Cardinality(Above)
      /\ Cardinality(Left) \in Nat /\ Cardinality(Above) \in Nat
    BY <1>5, <1>6, FS_Subset, FS_CardinalityType
<1>. HIDE DEF Above, Left
<1>. QED
    BY <1>1, <1>4, <1>7, CheckpointsAssumption

LEMMA StillKeeps == DirInv /\ TypeOK /\ Still /\ After /\ [Next]_vars => Still'
<1>. SUFFICES ASSUME DirInv, TypeOK, Still, After, [Next]_vars, shell' = "stop" \/ outs' > 0
              PROVE  Stale' = {}
    BY DEF Still
<1>. USE DEF disk, store, keeper, job
<1>0. outs \in Nat
    BY DEF TypeOK
<1>1. CASE Prune
    BY <1>1, PrunedIsFresh
<1>2. CASE ~Prune
    <2>1. shell = "stop" \/ outs > 0
        <3>1. CASE StageOutEnds
            BY <3>1 DEF StageOutEnds
        <3>2. CASE NextJob
            BY <1>0, <3>2 DEF NextJob
        <3>3. CASE outs' = outs /\ (shell' # "stop" \/ shell' = shell)
            BY <3>3
        <3>. QED
            BY <1>2, <3>1, <3>2, <3>3 DEF Next, TrainerStep, KeeperStep, ShellStep, BeginSave,
               WriteFile, Commit, KeepBegin, KeepSkip, KeepChoose, KeepClear, KeepMake, KeepEnter, KeepDirs, KeepLink, KeepFail,
               KeepPlace, KeepEnd, ChildEnds, Signal, Vanish, vars
    <2>2. shell # "wait"
        BY <2>1 DEF After
    <2>3. tracker' = tracker /\ ~TrainerStep
        BY <2>2, TrackerStands
    <2>4. ckpt' = ckpt
        BY <1>2, <2>3 DEF Next, KeeperStep, ShellStep, KeepBegin, KeepSkip, KeepChoose, KeepClear, KeepMake, KeepEnter, KeepDirs,
           KeepLink, KeepFail, KeepPlace, KeepEnd, StageOutEnds, ChildEnds, Signal, Vanish,
           NextJob, vars
    <2>. QED
        BY <2>1, <2>3, <2>4 DEF Still, Stale, Exists
<1>. QED
    BY <1>1, <1>2

LEMMA AfterKeeps ==
    DirInv /\ TypeOK /\ Passes /\ Swept /\ After /\ [Next]_vars => After'
<1>. SUFFICES ASSUME DirInv, TypeOK, Passes, Swept, After, [Next]_vars, outs' > 0
              PROVE  shell' # "wait" /\ pc'["loop"] = "dead" /\ ~AtWork("shell")'
    BY DEF After
<1>. USE DEF disk, store, keeper, job
<1>0. outs \in Nat /\ "loop" \in Keepers /\ "shell" \in Keepers
    BY DEF TypeOK, Keepers
<1>1. CASE StageOutEnds
    <2>1. /\ shell = "stop" /\ shell' \in {"gone", "keep"}
          /\ pc' = [pc EXCEPT !["loop"] = "dead"]
        BY <1>1 DEF StageOutEnds
    <2>2. pc["shell"] \notin Working
        BY <2>1 DEF DirInv, ShellAtWork
    <2>. QED
        BY <1>0, <2>1, <2>2 DEF TypeOK, AtWork
<1>2. CASE ~StageOutEnds
    <2>1. outs' = outs /\ ~NextJob
        <3>1. ~NextJob
            BY DEF NextJob
        <3>. QED
            BY <1>2, <3>1 DEF Next, TrainerStep, KeeperStep, ShellStep, BeginSave, WriteFile,
               Commit, KeepBegin, KeepSkip, KeepChoose, KeepClear, KeepMake, KeepEnter, KeepDirs,
               KeepLink, KeepFail, KeepPlace, KeepEnd, Prune, ChildEnds, Signal, Vanish, vars
    <2>2. outs > 0 /\ shell # "wait" /\ pc["loop"] = "dead" /\ ~AtWork("shell")
        BY <2>1 DEF After
    <2>3. ~TrainerStep
        BY <2>2, TrackerStands
    \* What is left to choose has been raced for.
    <2>4. ~AtWork("shell")'
        <3>1. CASE \E s \in Steps : KeepChoose("shell", s)
            <4>1. PICK s \in Steps : KeepChoose("shell", s)
                BY <3>1
            <4>2. s \in todo["shell"] /\ Eligible(s) /\ at'["shell"] = s
                BY <1>0, <4>1 DEF KeepChoose, TypeOK
            <4>3. s \in Landmarks(tracker)
                BY <1>0, <4>2 DEF Passes
            <4>4. s \in raced
                BY <2>2, <4>2, <4>3 DEF Swept
            <4>. QED
                BY <4>2, <4>4, RacedGrows DEF AtWork
        <3>2. CASE ~\E s \in Steps : KeepChoose("shell", s)
            BY <1>0, <2>2, <3>2, WasAtWork
        <3>. QED
            BY <3>1, <3>2
    <2>5. CASE \E k \in Keepers : KeeperStep(k)
        <3>1. PICK k \in Keepers : KeeperStep(k)
            BY <2>5
        <3>2. k = "shell"
            BY <2>2, <3>1 DEF Keepers, KeeperStep, KeepBegin, KeepSkip, KeepChoose, KeepClear,
               KeepMake, KeepEnter, KeepDirs, KeepLink, KeepFail, KeepPlace, KeepEnd
        <3>3. pc'["loop"] = pc["loop"]
            BY <1>0, <3>1, <3>2, OthersStay
        <3>4. shell' # "wait"
            BY <2>2, <3>1 DEF KeeperStep, KeepBegin, KeepSkip, KeepChoose, KeepClear, KeepMake,
               KeepEnter, KeepDirs, KeepLink, KeepFail, KeepPlace, KeepEnd
        <3>. QED
            BY <2>2, <2>4, <3>3, <3>4
    <2>6. CASE Prune \/ ChildEnds \/ Signal \/ Vanish
        BY <1>0, <2>2, <2>4, <2>6 DEF Prune, ChildEnds, Signal, Vanish, All, TypeOK
    <2>7. CASE UNCHANGED vars
        BY <2>2, <2>4, <2>7 DEF vars
    <2>. QED
        BY <1>2, <2>1, <2>3, <2>5, <2>6, <2>7 DEF Next, ShellStep
<1>. QED
    BY <1>1, <1>2

LEMMA PassInvInit == Init => PassInv
<1>. SUFFICES ASSUME Init PROVE PassInv
    OBVIOUS
<1>1. /\ tracker = 0 /\ ckpt = None /\ phase = "train" /\ passed = 0 /\ outs = 0
      /\ shell = "wait" /\ \A k \in Keepers : pc[k] = "rest" /\ todo[k] = {}
    BY DEF Init, All
<1>2. Landmarks(0) = {}
    BY LandmarksOf, CheckpointsAssumption
<1>3. Housed
    BY <1>1 DEF Housed, None, Writing
<1>4. Alone /\ Moved /\ Passes
    BY <1>1 DEF Alone, Moved, Passes, AtWork, Working
<1>5. Passed /\ Swept /\ Still /\ After
    BY <1>1, <1>2 DEF Passed, Swept, Still, After
<1>. QED
    BY <1>3, <1>4, <1>5 DEF PassInv

LEMMA PassInvAlways == Spec => [](DirInv /\ TypeOK /\ PassInv)
<1>1. DirInv /\ TypeOK /\ PassInv /\ [Next]_vars => PassInv'
    BY HousedKeeps, AloneKeeps, MovedKeeps, PassesKeep, PassedKeeps, SweptKeeps, StillKeeps,
       AfterKeeps DEF PassInv
<1>2. Spec => []DirInv
    BY DirInvInit, DirInvStep, PTL DEF Spec
<1>. QED
    BY <1>1, <1>2, TypesAlwaysHold, PassInvInit, PTL DEF Spec

-----------------------------------------------------------------------------
(***************************************************************************)
(* What is kept where the keepers do not race is whole.  This needs a pass *)
(* of the mirror loop between two saves: then nothing deletes the weights  *)
(* while a keeper links them.                                              *)
(***************************************************************************)
Complete == \A s \in 1 .. tracker : "model" \in ckpt[s] => "data" \in ckpt[s]
Busy == \A k \in Keepers : AtWork(k) => Eligible(at[k])
Linking ==
    \A k \in Keepers : AtWork(k) /\ pc[k] = "link" =>
        /\ {".", "actor"} \subseteq partial[at[k]]
        /\ {"model", "data"} \subseteq partial[at[k]] \cup files[k]
Intact == \A s \in Steps \ raced : kept[s] # {} => Whole(s)

HeldInv == Complete /\ Busy /\ Linking /\ Intact

LEMMA CompleteKeeps == DirInv /\ TypeOK /\ Complete /\ [Next]_vars => Complete'
<1>. SUFFICES ASSUME DirInv, TypeOK, Complete, [Next]_vars, NEW s \in 1 .. tracker',
                     "model" \in ckpt'[s]
              PROVE  "data" \in ckpt'[s]
    BY DEF Complete
<1>. USE CheckpointsAssumption DEF disk, store, keeper, job
<1>0. tracker \in 0 .. LastStep
    BY DEF TypeOK
<1>1. CASE s \in 1 .. tracker
    <2>1. "data" \in ckpt[s] /\ s \in Steps /\ "model" \in ckpt[s]
        BY <1>0, <1>1, GoneIsGone DEF Complete, Steps
    <2>2. CASE BeginSave
        BY <2>1, <2>2 DEF BeginSave, Actor
    <2>3. CASE WriteFile
        BY <2>1, <2>3 DEF WriteFile, TypeOK
    <2>4. CASE Prune
        BY <2>1, <2>4 DEF Prune
    <2>5. CASE ckpt' = ckpt
        BY <2>1, <2>5
    <2>. QED
        BY <2>2, <2>3, <2>4, <2>5 DEF Next, TrainerStep, KeeperStep, ShellStep, Commit, KeepBegin,
           KeepSkip, KeepChoose, KeepClear, KeepMake, KeepEnter, KeepDirs, KeepLink, KeepFail,
           KeepPlace, KeepEnd, StageOutEnds, ChildEnds, Signal, Vanish, NextJob, vars
<1>2. CASE s \notin 1 .. tracker
    <2>1. tracker' # tracker
        BY <1>2
    <2>2. Commit
        BY <2>1 DEF Next, TrainerStep, KeeperStep, ShellStep, BeginSave, WriteFile, KeepBegin,
           KeepSkip, KeepChoose, KeepClear, KeepMake, KeepEnter, KeepDirs, KeepLink, KeepFail,
           KeepPlace, KeepEnd, Prune, StageOutEnds, ChildEnds, Signal, Vanish, NextJob, vars
    <2>3. step = tracker + 1 /\ tracker' = step /\ ckpt' = ckpt /\ "data" \in ckpt[step]
        BY <2>2 DEF Commit, DirInv, Positions, Writing, Written
    <2>4. s = step
        BY <1>0, <1>2, <2>3
    <2>. QED
        BY <2>3, <2>4
<1>. QED
    BY <1>1, <1>2

\* Neither verl nor the pruning deletes what a keeper is at.
LEMMA BusyKeeps ==
    ASSUME Timely, DirInv, TypeOK, PassInv, Busy, [Next]_vars
    PROVE  Busy'
<1>. SUFFICES ASSUME NEW k \in Keepers, AtWork(k)'
              PROVE  kept'[at'[k]] = {} /\ "model" \in ckpt'[at'[k]]
    BY DEF Busy, Eligible
<1>. USE DEF disk, store, keeper, job
<1>1. CASE \E s \in Steps : KeepChoose(k, s)
    BY <1>1 DEF KeepChoose, TypeOK, Eligible
<1>2. CASE ~\E s \in Steps : KeepChoose(k, s)
    <2>1. AtWork(k) /\ at'[k] = at[k]
        BY <1>2, WasAtWork
    <2>2. /\ at[k] \in Landmarks(tracker) /\ at[k] \in Steps /\ at[k] \notin raced
          /\ kept[at[k]] = {} /\ "model" \in ckpt[at[k]]
        BY <2>1 DEF PassInv, Passes, AtWork, Busy, Eligible, Landmarks
    <2>3. kept'[at[k]] = {}
        <3>1. CASE \E j \in Keepers \ {k} : KeeperStep(j)
            BY <2>1, <2>2, <3>1, OnesOwn DEF PassInv
        <3>2. ~KeepPlace(k)
            BY <2>1 DEF KeepPlace, AtWork, TypeOK, Working
        <3>3. CASE kept' = kept
            BY <2>2, <3>3
        <3>. QED
            BY <3>1, <3>2, <3>3 DEF Next, TrainerStep, KeeperStep, ShellStep, BeginSave, WriteFile,
               Commit, KeepBegin, KeepSkip, KeepChoose, KeepClear, KeepMake, KeepEnter, KeepDirs,
               KeepLink, KeepFail, KeepEnd, Prune, StageOutEnds, ChildEnds, Signal, Vanish,
               NextJob, vars
    <2>4. "model" \in ckpt'[at[k]]
        <3>1. CASE BeginSave
            <4>1. at[k] \notin Outdated
                <5>1. passed \in 0 .. LastStep
                    BY DEF TypeOK
                <5>2. at[k] <= passed => at[k] \in Landmarks(passed)
                    BY <2>2 DEF Landmarks
                <5>3. ~(at[k] <= passed)
                    BY <2>2, <5>2 DEF PassInv, Passed, Eligible
                <5>. QED
                    BY <3>1, <5>3 DEF BeginSave
            <4>. QED
                BY <2>2, <3>1, <4>1 DEF BeginSave
        <3>2. CASE WriteFile
            BY <2>2, <3>2 DEF WriteFile, TypeOK
        <3>3. ~Prune
            BY <2>2 DEF Prune, PassInv, Swept, Eligible
        <3>4. CASE ckpt' = ckpt
            BY <2>2, <3>4
        <3>. QED
            BY <3>1, <3>2, <3>3, <3>4 DEF Next, TrainerStep, KeeperStep, ShellStep, Commit,
               KeepBegin, KeepSkip, KeepChoose, KeepClear, KeepMake, KeepEnter, KeepDirs, KeepLink,
               KeepFail, KeepPlace, KeepEnd, StageOutEnds, ChildEnds, Signal, Vanish, NextJob, vars
    <2>. QED
        BY <2>1, <2>3, <2>4
<1>. QED
    BY <1>1, <1>2

LEMMA LinkingKeeps ==
    ASSUME DirInv, TypeOK, Alone, Complete, Busy, Linking, [Next]_vars
    PROVE  Linking'
<1>. SUFFICES ASSUME NEW k \in Keepers, AtWork(k)', pc'[k] = "link"
              PROVE  /\ {".", "actor"} \subseteq partial'[at'[k]]
                     /\ {"model", "data"} \subseteq partial'[at'[k]] \cup files'[k]
    BY DEF Linking
<1>. USE DEF disk, store, keeper, job
<1>1. ~\E s \in Steps : KeepChoose(k, s)
    BY DEF KeepChoose, TypeOK
<1>2. AtWork(k) /\ at'[k] = at[k]
    BY <1>1, WasAtWork
<1>3. at[k] \in Steps /\ {"model", "data"} \subseteq ckpt[at[k]]
    BY <1>2, CheckpointsAssumption
       DEF AtWork, DirInv, Positions, KeepersBehind, Steps, Busy, Eligible, Complete
<1>4. CASE KeeperStep(k)
    <2>1. CASE KeepDirs(k)
        <3>1. partial'[at[k]] = partial[at[k]] \cup {".", "actor"}
            BY <1>3, <2>1 DEF KeepDirs, TypeOK
        <3>2. files'[k] = ckpt[at[k]] \ {"optim", "."}
            BY <2>1 DEF KeepDirs, Linkable, TypeOK
        <3>. QED
            BY <1>2, <1>3, <3>1, <3>2
    <2>2. CASE \E f \in Files : KeepLink(k, f)
        <3>1. PICK f \in Files : KeepLink(k, f)
            BY <2>2
        <3>2. /\ pc[k] = "link" /\ f \in files[k] /\ files'[k] = files[k] \ {f}
              /\ f \in {"model", "data"}
            BY <3>1 DEF KeepLink, TypeOK
        <3>3. /\ {".", "actor"} \subseteq partial[at[k]]
              /\ {"model", "data"} \subseteq partial[at[k]] \cup files[k]
            BY <1>2, <3>2 DEF Linking
        <3>4. f \in ckpt[at[k]] /\ Parent(f) \in partial[at[k]]
            BY <1>3, <3>2, <3>3 DEF Parent
        <3>5. partial'[at[k]] = partial[at[k]] \cup {f}
            BY <1>3, <3>1, <3>4 DEF KeepLink, TypeOK
        <3>. QED
            BY <1>2, <3>2, <3>3, <3>5
    <2>3. CASE KeepBegin(k) \/ KeepEnd(k) \/ KeepFail(k) \/ KeepPlace(k) \/ KeepClear(k)
        BY <2>3 DEF KeepBegin, KeepEnd, KeepFail, KeepPlace, KeepClear, TypeOK
    <2>4. CASE KeepMake(k) \/ KeepEnter(k) \/ \E s \in Steps : KeepSkip(k, s)
        BY <2>4 DEF KeepMake, KeepEnter, KeepSkip, TypeOK
    <2>. QED
        BY <1>1, <1>4, <2>1, <2>2, <2>3, <2>4 DEF KeeperStep
<1>5. CASE \E j \in Keepers \ {k} : KeeperStep(j)
    <2>1. partial'[at[k]] = partial[at[k]] /\ pc'[k] = pc[k] /\ files'[k] = files[k]
        BY <1>2, <1>5, OnesOwn, OthersStay
    <2>. QED
        BY <1>2, <2>1 DEF Linking
<1>6. CASE TrainerStep \/ ShellStep \/ UNCHANGED vars
    <2>1. partial' = partial /\ pc'[k] = pc[k] /\ files' = files
        BY <1>6 DEF TrainerStep, ShellStep, BeginSave, WriteFile, Commit, Prune, StageOutEnds,
           ChildEnds, Signal, Vanish, NextJob, vars, TypeOK, All
    <2>. QED
        BY <1>2, <2>1 DEF Linking
<1>. QED
    BY <1>4, <1>5, <1>6 DEF Next

LEMMA IntactKeeps ==
    ASSUME DirInv, TypeOK, Busy, Linking, Intact, [Next]_vars
    PROVE  Intact'
<1>. SUFFICES ASSUME NEW s \in Steps, s \notin raced', kept'[s] # {}
              PROVE  {"model", "data"} \subseteq kept'[s]
    BY DEF Intact, Whole
<1>. USE DEF disk, store, keeper, job
<1>0. s \notin raced
    BY RacedGrows
<1>1. CASE kept' = kept
    BY <1>0, <1>1 DEF Intact, Whole
<1>2. CASE \E k \in Keepers : KeepPlace(k)
    <2>1. PICK k \in Keepers : KeepPlace(k)
        BY <1>2
    <2>2. /\ kept' = [kept EXCEPT ![at[k]] = IF partial[at[k]] = {} THEN @
                                             ELSE IF @ = {} THEN partial[at[k]]
                                             ELSE @ \cup {"nested"}]
          /\ pc[k] = "link" /\ files[k] = {}
        BY <2>1 DEF KeepPlace
    <2>3. CASE s # at[k]
        <3>1. kept'[s] = kept[s]
            BY <2>2, <2>3 DEF TypeOK
        <3>. QED
            BY <1>0, <3>1 DEF Intact, Whole
    <2>4. CASE s = at[k]
        <3>1. AtWork(k)
            BY <1>0, <2>2, <2>4 DEF AtWork, Working
        <3>2. {"model", "data"} \subseteq partial[s] /\ kept[s] = {}
            BY <2>2, <2>4, <3>1 DEF Linking, Busy, Eligible
        <3>3. kept'[s] = partial[s]
            BY <2>2, <2>4, <3>2 DEF TypeOK
        <3>. QED
            BY <3>2, <3>3
    <2>. QED
        BY <2>3, <2>4
<1>. QED
    BY <1>1, <1>2 DEF Next, TrainerStep, KeeperStep, ShellStep, BeginSave, WriteFile, Commit,
       KeepBegin, KeepSkip, KeepChoose, KeepClear, KeepMake, KeepEnter, KeepDirs, KeepLink,
       KeepFail, KeepEnd, Prune, StageOutEnds, ChildEnds, Signal, Vanish, NextJob, vars

LEMMA HeldInvAlways == Timely => (Spec => [](DirInv /\ TypeOK /\ PassInv /\ HeldInv))
<1>. SUFFICES ASSUME Timely PROVE Spec => [](DirInv /\ TypeOK /\ PassInv /\ HeldInv)
    OBVIOUS
<1>1. Init => HeldInv
    BY CheckpointsAssumption
       DEF Init, HeldInv, Complete, Busy, Linking, Intact, AtWork, All, None, Working, Steps
<1>2. DirInv /\ TypeOK /\ PassInv /\ HeldInv /\ [Next]_vars => HeldInv'
    BY CompleteKeeps, BusyKeeps, LinkingKeeps, IntactKeeps DEF HeldInv, PassInv
<1>. QED
    BY <1>1, <1>2, PassInvAlways, PTL DEF Spec

\* With a pass of the mirror loop between two saves, no Every-th committed step loses its
\* weights before all of it is kept, unless both keepers were at it at once: verl deletes only
\* what a finished pass has settled, and the stage-out prunes only after a pass of its own.
THEOREM LandmarksAreKept == Timely => (Spec => []NoLandmarkLost)
<1>. SUFFICES ASSUME Timely PROVE Spec => []NoLandmarkLost
    OBVIOUS
<1>. USE DEF disk, store, keeper, job
<1>1. Init => NoLandmarkLost
    BY CheckpointsAssumption DEF Init, NoLandmarkLost, Steps
<1>2. DirInv /\ TypeOK /\ PassInv /\ HeldInv /\ NoLandmarkLost /\ [Next]_vars => NoLandmarkLost'
    <2>. SUFFICES ASSUME DirInv, TypeOK, PassInv, HeldInv, NoLandmarkLost, [Next]_vars,
                         NEW s \in Steps, s \notin raced', s <= tracker', s % Every = 0,
                         "model" \notin ckpt'[s]
                  PROVE  {"model", "data"} \subseteq kept'[s]
        BY DEF NoLandmarkLost, Whole
    <2>0. tracker \in 0 .. LastStep /\ s \in 1 .. LastStep /\ s \notin raced
        BY RacedGrows DEF TypeOK, Steps
    <2>1. CASE s > tracker
        <3>0. tracker' # tracker
            BY <2>0, <2>1, CheckpointsAssumption
        <3>1. Commit
            BY <3>0 DEF Next, TrainerStep, KeeperStep, ShellStep, BeginSave, WriteFile, KeepBegin,
               KeepSkip, KeepChoose, KeepClear, KeepMake, KeepEnter, KeepDirs, KeepLink, KeepFail,
               KeepPlace, KeepEnd, Prune, StageOutEnds, ChildEnds, Signal, Vanish, NextJob, vars
        <3>2. step = tracker + 1 /\ tracker' = step /\ ckpt' = ckpt
            BY <3>1 DEF Commit, DirInv, Positions, Writing
        <3>3. s = step
            BY <2>0, <2>1, <3>2, CheckpointsAssumption
        <3>. QED
            BY <3>1, <3>2, <3>3 DEF Commit, DirInv, Written
    <2>2. CASE ~(s > tracker)
        <3>1. s \in Landmarks(tracker) /\ s \in 1 .. tracker
            BY <2>0, <2>2, CheckpointsAssumption DEF Landmarks
        <3>2. kept[s] # {} => {"model", "data"} \subseteq kept'[s]
            <4>1. kept[s] # {} => kept'[s] # {}
                BY <3>1, KeptIsKept
            <4>2. Intact'
                BY IntactKeeps DEF HeldInv
            <4>. QED
                BY <4>1, <4>2 DEF Intact, Whole
        <3>3. CASE "model" \notin ckpt[s]
            <4>1. {"model", "data"} \subseteq kept[s]
                BY <2>0, <3>1, <3>3 DEF NoLandmarkLost, Whole, Landmarks
            <4>. QED
                BY <3>2, <4>1
        <3>4. CASE "model" \in ckpt[s]
            <4>1. CASE BeginSave
                <5>1. s \in Outdated
                    BY <3>4, <4>1 DEF BeginSave
                <5>2. s <= passed
                    BY <4>1, <5>1 DEF BeginSave
                <5>3. passed \in 0 .. LastStep
                    BY DEF TypeOK
                <5>4. s \in Landmarks(passed) \ raced
                    BY <2>0, <3>1, <5>2 DEF Landmarks
                <5>. QED
                    BY <3>2, <3>4, <5>4 DEF PassInv, Passed, Eligible
            <4>2. CASE Prune
                <5>1. ~Eligible(s)
                    BY <2>0, <3>1, <4>2 DEF Prune, PassInv, Swept
                <5>. QED
                    BY <3>2, <3>4, <5>1 DEF Eligible
            <4>3. CASE WriteFile
                BY <3>4, <4>3 DEF WriteFile, TypeOK
            <4>4. CASE ckpt' = ckpt
                BY <3>4, <4>4
            <4>. QED
                BY <4>1, <4>2, <4>3, <4>4 DEF Next, TrainerStep, KeeperStep, ShellStep, Commit,
                   KeepBegin, KeepSkip, KeepChoose, KeepClear, KeepMake, KeepEnter, KeepDirs,
                   KeepLink, KeepFail, KeepPlace, KeepEnd, StageOutEnds, ChildEnds, Signal, Vanish,
                   NextJob, vars
        <3>. QED
            BY <3>3, <3>4
    <2>. QED
        BY <2>1, <2>2
<1>. QED
    BY <1>1, <1>2, HeldInvAlways, PTL DEF Spec

\* After a finished stage-out, another one of the same job finds every landmark settled that
\* the mirror loop was not at as well, and nothing to prune, so it changes no other checkpoint.
THEOREM StageOutAgainChangesNothing == Spec => StageOutIsIdempotent
<1>. USE DEF disk, store, keeper, job
<1>1. DirInv /\ TypeOK /\ PassInv /\ [Next]_vars
        => [outs > 0 /\ outs' >= outs =>
              UNCHANGED <<ckpt, tracker>> /\ \A s \in Steps \ raced : kept'[s] = kept[s]]_vars
    <2>. SUFFICES ASSUME DirInv, TypeOK, PassInv, [Next]_vars, outs > 0
                  PROVE  UNCHANGED <<ckpt, tracker>> /\ \A s \in Steps \ raced : kept'[s] = kept[s]
        OBVIOUS
    <2>1. shell # "wait" /\ pc["loop"] = "dead" /\ ~AtWork("shell")
        BY DEF PassInv, After
    <2>2. tracker' = tracker /\ ~TrainerStep
        BY <2>1, TrackerStands
    <2>3. ASSUME NEW s \in Steps \ raced PROVE kept'[s] = kept[s]
        <3>1. CASE \E k \in Keepers : KeepPlace(k)
            <4>1. PICK k \in Keepers : KeepPlace(k)
                BY <3>1
            <4>2. k = "shell" /\ at[k] \in raced
                BY <2>1, <4>1 DEF Keepers, KeepPlace, AtWork, Working
            <4>. QED
                BY <4>1, <4>2 DEF KeepPlace, TypeOK
        <3>2. CASE kept' = kept
            BY <3>2
        <3>. QED
            BY <2>2, <3>1, <3>2 DEF Next, KeeperStep, ShellStep, KeepBegin, KeepSkip, KeepChoose,
               KeepClear, KeepMake, KeepEnter, KeepDirs, KeepLink, KeepFail, KeepEnd, Prune,
               StageOutEnds, ChildEnds, Signal, Vanish, NextJob, vars
    <2>4. CASE Prune
        <3>1. Stale = {}
            BY DEF PassInv, Still
        <3>2. ckpt' = [s \in Steps |-> ckpt[s]]
            BY <2>4, <3>1 DEF Prune
        <3>. QED
            BY <2>2, <2>3, <3>2 DEF DirInv, Shape
    <2>5. CASE ~Prune
        <3>1. ckpt' = ckpt
            BY <2>2, <2>5 DEF Next, KeeperStep, ShellStep, KeepBegin, KeepSkip, KeepChoose,
               KeepClear, KeepMake, KeepEnter, KeepDirs, KeepLink, KeepFail, KeepPlace, KeepEnd,
               StageOutEnds, ChildEnds, Signal, Vanish, NextJob, vars
        <3>. QED
            BY <2>2, <2>3, <3>1
    <2>. QED
        BY <2>4, <2>5
<1>. QED
    BY <1>1, PassInvAlways, PTL DEF Spec, StageOutIsIdempotent
=============================================================================
