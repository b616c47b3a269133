------------------------- MODULE KaggleSessionProofs -------------------------
(***************************************************************************)
(* Theorems about KaggleSession for any number of steps, sessions and      *)
(* failures: the progress on the Hub never goes back, "finished" means     *)
(* that the last step is there, and while no pull fails, checkpoints and   *)
(* log are those of one run.                                               *)
(***************************************************************************)
EXTENDS KaggleSession, FiniteSetTheorems, WellFoundedInduction, TLAPS

\* Every set of numbers that is not empty has a least one: < is well-founded on Nat.
LessThan == {p \in Nat \X Nat : p[1] < p[2]}

LEMMA LessThanIsWellFounded == IsWellFoundedOn(LessThan, Nat)
    BY NatLessThanWellFounded, SMT DEF OpToRel, LessThan

\* A set of steps that is not empty has a last one.
LEMMA LastStep ==
    ASSUME NEW S, S \subseteq Steps, S # {}
    PROVE  \E i \in S : \A j \in S : j <= i
<1>. DEFINE T == {Total - i : i \in S}
<1>1. T \subseteq Nat /\ T # {}
    <2>1. \A i \in S : Total - i \in Nat
        BY KaggleAssumption DEF Steps
    <2>. QED
        BY <2>1
<1>2. PICK x \in T : \A y \in T : <<y, x>> \notin LessThan
    <2>. HIDE DEF T
    <2>. QED
        BY <1>1, LessThanIsWellFounded, WFMin
<1>3. PICK i \in S : x = Total - i
    OBVIOUS
<1>4. ASSUME NEW j \in S PROVE j <= i
    <2>1. <<Total - j, x>> \notin LessThan
        BY <1>2
    <2>2. i \in 1 .. Total /\ j \in 1 .. Total
        BY DEF Steps
    <2>3. Total - j \in Nat /\ Total - i \in Nat
        BY <2>2, KaggleAssumption
    <2>4. ~(Total - j < Total - i)
        BY <1>3, <2>1, <2>3 DEF LessThan
    <2>. QED
        BY <2>2, <2>4, KaggleAssumption
<1>. QED
    BY <1>4

\* The newest checkpoint is the last of them, and 0 stands for none.
LEMMA NewestIsLast ==
    ASSUME NEW c
    PROVE  /\ Newest(c) \in 0 .. Total
           /\ On(c) = {} <=> Newest(c) = 0
           /\ On(c) # {} => Newest(c) \in On(c)
           /\ \A s \in On(c) : s <= Newest(c)
<1>1. On(c) \subseteq Steps
    BY DEF On
<1>2. CASE On(c) = {}
    BY <1>2, KaggleAssumption DEF Newest
<1>3. CASE On(c) # {}
    <2>1. \E i \in On(c) : \A j \in On(c) : j <= i
        BY <1>1, <1>3, LastStep
    <2>2. Newest(c) = CHOOSE s \in On(c) : \A t \in On(c) : t <= s
        BY <1>3 DEF Newest
    <2>3. Newest(c) \in On(c) /\ \A s \in On(c) : s <= Newest(c)
        BY <2>1, <2>2
    <2>4. Newest(c) \in 1 .. Total
        BY <1>1, <2>3 DEF Steps
    <2>. QED
        BY <1>3, <2>3, <2>4, KaggleAssumption
<1>. QED
    BY <1>2, <1>3

-----------------------------------------------------------------------------
\* The types in three parts.
Positions ==
    /\ hub \in [Steps -> Lives] /\ disk \in [Steps -> Lives]
    /\ hubTracker \in 0 .. Total /\ tracker \in 0 .. Total
    /\ job \in {"off", "train", "log"} /\ at \in 0 .. Total /\ life \in Lives
    /\ sh \in {"gone", "pull", "poll", "awake", "push", "check", "last", "say", "out"}
    /\ start \in 0 .. Total /\ pushed \in 0 .. Total
    /\ step \in 0 .. Total /\ sessions \in Lives
Logs == hubLog \in Seq(LogLine) /\ log \in Seq(LogLine)
Notes ==
    /\ seen \in 0 .. Total /\ stopping \in BOOLEAN /\ uploads \in BOOLEAN
    /\ stale \subseteq Steps /\ carried \subseteq Steps /\ resumed \subseteq 0 .. Total
    /\ said \in {"", "already finished", "finished", "session done", "stopped unexpectedly"}
    /\ failures \in 0 .. MaxFailures
    /\ pullFailed \in BOOLEAN /\ pushFailed \in BOOLEAN

\* train.sh runs its loop or closes it.
Working == {"poll", "awake", "push", "check", "last", "say"}

\* A trainer runs only under the loop and continues the tracked step with the life of its
\* session; what a push uploads is a step.
Shape ==
    /\ sh # "gone" => sessions # 0
    /\ sh \notin {"poll", "awake", "push", "check"} => job = "off"
    /\ job # "off" => life # 0 /\ tracker = at
    /\ job = "log" => at # 0
    /\ uploads => step \in Steps
    /\ sh \in Working => pushed <= tracker

\* What a commit leaves on the Hub.
LEMMA Committed ==
    ASSUME Positions, Shape, Commit
    PROVE  /\ hub' \in [Steps -> Lives] /\ hubTracker' \in 0 .. Total
           /\ uploads => step \in On(hub') /\ hub'[step] = disk[step]
           /\ \A s \in On(hub') : \/ uploads /\ s = step
                                  \/ s \in On(hub) /\ s \notin stale /\ hub'[s] = hub[s]
           /\ \A s \in On(hub) : s \notin stale => s \in On(hub')
<1>1. /\ uploads => disk[step] # 0 /\ step \in Steps
      /\ hub' = [s \in Steps |-> IF uploads /\ s = step THEN disk[s]
                                 ELSE IF s \in stale THEN 0 ELSE hub[s]]
      /\ hubTracker' \in {tracker, hubTracker}
    BY DEF Commit, Shape
<1>2. 0 \in Lives
    BY KaggleAssumption DEF Lives
<1>3. ASSUME NEW s \in Steps
      PROVE  /\ uploads /\ s = step => hub'[s] = disk[s]
             /\ ~(uploads /\ s = step) /\ s \in stale => hub'[s] = 0
             /\ ~(uploads /\ s = step) /\ s \notin stale => hub'[s] = hub[s]
    BY <1>1
<1>4. hub' \in [Steps -> Lives]
    BY <1>1, <1>2 DEF Positions
<1>5. hubTracker' \in 0 .. Total
    BY <1>1 DEF Positions
<1>6. uploads => step \in On(hub') /\ hub'[step] = disk[step]
    BY <1>1, <1>3 DEF On
<1>7. \A s \in On(hub') : \/ uploads /\ s = step
                          \/ s \in On(hub) /\ s \notin stale /\ hub'[s] = hub[s]
    BY <1>3 DEF On
<1>8. \A s \in On(hub) : s \notin stale => s \in On(hub')
    BY <1>1, <1>3 DEF On
<1>. QED
    BY <1>4, <1>5, <1>6, <1>7, <1>8

LEMMA PositionsKeep == Positions /\ Shape /\ [Next]_vars => Positions'
<1>. SUFFICES ASSUME Positions, Shape, [Next]_vars PROVE Positions'
    OBVIOUS
<1>. USE DEF hubVars, diskVars, jobVars, loopVars, pushVars, history
<1>0. Total \in Nat \ {0} /\ 0 \in Lives /\ 0 \in 0 .. Total
    BY KaggleAssumption DEF Lives
<1>1. CASE Session
    <2>1. sessions \in 0 .. MaxSessions /\ sessions < MaxSessions /\ sessions' = sessions + 1
        BY <1>1 DEF Session, Positions, Lives
    <2>2. sessions' \in Lives
        BY <2>1, KaggleAssumption DEF Lives
    <2>. QED
        BY <1>1, <2>2 DEF Session, Positions
<1>2. CASE SessionEnds
    BY <1>0, <1>2 DEF SessionEnds, Positions, Nothing
<1>3. CASE Save
    <2>1. at + 1 \in Steps /\ at + 1 \in 0 .. Total
        BY <1>0, <1>3 DEF Save, Positions, Steps
    <2>2. \A S : Without(disk, S) \in [Steps -> Lives]
        BY <1>0 DEF Without, Positions
    <2>3. disk' \in [Steps -> Lives]
        BY <1>3, <2>1, <2>2 DEF Save, Positions
    <2>. QED
        BY <1>3, <2>1, <2>3 DEF Save, Positions
<1>4. CASE Log
    BY <1>4 DEF Log, Positions
<1>5. CASE JobEnds
    <2>1. Pruned \in [Steps -> Lives]
        BY <1>0 DEF Pruned, Without, Positions
    <2>. QED
        BY <1>5, <2>1 DEF JobEnds, Positions
<1>6. ASSUME NEW d \in [Steps -> Lives], NEW t \in 0 .. Total, NEW l, Begin(d, t, l),
             t # 0 => t \in Steps
      PROVE  Positions'
    <2>1. /\ disk' = d /\ tracker' = t /\ start' = t /\ pushed' = t
          /\ UNCHANGED <<hubVars, pushVars, sessions>>
        BY <1>6 DEF Begin
    <2>2. CASE t >= Total
        <3>1. sh' = "out" /\ UNCHANGED jobVars
            BY <1>6, <2>2 DEF Begin
        <3>. QED
            BY <2>1, <3>1 DEF Positions
    <2>3. CASE ~(t >= Total)
        <3>1. /\ sh' = "poll" /\ job' = "train" /\ at' = t
              /\ life' = IF t = 0 THEN sessions ELSE d[t]
            BY <1>6, <2>3 DEF Begin
        <3>2. life' \in Lives
            BY <1>6, <3>1 DEF Positions
        <3>. QED
            BY <2>1, <3>1, <3>2 DEF Positions
    <2>. QED
        BY <2>2, <2>3
<1>7. CASE Pull
    <2>1. Newest(hub) \in 0 .. Total /\ (Newest(hub) # 0 => Newest(hub) \in Steps)
        BY NewestIsLast DEF Steps
    <2>2. Restored(Newest(hub)) \in [Steps -> Lives]
        <3>1. \A s \in Steps : (IF s = Newest(hub) THEN hub[Newest(hub)] ELSE 0) \in Lives
            BY <1>0 DEF Positions
        <3>. QED
            BY <3>1 DEF Restored
    <2>3. Begin(Restored(Newest(hub)), Newest(hub), hubLog)
        BY <1>7 DEF Pull
    <2>. QED
        BY <1>6, <2>1, <2>2, <2>3
<1>8. CASE PullFails
    <2>1. Nothing \in [Steps -> Lives]
        BY <1>0 DEF Nothing
    <2>2. PICK l \in {<<>>, hubLog} : Begin(Nothing, 0, l)
        BY <1>8 DEF PullFails
    <2>. QED
        BY <1>0, <1>6, <2>1, <2>2
<1>9. CASE Commit /\ UNCHANGED <<disk, tracker, jobVars, start, pushVars, sessions>>
           /\ sh' \in {"check", "say"} /\ pushed' \in {pushed, tracker}
    BY <1>9, Committed DEF Positions
<1>10. CASE Pushed \/ LastPushed
    BY <1>9, <1>10 DEF Pushed, LastPushed
<1>11. CASE PollPush \/ LoopEnds
    BY <1>11 DEF PollPush, LoopEnds, Push, Read, Positions
<1>12. CASE Sleep \/ PollSame \/ PushFails \/ Check \/ LastPushFails \/ Say
    BY <1>12 DEF Sleep, PollSame, PushFails, Check, LastPushFails, Say, Positions
<1>13. CASE UNCHANGED vars
    BY <1>13 DEF vars, Positions
<1>. QED
    BY <1>1, <1>2, <1>3, <1>4, <1>5, <1>7, <1>8, <1>10, <1>11, <1>12, <1>13
    DEF Next, JobStep, LoopStep, JobFinishes, JobStops, JobFails

\* The last line of a log is a line of a step.
LEMMA LastLine ==
    ASSUME NEW l \in Seq(LogLine)
    PROVE  LastLogged(l) \in 0 .. Total
<1>1. CASE l = <<>>
    BY <1>1, KaggleAssumption DEF LastLogged
<1>2. CASE l # <<>>
    <2>1. l[Len(l)] \in LogLine
        BY <1>2
    <2>2. l[Len(l)].step \in 1 .. Total
        BY <2>1 DEF LogLine, Steps
    <2>. QED
        BY <1>2, <2>2, KaggleAssumption DEF LastLogged
<1>. QED
    BY <1>1, <1>2

LEMMA LogsKeep == Positions /\ Shape /\ Logs /\ [Next]_vars => Logs'
<1>. SUFFICES ASSUME Positions, Shape, Logs, [Next]_vars PROVE Logs'
    OBVIOUS
<1>. USE DEF hubVars, diskVars, jobVars, loopVars, pushVars, history
<1>1. CASE Log
    <2>1. at \in Steps
        BY <1>1 DEF Log, Positions, Shape, Steps
    <2>2. life \in 1 .. MaxSessions
        BY <1>1, KaggleAssumption DEF Log, Positions, Shape, Lives
    <2>3. [step |-> at, life |-> life] \in LogLine
        BY <2>1, <2>2 DEF LogLine
    <2>. QED
        BY <1>1, <2>3 DEF Log, Logs
<1>2. CASE Pull \/ PullFails
    <2>1. log' \in {<<>>, hubLog} /\ hubLog' = hubLog
        BY <1>2 DEF Pull, PullFails, Begin
    <2>2. <<>> \in Seq(LogLine)
        OBVIOUS
    <2>. QED
        BY <2>1, <2>2 DEF Logs
<1>3. CASE Pushed \/ LastPushed
    <2>1. hubLog' \in {hubLog, log} /\ log' = log
        BY <1>3 DEF Pushed, LastPushed, Commit
    <2>. QED
        BY <2>1 DEF Logs
<1>4. CASE Session \/ SessionEnds \/ Save \/ JobEnds
    <2>1. log' \in {<<>>, log} /\ hubLog' = hubLog
        BY <1>4 DEF Session, SessionEnds, Save, JobEnds
    <2>2. <<>> \in Seq(LogLine)
        OBVIOUS
    <2>. QED
        BY <2>1, <2>2 DEF Logs
<1>5. CASE \/ Sleep \/ PollPush \/ PollSame \/ PushFails \/ Check \/ LoopEnds
           \/ LastPushFails \/ Say \/ UNCHANGED vars
    BY <1>5 DEF Sleep, PollPush, PollSame, PushFails, Check, LoopEnds, LastPushFails, Say,
                Push, vars, Logs
<1>. QED
    BY <1>1, <1>2, <1>3, <1>4, <1>5
    DEF Next, JobStep, LoopStep, JobFinishes, JobStops, JobFails

LEMMA NotesKeep == Positions /\ Shape /\ Logs /\ Notes /\ [Next]_vars => Notes'
<1>. SUFFICES ASSUME Positions, Shape, Logs, Notes, [Next]_vars PROVE Notes'
    OBVIOUS
<1>. USE DEF hubVars, diskVars, jobVars, loopVars, pushVars, history
<1>0. 0 \in 0 .. Total
    BY KaggleAssumption
<1>1. ASSUME failures < MaxFailures, failures' = failures + 1
      PROVE  failures' \in 0 .. MaxFailures
    <2>1. failures \in 0 .. MaxFailures
        BY DEF Notes
    <2>. QED
        BY <1>1, <2>1, KaggleAssumption
<1>2. CASE Session \/ Save \/ Log \/ Sleep \/ PollSame \/ UNCHANGED vars
    BY <1>2 DEF Session, Save, Log, Sleep, PollSame, vars, Notes
<1>3. CASE SessionEnds
    BY <1>0, <1>3 DEF SessionEnds, Notes
<1>4. CASE JobFinishes \/ JobStops
    BY <1>4 DEF JobFinishes, JobStops, JobEnds, Notes
<1>5. CASE JobFails
    BY <1>1, <1>5 DEF JobFails, JobEnds, Notes
<1>6. ASSUME NEW d, NEW t \in 0 .. Total, NEW l \in Seq(LogLine), Begin(d, t, l),
             failures' \in 0 .. MaxFailures, pullFailed' \in BOOLEAN
      PROVE  Notes'
    <2>1. seen' \in 0 .. Total
        BY <1>6, LastLine DEF Begin
    <2>2. /\ stopping' = FALSE /\ resumed' = resumed \cup {t}
          /\ UNCHANGED <<uploads, stale, carried, pushFailed>>
          /\ said' \in {"already finished", said}
        BY <1>6 DEF Begin
    <2>. QED
        BY <1>6, <2>1, <2>2 DEF Notes
<1>7. CASE Pull
    BY <1>6, <1>7, NewestIsLast DEF Pull, Logs, Notes
<1>8. CASE PullFails
    <2>1. failures' \in 0 .. MaxFailures /\ pullFailed' \in BOOLEAN
        BY <1>1, <1>8 DEF PullFails
    <2>2. PICK l \in {<<>>, hubLog} : Begin(Nothing, 0, l)
        BY <1>8 DEF PullFails
    <2>3. <<>> \in Seq(LogLine) /\ hubLog \in Seq(LogLine)
        BY DEF Logs
    <2>4. l \in Seq(LogLine)
        BY <2>3
    <2>. QED
        BY <1>0, <1>6, <2>1, <2>2, <2>4
<1>9. CASE PollPush \/ LoopEnds
    <2>1. On(hub) \subseteq Steps
        BY DEF On
    <2>. QED
        BY <1>9, <2>1 DEF PollPush, LoopEnds, Push, Read, Notes
<1>10. CASE Pushed \/ LastPushed
    <2>1. carried' \subseteq Steps
        BY <1>10 DEF Pushed, LastPushed, Commit, Shape, Notes
    <2>. QED
        BY <1>10, <2>1 DEF Pushed, LastPushed, Notes
<1>11. CASE PushFails \/ LastPushFails
    <2>1. failures' \in 0 .. MaxFailures
        BY <1>1, <1>11 DEF PushFails, LastPushFails, Refused, PushError, Notes
    <2>. QED
        BY <1>11, <2>1 DEF PushFails, LastPushFails, Notes
<1>12. CASE Check
    <2>1. seen' \in 0 .. Total
        BY <1>12, LastLine DEF Check, Logs, Notes
    <2>2. stopping' \in BOOLEAN
        BY <1>12 DEF Check, Notes
    <2>. QED
        BY <1>12, <2>1, <2>2 DEF Check, Notes
<1>13. CASE Say
    BY <1>13 DEF Say, Notes
<1>. QED
    BY <1>2, <1>3, <1>4, <1>5, <1>7, <1>8, <1>9, <1>10, <1>11, <1>12, <1>13
    DEF Next, JobStep, LoopStep

LEMMA ShapeKeeps == Positions /\ Shape /\ [Next]_vars => Shape'
<1>. SUFFICES ASSUME Positions, Shape, [Next]_vars PROVE Shape'
    OBVIOUS
<1>. USE DEF hubVars, diskVars, jobVars, loopVars, pushVars, history
<1>0. /\ Total \in Nat \ {0}
      /\ tracker \in 0 .. Total /\ at \in 0 .. Total /\ pushed \in 0 .. Total
    BY KaggleAssumption DEF Positions
<1>1. CASE Session
    <2>1. sessions \in 0 .. MaxSessions /\ sessions' = sessions + 1
        BY <1>1 DEF Session, Positions, Lives
    <2>2. sessions' # 0
        BY <2>1, KaggleAssumption
    <2>. QED
        BY <1>1, <2>2 DEF Session, Shape, Working
<1>2. CASE SessionEnds
    BY <1>2 DEF SessionEnds, Shape, Working
<1>3. CASE Save
    <2>1. at + 1 # 0 /\ (sh \in Working => pushed <= at + 1)
        BY <1>0, <1>3 DEF Save, Shape
    <2>. QED
        BY <1>3, <2>1 DEF Save, Shape
<1>4. CASE Log
    BY <1>4 DEF Log, Shape
<1>5. CASE JobEnds
    BY <1>5 DEF JobEnds, Shape
<1>6. ASSUME sh = "pull", NEW d, NEW t \in 0 .. Total, NEW l, Begin(d, t, l),
             t # 0 => d[t] # 0
      PROVE  Shape'
    <2>1. /\ tracker' = t /\ pushed' = t /\ UNCHANGED <<step, uploads, sessions>>
          /\ sessions # 0 /\ job = "off"
        BY <1>6 DEF Begin, Shape
    <2>2. CASE t >= Total
        <3>1. sh' = "out" /\ job' = "off"
            BY <1>6, <2>1, <2>2 DEF Begin
        <3>. QED
            BY <2>1, <3>1 DEF Shape, Working
    <2>3. CASE ~(t >= Total)
        <3>1. sh' = "poll" /\ job' = "train" /\ at' = t /\ life' # 0
            BY <1>6, <2>1, <2>3 DEF Begin
        <3>. QED
            BY <2>1, <3>1 DEF Shape, Working
    <2>. QED
        BY <2>2, <2>3
<1>7. CASE Pull
    <2>1. Newest(hub) \in 0 .. Total
        BY NewestIsLast
    <2>2. Newest(hub) # 0 => Restored(Newest(hub))[Newest(hub)] # 0
        BY NewestIsLast DEF On, Restored
    <2>3. sh = "pull" /\ Begin(Restored(Newest(hub)), Newest(hub), hubLog)
        BY <1>7 DEF Pull
    <2>. QED
        BY <1>6, <2>1, <2>2, <2>3
<1>8. CASE PullFails
    <2>1. PICK l \in {<<>>, hubLog} : Begin(Nothing, 0, l)
        BY <1>8 DEF PullFails
    <2>2. sh = "pull"
        BY <1>8 DEF PullFails
    <2>3. 0 \in 0 .. Total
        BY <1>0
    <2>. QED
        BY <1>6, <2>1, <2>2, <2>3
<1>9. CASE PollPush \/ LoopEnds
    <2>1. uploads' => tracker # 0
        BY <1>9 DEF PollPush, LoopEnds, Push, Read
    <2>2. step' = tracker
        BY <1>9 DEF PollPush, LoopEnds, Push, Read
    <2>3. tracker # 0 => tracker \in Steps
        BY <1>0 DEF Steps
    <2>4. uploads' => step' \in Steps
        BY <2>1, <2>2, <2>3
    <2>. QED
        BY <1>9, <2>4 DEF PollPush, LoopEnds, Push, Shape, Working
<1>10. CASE Pushed
    BY <1>0, <1>10 DEF Pushed, Shape, Working
<1>11. CASE Sleep \/ PollSame \/ PushFails \/ Check
    <2>1. /\ sh \in {"poll", "awake", "push", "check"} /\ sh' \in {"poll", "awake", "check"}
          /\ UNCHANGED <<tracker, jobVars, pushed, pushVars, sessions>>
        BY <1>11 DEF Sleep, PollSame, PushFails, Check
    <2>. QED
        BY <2>1 DEF Shape, Working
<1>12. CASE LastPushed \/ LastPushFails \/ Say
    <2>1. /\ sh \in {"last", "say"} /\ sh' \in {"say", "out"}
          /\ UNCHANGED <<tracker, jobVars, pushed, pushVars, sessions>>
        BY <1>12 DEF LastPushed, LastPushFails, Say
    <2>. QED
        BY <2>1 DEF Shape, Working
<1>13. CASE UNCHANGED vars
    BY <1>13 DEF vars, Shape
<1>. QED
    BY <1>1, <1>2, <1>3, <1>4, <1>5, <1>7, <1>8, <1>9, <1>10, <1>11, <1>12, <1>13
    DEF Next, JobStep, LoopStep, JobFinishes, JobStops, JobFails

Typed == Positions /\ Logs /\ Notes /\ Shape

LEMMA TypedInit == Init => Typed
<1>. SUFFICES ASSUME Init PROVE Typed
    OBVIOUS
<1>1. 0 \in 0 .. Total /\ 0 \in Lives /\ 0 \in 0 .. MaxFailures
    BY KaggleAssumption DEF Lives
<1>2. Positions
    BY <1>1 DEF Init, Positions, Nothing
<1>3. Logs
    <2>1. hubLog = <<>> /\ log = <<>>
        BY DEF Init
    <2>2. <<>> \in Seq(LogLine)
        OBVIOUS
    <2>. QED
        BY <2>1, <2>2 DEF Logs
<1>4. Notes
    BY <1>1 DEF Init, Notes
<1>5. Shape
    BY DEF Init, Shape, Working
<1>. QED
    BY <1>2, <1>3, <1>4, <1>5 DEF Typed

LEMMA TypedStep == Typed /\ [Next]_vars => Typed'
    BY PositionsKeep, LogsKeep, NotesKeep, ShapeKeeps DEF Typed

\* Every variable of the session keeps its type.
THEOREM TypesAlwaysHold == Spec => []TypeOK
<1>1. Typed => TypeOK
    BY DEF Typed, TypeOK, Positions, Logs, Notes
<1>. QED
    BY <1>1, TypedInit, TypedStep, PTL DEF Spec

-----------------------------------------------------------------------------
(***************************************************************************)
(* What a push has read stays good until it commits: what it prunes is not *)
(* the newest step unless a newer one goes up with it, and the last step   *)
(* is never pruned.  The trainer only moves the tracker on meanwhile.      *)
(***************************************************************************)
Pushing ==
    /\ sh \in {"push", "last"} =>
        /\ Newest(hub) \in stale => uploads /\ step > Newest(hub)
        /\ uploads \/ step = 0 \/ hub[step] # 0
        /\ Total \notin stale
        /\ step <= tracker
    /\ sh = "push" => step # 0
    /\ sh = "last" => step = tracker

\* Between the last push and the last words.
Saying ==
    /\ sh = "say" /\ ~pushFailed /\ tracker = Total => hub[Total] # 0
    /\ said = "finished" => sh \in {"out", "gone"}
    /\ said = "finished" /\ ~pushFailed => hub[Total] # 0

\* A step of S with none of S above it is among the last n of S.
LEMMA NoneAbove ==
    ASSUME NEW S, NEW n \in Nat \ {0}, NEW s \in S, s \notin Last(n, S)
    PROVE  \E t \in S : t > s
<1>. SUFFICES ASSUME \A t \in S : ~(t > s) PROVE FALSE
    OBVIOUS
<1>1. {t \in S : t > s} = {}
    OBVIOUS
<1>2. Cardinality({t \in S : t > s}) = 0
    BY <1>1, FS_EmptySet
<1>3. 0 < n
    OBVIOUS
<1>. QED
    BY <1>2, <1>3 DEF Last

\* The window of HubKeep keeps the newest step of the Hub and the tracked one together.
LEMMA ReadIsSound ==
    ASSUME Positions, Read, hub' = hub
    PROVE  /\ Newest(hub) \in stale' => uploads' /\ step' > Newest(hub)
           /\ uploads' \/ step' = 0 \/ hub[step'] # 0
           /\ Total \notin stale'
<1>. DEFINE all == On(hub) \cup ({tracker} \ {0})
<1>1. /\ tracker \in 0 .. Total /\ Total \in Nat \ {0} /\ HubKeep \in Nat \ {0}
      /\ On(hub) \subseteq Steps
    BY KaggleAssumption DEF Positions, On
<1>2. step' = tracker /\ stale' = On(hub) \ Last(HubKeep, all)
    BY DEF Read
<1>3. tracker \notin On(hub) \cup {0} => uploads'
    BY DEF Read
<1>4. ASSUME NEW s \in stale' PROVE \E t \in all : t > s
    <2>1. s \in all /\ s \notin Last(HubKeep, all)
        BY <1>2, <1>4
    <2>. HIDE DEF all
    <2>. QED
        BY <1>1, <2>1, NoneAbove
<1>5. ASSUME Newest(hub) \in stale' PROVE uploads' /\ step' > Newest(hub)
    <2>1. PICK t \in all : t > Newest(hub)
        BY <1>4, <1>5
    <2>2. t \notin On(hub)
        <3>1. ASSUME t \in On(hub) PROVE FALSE
            <4>1. t <= Newest(hub) /\ Newest(hub) \in 0 .. Total
                BY <3>1, NewestIsLast
            <4>2. t \in 1 .. Total
                BY <1>1, <3>1 DEF Steps
            <4>. QED
                BY <1>1, <2>1, <4>1, <4>2
        <3>. QED
            BY <3>1
    <2>3. t = tracker /\ tracker # 0
        BY <2>2
    <2>. QED
        BY <1>2, <1>3, <2>1, <2>2, <2>3
<1>6. uploads' \/ step' = 0 \/ hub[step'] # 0
    BY <1>2, <1>3 DEF On
<1>7. ASSUME Total \in stale' PROVE FALSE
    <2>1. PICK t \in all : t > Total
        BY <1>4, <1>7
    <2>2. t \in 0 .. Total
        BY <1>1 DEF Steps
    <2>. QED
        BY <1>1, <2>1, <2>2
<1>. QED
    BY <1>5, <1>6, <1>7

\* A commit takes no newest step away and, after the last push, leaves the last step there.
LEMMA CommitIsSound ==
    ASSUME Positions, Shape, Pushing, sh \in {"push", "last"}, Commit
    PROVE  /\ Newest(hub') >= Newest(hub)
           /\ step = Total => hub'[Total] # 0
<1>1. /\ uploads => step \in On(hub')
      /\ \A s \in On(hub) : s \notin stale => s \in On(hub')
    BY Committed
<1>2. Total \in Nat \ {0} /\ Newest(hub) \in 0 .. Total /\ Newest(hub') \in 0 .. Total
    BY KaggleAssumption, NewestIsLast
<1>3. Newest(hub') >= Newest(hub)
    <2>1. CASE On(hub) = {}
        <3>1. Newest(hub) = 0
            BY <2>1, NewestIsLast
        <3>. QED
            BY <1>2, <3>1
    <2>2. CASE On(hub) # {} /\ Newest(hub) \notin stale
        <3>1. Newest(hub) \in On(hub')
            BY <1>1, <2>2, NewestIsLast
        <3>2. Newest(hub) <= Newest(hub')
            BY <3>1, NewestIsLast
        <3>. QED
            BY <1>2, <3>2
    <2>3. CASE Newest(hub) \in stale
        <3>1. uploads /\ step > Newest(hub)
            BY <2>3 DEF Pushing
        <3>2. step <= Newest(hub')
            BY <1>1, <3>1, NewestIsLast
        <3>3. step \in 0 .. Total
            BY DEF Positions
        <3>. QED
            BY <1>2, <3>1, <3>2, <3>3
    <2>. QED
        BY <2>1, <2>2, <2>3
<1>4. ASSUME step = Total PROVE hub'[Total] # 0
    <2>1. CASE uploads
        BY <1>1, <1>4, <2>1 DEF On
    <2>2. CASE ~uploads
        <3>1. hub[Total] # 0 /\ Total \notin stale
            BY <1>2, <1>4, <2>2 DEF Pushing
        <3>2. Total \in On(hub)
            BY <1>2, <3>1 DEF On, Steps
        <3>. QED
            BY <1>1, <3>1, <3>2 DEF On
    <2>. QED
        BY <2>1, <2>2
<1>. QED
    BY <1>3, <1>4

LEMMA PushingKeeps == Typed /\ Pushing /\ [Next]_vars => Pushing'
<1>. SUFFICES ASSUME Positions, Shape, Pushing, [Next]_vars PROVE Pushing'
    BY DEF Typed
<1>. USE DEF hubVars, diskVars, jobVars, loopVars, pushVars, history
<1>0. /\ Total \in Nat \ {0} /\ tracker \in 0 .. Total /\ at \in 0 .. Total
      /\ pushed \in 0 .. Total /\ step \in 0 .. Total
    BY KaggleAssumption DEF Positions
<1>1. CASE sh' \notin {"push", "last"}
    BY <1>1 DEF Pushing
<1>2. CASE Save
    <2>1. sh # "last" /\ tracker = at /\ tracker' = at + 1
        BY <1>2 DEF Save, Shape
    <2>2. step <= tracker => step <= tracker'
        BY <1>0, <2>1
    <2>3. UNCHANGED <<hub, sh, step, uploads, stale>>
        BY <1>2 DEF Save
    <2>. QED
        BY <2>1, <2>2, <2>3 DEF Pushing
<1>3. CASE UNCHANGED <<hub, sh, step, uploads, stale, tracker>>
    BY <1>3 DEF Pushing
<1>4. CASE PollPush \/ LoopEnds
    <2>1. Read /\ UNCHANGED <<hub, tracker>>
        BY <1>4 DEF PollPush, LoopEnds, Push
    <2>2. step' = tracker
        BY <2>1 DEF Read
    <2>3. PollPush => tracker # 0
        BY <1>0 DEF PollPush, Shape, Working
    <2>4. PollPush \/ sh' # "push"
        BY <1>4 DEF LoopEnds
    <2>5. step' <= tracker' /\ step' = tracker'
        BY <1>0, <2>1, <2>2
    <2>6. /\ Newest(hub') \in stale' => uploads' /\ step' > Newest(hub')
          /\ uploads' \/ step' = 0 \/ hub'[step'] # 0
          /\ Total \notin stale'
        BY <2>1, ReadIsSound
    <2>. QED
        BY <2>2, <2>3, <2>4, <2>5, <2>6 DEF Pushing
<1>. QED
    BY <1>1, <1>2, <1>3, <1>4
    DEF Next, JobStep, LoopStep, JobFinishes, JobStops, JobFails, JobEnds, Session, SessionEnds,
        Log, Pull, PullFails, Begin, Sleep, PollSame, Pushed, PushFails, Check, LastPushed,
        LastPushFails, Say, vars

LEMMA SayingKeeps == Typed /\ Pushing /\ Saying /\ [Next]_vars => Saying'
<1>. SUFFICES ASSUME Positions, Shape, Pushing, Saying, [Next]_vars PROVE Saying'
    BY DEF Typed
<1>. USE DEF hubVars, diskVars, jobVars, loopVars, pushVars, history
<1>0. Total \in Nat \ {0} /\ tracker \in 0 .. Total
    BY KaggleAssumption DEF Positions
<1>1. CASE Session
    BY <1>1 DEF Session, Saying
<1>2. CASE SessionEnds
    BY <1>2 DEF SessionEnds, Saying
<1>3. CASE Save
    BY <1>3 DEF Save, Saying, Shape
<1>4. CASE Log \/ JobEnds \/ UNCHANGED vars
    BY <1>4 DEF Log, JobEnds, vars, Saying
<1>5. CASE Pull \/ PullFails
    <2>1. /\ sh = "pull" /\ sh' \in {"out", "poll"} /\ said' \in {"already finished", said}
          /\ hub' = hub
        BY <1>5 DEF Pull, PullFails, Begin
    <2>. QED
        BY <2>1 DEF Saying
<1>6. CASE Sleep \/ PollPush \/ PollSame \/ PushFails \/ Check \/ LoopEnds
    BY <1>6 DEF Sleep, PollPush, PollSame, PushFails, Check, LoopEnds, Push, Saying
<1>7. CASE Pushed
    BY <1>7 DEF Pushed, Saying
<1>8. CASE LastPushed
    <2>1. tracker = Total => hub'[Total] # 0
        BY <1>8, CommitIsSound DEF LastPushed, Pushing
    <2>. QED
        BY <1>8, <2>1 DEF LastPushed, Saying
<1>9. CASE LastPushFails
    BY <1>9 DEF LastPushFails, Saying
<1>10. CASE Say
    <2>1. said' = "finished" => tracker = Total
        BY <1>0, <1>10 DEF Say
    <2>. QED
        BY <1>10, <2>1 DEF Say, Saying
<1>. QED
    BY <1>1, <1>2, <1>3, <1>4, <1>5, <1>6, <1>7, <1>8, <1>9, <1>10
    DEF Next, JobStep, LoopStep, JobFinishes, JobStops, JobFails

PushInv == Typed /\ Pushing /\ Saying

LEMMA PushInvAlways == Spec => []PushInv
<1>1. Init => PushInv
    BY TypedInit DEF PushInv, Init, Pushing, Saying
<1>2. PushInv /\ [Next]_vars => PushInv'
    BY TypedStep, PushingKeeps, SayingKeeps DEF PushInv
<1>. QED
    BY <1>1, <1>2, PTL DEF Spec

\* The newest step on the Hub never goes back, though hub_sync.py reads what is there and what
\* the tracker says before it commits, and a run that started anew pushes smaller steps.
THEOREM ProgressIsKept == Spec => HubNeverGoesBack
<1>1. PushInv /\ [Next]_vars => [Newest(hub') >= Newest(hub)]_hub
    <2>. SUFFICES ASSUME PushInv, [Next]_vars, hub' # hub
                  PROVE  Newest(hub') >= Newest(hub)
        OBVIOUS
    <2>1. Pushed \/ LastPushed
        BY DEF Next, JobStep, LoopStep, JobFinishes, JobStops, JobFails, JobEnds, Session,
               SessionEnds, Save, Log, Pull, PullFails, Begin, Sleep, PollPush, PollSame,
               PushFails, Check, LoopEnds, Push, LastPushFails, Say, vars, hubVars
    <2>. QED
        BY <2>1, CommitIsSound DEF Pushed, LastPushed, PushInv, Typed
<1>. QED
    BY <1>1, PushInvAlways, PTL DEF Spec, HubNeverGoesBack

\* "finished" is said only when the last step is on the Hub, unless the last push failed.
THEOREM FinishedMeansCarried == Spec => []FinishedIsCarried
<1>1. PushInv => FinishedIsCarried
    BY DEF PushInv, Saying, FinishedIsCarried
<1>. QED
    BY <1>1, PushInvAlways, PTL

-----------------------------------------------------------------------------
(***************************************************************************)
(* Until a pull fails, all that is on the Hub has one life, and while a    *)
(* session works, all that is on its disk has that life too.  A log is     *)
(* never without the checkpoints it is about.                              *)
(***************************************************************************)
AllOf(ckpts, lines, l) ==
    (\A s \in On(ckpts) : ckpts[s] = l) /\ (\A i \in DOMAIN lines : lines[i].life = l)

Lineage ==
    ~pullFailed =>
        /\ \E l \in Lives : AllOf(hub, hubLog, l)
        /\ sh \in Working => AllOf(hub, hubLog, life) /\ AllOf(disk, log, life)
        /\ On(hub) = {} => hubLog = <<>>
        /\ sh \in Working /\ tracker = 0 => log = <<>>

\* The session's own log is as complete as the one on the Hub has to be.
Lines ==
    ~pullFailed /\ sh \in Working =>
        /\ Newest(hub) <= tracker
        /\ \A s \in 1 .. tracker :
              \/ \E i \in DOMAIN log : log[i].step = s
              \/ s \in resumed
              \/ s = tracker /\ job # "train"

HubInv == PushInv /\ Lineage /\ Lines /\ LogFollowsTheHub

\* Pruning only takes checkpoints away.
LEMMA WithoutTakes ==
    ASSUME NEW c, NEW S
    PROVE  \A s \in On(Without(c, S)) : s \in On(c) /\ Without(c, S)[s] = c[s]
    BY DEF On, Without

\* A Hub with no checkpoint is the empty one.
LEMMA NothingOnIt ==
    ASSUME NEW c \in [Steps -> Lives], c = Nothing
    PROVE  On(c) = {}
    BY DEF On, Nothing

\* A failed pull is remembered.
LEMMA PullFailureIsKept == [Next]_vars /\ ~pullFailed' => ~pullFailed
    BY DEF Next, JobStep, LoopStep, JobFinishes, JobStops, JobFails, JobEnds, Session,
           SessionEnds, Save, Log, Pull, PullFails, Begin, Sleep, PollPush, PollSame, Pushed,
           PushFails, Check, LoopEnds, Push, LastPushed, LastPushFails, Say, vars,
           history

LEMMA LineageKeeps == HubInv /\ [Next]_vars => Lineage'
<1>. SUFFICES ASSUME HubInv, [Next]_vars, ~pullFailed' PROVE Lineage'
    BY DEF Lineage
<1>. USE DEF hubVars, diskVars, jobVars, loopVars, pushVars, history
<1>0. Positions /\ Logs /\ Notes /\ Shape /\ Pushing /\ Lineage
    BY DEF HubInv, PushInv, Typed
<1>a. ~pullFailed
    BY PullFailureIsKept
<1>b. /\ \E l \in Lives : AllOf(hub, hubLog, l)
      /\ sh \in Working => AllOf(hub, hubLog, life) /\ AllOf(disk, log, life)
      /\ On(hub) = {} => hubLog = <<>>
      /\ sh \in Working /\ tracker = 0 => log = <<>>
    BY <1>0, <1>a DEF Lineage
<1>c. /\ tracker \in 0 .. Total /\ at \in 0 .. Total /\ step \in 0 .. Total /\ life \in Lives
      /\ sessions \in Lives /\ Total \in Nat \ {0}
    BY <1>0, KaggleAssumption DEF Positions
<1>1. CASE UNCHANGED hubVars /\ sh' \notin Working
    BY <1>1, <1>b DEF Lineage
<1>2. CASE UNCHANGED <<hubVars, diskVars, life>> /\ (sh' \in Working => sh \in Working)
    BY <1>2, <1>b DEF Lineage
<1>3. CASE Save
    <2>1. sh \in Working /\ sh' = sh /\ UNCHANGED <<hubVars, log, life>>
        BY <1>0, <1>3 DEF Save, Shape, Working
    <2>2. tracker' # 0
        BY <1>c, <1>3 DEF Save
    <2>3. ASSUME NEW s \in On(disk') PROVE disk'[s] = life
        <3>1. PICK S : disk' = [Without(disk, S) EXCEPT ![at + 1] = life]
            BY <1>3 DEF Save
        <3>2. CASE s = at + 1
            BY <2>3, <3>1, <3>2 DEF On, Without
        <3>3. CASE s # at + 1
            <4>1. s \in On(Without(disk, S)) /\ disk'[s] = Without(disk, S)[s]
                BY <2>3, <3>1, <3>3 DEF On, Without
            <4>2. s \in On(disk) /\ Without(disk, S)[s] = disk[s]
                BY <4>1, WithoutTakes
            <4>. QED
                BY <1>b, <2>1, <4>1, <4>2 DEF AllOf
        <3>. QED
            BY <3>2, <3>3
    <2>4. AllOf(disk', log', life')
        BY <1>b, <2>1, <2>3 DEF AllOf
    <2>. QED
        BY <1>b, <2>1, <2>2, <2>4 DEF Lineage
<1>4. CASE Log
    <2>1. /\ sh \in Working /\ sh' = sh /\ UNCHANGED <<hubVars, disk, tracker, life>>
          /\ tracker # 0
        BY <1>0, <1>4 DEF Log, Shape, Working
    <2>2. log \in Seq(LogLine) /\ log' = Append(log, [step |-> at, life |-> life])
        BY <1>0, <1>4 DEF Logs, Log
    <2>3. ASSUME NEW i \in DOMAIN log' PROVE log'[i].life = life
        <3>1. CASE i \in DOMAIN log
            <4>1. log'[i] = log[i]
                BY <2>2, <3>1
            <4>. QED
                BY <1>b, <2>1, <3>1, <4>1 DEF AllOf
        <3>2. CASE i \notin DOMAIN log
            <4>1. i = Len(log) + 1
                BY <2>2, <2>3, <3>2
            <4>2. log'[i] = [step |-> at, life |-> life]
                BY <2>2, <4>1
            <4>. QED
                BY <4>2
        <3>. QED
            BY <3>1, <3>2
    <2>4. AllOf(disk', log', life')
        BY <1>b, <2>1, <2>3 DEF AllOf
    <2>. QED
        BY <1>b, <2>1, <2>4 DEF Lineage
<1>5. CASE JobEnds
    <2>1. /\ disk' = Without(disk, On(disk) \ (Last(2, On(disk)) \cup {tracker}))
          /\ UNCHANGED <<hubVars, tracker, log, life, sh>>
        BY <1>5 DEF JobEnds, Pruned
    <2>2. \A s \in On(disk') : s \in On(disk) /\ disk'[s] = disk[s]
        BY <2>1, WithoutTakes
    <2>3. sh \in Working => AllOf(disk', log', life')
        BY <1>b, <2>1, <2>2 DEF AllOf
    <2>. QED
        BY <1>b, <2>1, <2>3 DEF Lineage
<1>6. CASE Pull
    <2>1. /\ disk' = Restored(Newest(hub)) /\ tracker' = Newest(hub) /\ log' = hubLog
          /\ UNCHANGED hubVars
        BY <1>6 DEF Pull, Begin
    <2>2. CASE sh' \notin Working
        BY <1>1, <2>1, <2>2
    <2>3. CASE sh' \in Working
        <3>1. life' = IF Newest(hub) = 0 THEN sessions ELSE disk'[Newest(hub)]
            BY <1>6, <2>1, <2>3 DEF Pull, Begin, Working
        <3>2. CASE Newest(hub) = 0
            <4>1. On(hub) = {} /\ hubLog = <<>>
                BY <1>b, <3>2, NewestIsLast
            <4>2. On(disk') = {}
                BY <2>1, <3>2 DEF On, Restored, Steps
            <4>3. AllOf(hub', hubLog', life') /\ AllOf(disk', log', life')
                BY <2>1, <4>1, <4>2 DEF AllOf
            <4>. QED
                BY <1>b, <2>1, <4>1, <4>3 DEF Lineage
        <3>3. CASE Newest(hub) # 0
            <4>1. Newest(hub) \in On(hub)
                BY <3>3, NewestIsLast
            <4>2. life' = hub[Newest(hub)]
                BY <2>1, <3>1, <3>3, <4>1 DEF Restored, On
            <4>3. AllOf(hub, hubLog, life')
                BY <1>b, <4>1, <4>2 DEF AllOf
            <4>4. \A s \in On(disk') : s = Newest(hub) /\ disk'[s] = hub[s]
                BY <2>1 DEF On, Restored
            <4>5. AllOf(disk', log', life')
                BY <2>1, <4>2, <4>3, <4>4 DEF AllOf
            <4>. QED
                BY <1>b, <2>1, <3>3, <4>3, <4>5 DEF Lineage
        <3>. QED
            BY <3>2, <3>3
    <2>. QED
        BY <2>2, <2>3
<1>7. CASE PullFails
    <2>1. On(hub) = {}
        BY <1>0, <1>7, NothingOnIt DEF PullFails, Positions
    <2>2. hubLog = <<>>
        BY <1>b, <2>1
    <2>3. /\ disk' = Nothing /\ log' = <<>> /\ UNCHANGED hubVars
        BY <1>7, <2>2 DEF PullFails, Begin
    <2>4. On(disk') = {}
        BY <2>3 DEF On, Nothing
    <2>5. AllOf(hub', hubLog', life') /\ AllOf(disk', log', life')
        BY <2>1, <2>2, <2>3, <2>4 DEF AllOf
    <2>. QED
        BY <1>b, <2>2, <2>3, <2>5 DEF Lineage
<1>8. CASE Pushed \/ LastPushed
    <2>1. /\ Commit /\ sh \in {"push", "last"} /\ sh \in Working
          /\ UNCHANGED <<disk, tracker, log, life>>
        BY <1>8 DEF Pushed, LastPushed, Working
    <2>2. /\ uploads => step \in On(hub') /\ hub'[step] = disk[step]
          /\ \A s \in On(hub') : (uploads /\ s = step) \/ (s \in On(hub) /\ hub'[s] = hub[s])
        BY <1>0, <2>1, Committed
    <2>3. uploads => step \in On(disk)
        BY <1>0, <2>1 DEF Commit, Shape, On
    <2>4. \A s \in On(hub') : hub'[s] = life
        BY <1>b, <2>1, <2>2, <2>3 DEF AllOf
    <2>5. hubLog' \in {hubLog, log} /\ (log # <<>> => hubLog' = log)
              /\ (log = <<>> => hubLog' = hubLog)
        BY <2>1 DEF Commit
    <2>6. AllOf(hub', hubLog', life)
        BY <1>b, <2>1, <2>4, <2>5 DEF AllOf
    <2>7. ASSUME On(hub') = {} PROVE hubLog' = <<>>
        <3>1. ~uploads
            BY <2>2, <2>7
        <3>2. Newest(hub') >= Newest(hub)
            BY <1>0, <2>1, CommitIsSound
        <3>3. On(hub) = {}
            <4>1. Newest(hub') = 0 /\ Newest(hub) \in 0 .. Total
                BY <2>7, NewestIsLast
            <4>2. Newest(hub) = 0
                BY <1>c, <3>2, <4>1
            <4>. QED
                BY <4>2, NewestIsLast
        <3>4. step = 0
            <4>1. step = 0 \/ hub[step] # 0
                BY <1>0, <2>1, <3>1 DEF Pushing
            <4>2. step # 0 => step \in Steps
                BY <1>c DEF Steps
            <4>. QED
                BY <3>3, <4>1, <4>2 DEF On
        <3>5. tracker = 0
            BY <1>0, <2>1, <3>4 DEF Pushing
        <3>. QED
            BY <1>b, <2>1, <2>5, <3>3, <3>5
    <2>. QED
        BY <1>b, <1>c, <2>1, <2>6, <2>7 DEF Lineage
<1>. QED
    BY <1>1, <1>2, <1>3, <1>4, <1>5, <1>6, <1>7, <1>8
    DEF Next, JobStep, LoopStep, JobFinishes, JobStops, JobFails, Session, SessionEnds,
        Sleep, PollPush, PollSame, PushFails, Check, LoopEnds, Push, LastPushFails, Say, vars,
        Working

LEMMA LinesKeep == HubInv /\ [Next]_vars => Lines'
<1>. SUFFICES ASSUME HubInv, [Next]_vars, ~pullFailed', sh' \in Working PROVE Lines'
    BY DEF Lines
<1>. USE DEF hubVars, diskVars, jobVars, loopVars, pushVars, history
<1>0. Positions /\ Logs /\ Shape /\ Pushing /\ Lineage /\ Lines
    BY DEF HubInv, PushInv, Typed
<1>a. ~pullFailed
    BY PullFailureIsKept
<1>b. sh \in Working =>
        /\ Newest(hub) <= tracker
        /\ \A s \in 1 .. tracker :
              \/ \E i \in DOMAIN log : log[i].step = s
              \/ s \in resumed
              \/ s = tracker /\ job # "train"
    BY <1>0, <1>a DEF Lines
<1>c. /\ tracker \in 0 .. Total /\ at \in 0 .. Total /\ step \in 0 .. Total
      /\ Total \in Nat \ {0} /\ Newest(hub) \in 0 .. Total /\ Newest(hub') \in 0 .. Total
    BY <1>0, KaggleAssumption, NewestIsLast DEF Positions
<1>1. CASE sh \in Working /\ UNCHANGED <<hub, tracker, log, job, resumed>>
    BY <1>1, <1>b DEF Lines
<1>2. CASE Save
    <2>1. /\ sh \in Working /\ job = "train" /\ job' = "log" /\ tracker = at
          /\ tracker' = tracker + 1 /\ UNCHANGED <<hub, log, resumed>>
        BY <1>0, <1>2 DEF Save, Shape, Working
    <2>2. Newest(hub) <= tracker'
        BY <1>b, <1>c, <2>1
    <2>3. ASSUME NEW s \in 1 .. tracker'
          PROVE  \/ \E i \in DOMAIN log' : log'[i].step = s
                 \/ s \in resumed'
                 \/ s = tracker' /\ job' # "train"
        <3>1. s \in 1 .. tracker \/ s = tracker'
            BY <1>c, <2>1, <2>3
        <3>. QED
            BY <1>b, <2>1, <3>1
    <2>. QED
        BY <2>1, <2>2, <2>3 DEF Lines
<1>3. CASE Log
    <2>1. /\ sh \in Working /\ tracker = at /\ UNCHANGED <<hub, tracker, resumed>>
          /\ log \in Seq(LogLine) /\ log' = Append(log, [step |-> at, life |-> life])
        BY <1>0, <1>3 DEF Log, Shape, Working, Logs
    <2>2. \A i \in DOMAIN log : i \in DOMAIN log' /\ log'[i] = log[i]
        BY <2>1
    <2>3. Len(log) + 1 \in DOMAIN log' /\ log'[Len(log) + 1] = [step |-> at, life |-> life]
        BY <2>1
    <2>4. ASSUME NEW s \in 1 .. tracker'
          PROVE  (\E i \in DOMAIN log' : log'[i].step = s) \/ s \in resumed'
        <3>1. CASE s = tracker
            <4>1. log'[Len(log) + 1].step = s
                BY <2>1, <2>3, <3>1
            <4>. QED
                BY <2>3, <4>1
        <3>2. CASE s # tracker
            BY <1>b, <2>1, <2>2, <3>2
        <3>. QED
            BY <3>1, <3>2
    <2>. QED
        BY <1>b, <2>1, <2>4 DEF Lines
<1>4. CASE JobEnds
    BY <1>4, <1>b DEF JobEnds, Lines
<1>5. CASE Pull
    <2>1. /\ tracker' = Newest(hub) /\ log' = hubLog /\ hub' = hub
          /\ resumed' = resumed \cup {Newest(hub)}
        BY <1>5 DEF Pull, Begin
    <2>2. \A s \in 1 .. Newest(hub) :
              \/ \E i \in DOMAIN hubLog : hubLog[i].step = s
              \/ s \in resumed \cup {Newest(hub)}
        BY <1>a DEF HubInv, LogFollowsTheHub
    <2>3. Newest(hub) <= Newest(hub)
        BY <1>c
    <2>. QED
        BY <2>1, <2>2, <2>3 DEF Lines
<1>6. CASE PullFails
    <2>1. On(hub) = {}
        BY <1>0, <1>6, NothingOnIt DEF PullFails, Positions
    <2>2. Newest(hub) = 0
        BY <2>1, NewestIsLast
    <2>3. tracker' = 0 /\ hub' = hub
        BY <1>6 DEF PullFails, Begin
    <2>4. Newest(hub') <= tracker'
        BY <2>2, <2>3
    <2>5. \A s \in 1 .. tracker' : FALSE
        BY <2>3
    <2>. QED
        BY <2>4, <2>5 DEF Lines
<1>7. CASE Pushed \/ LastPushed
    <2>1. /\ Commit /\ sh \in {"push", "last"} /\ sh \in Working
          /\ UNCHANGED <<tracker, log, job, resumed>>
        BY <1>7 DEF Pushed, LastPushed, Working
    <2>2. ASSUME NEW s \in On(hub') PROVE s <= tracker
        <3>1. CASE uploads /\ s = step
            BY <1>0, <2>1, <3>1 DEF Pushing
        <3>2. CASE s \in On(hub)
            <4>1. s <= Newest(hub) /\ s \in 1 .. Total
                BY <3>2, NewestIsLast DEF On, Steps
            <4>. QED
                BY <1>b, <1>c, <2>1, <4>1
        <3>. QED
            BY <1>0, <2>1, <2>2, <3>1, <3>2, Committed
    <2>3. Newest(hub') <= tracker
        <3>1. CASE On(hub') = {}
            <4>1. Newest(hub') = 0
                BY <3>1, NewestIsLast
            <4>. QED
                BY <1>c, <4>1
        <3>2. CASE On(hub') # {}
            BY <2>2, <3>2, NewestIsLast
        <3>. QED
            BY <3>1, <3>2
    <2>. QED
        BY <1>b, <2>1, <2>3 DEF Lines
<1>. QED
    BY <1>1, <1>2, <1>3, <1>4, <1>5, <1>6, <1>7
    DEF Next, JobStep, LoopStep, JobFinishes, JobStops, JobFails, Session, SessionEnds,
        Sleep, PollPush, PollSame, PushFails, Check, LoopEnds, Push, LastPushFails, Say, vars,
        Working

LEMMA LogKeepsFollowing == HubInv /\ Lines' /\ [Next]_vars => LogFollowsTheHub'
<1>. SUFFICES ASSUME HubInv, Lines', [Next]_vars, ~pullFailed'
              PROVE  \A s \in 1 .. Newest(hub') :
                        \/ \E i \in DOMAIN hubLog' : hubLog'[i].step = s
                        \/ s \in resumed' \cup {Newest(hub')}
    BY DEF LogFollowsTheHub
<1>. USE DEF hubVars, diskVars, jobVars, loopVars, pushVars, history
<1>1. CASE UNCHANGED <<hub, hubLog>> /\ resumed \subseteq resumed' /\ ~pullFailed
    BY <1>1 DEF HubInv, LogFollowsTheHub
<1>2. CASE Pushed \/ LastPushed
    <2>1. /\ sh' \in Working /\ UNCHANGED <<tracker, log, resumed>>
          /\ log # <<>> => hubLog' = log
        BY <1>2 DEF Pushed, LastPushed, Commit, Working
    <2>2. /\ Newest(hub') <= tracker
          /\ \A s \in 1 .. tracker :
                \/ \E i \in DOMAIN log : log[i].step = s
                \/ s \in resumed
                \/ s = tracker
        BY <2>1 DEF Lines
    <2>3. tracker \in 0 .. Total /\ Newest(hub') \in 0 .. Total /\ Total \in Nat
        BY KaggleAssumption, NewestIsLast DEF HubInv, PushInv, Typed, Positions
    <2>4. ASSUME NEW s \in 1 .. Newest(hub')
          PROVE  \/ \E i \in DOMAIN hubLog' : hubLog'[i].step = s
                 \/ s \in resumed' \cup {Newest(hub')}
        <3>1. s \in 1 .. tracker /\ (s = tracker => s = Newest(hub'))
            BY <2>2, <2>3
        <3>2. ASSUME NEW i \in DOMAIN log, log[i].step = s
              PROVE  \E j \in DOMAIN hubLog' : hubLog'[j].step = s
            <4>1. log # <<>>
                BY <3>2
            <4>. QED
                BY <2>1, <3>2, <4>1
        <3>. QED
            BY <2>1, <2>2, <3>1, <3>2
    <2>. QED
        BY <2>4
<1>3. CASE ~(Pushed \/ LastPushed)
    <2>1. UNCHANGED <<hub, hubLog>> /\ resumed \subseteq resumed'
        BY <1>3 DEF Next, JobStep, LoopStep, JobFinishes, JobStops, JobFails, JobEnds, Session,
            SessionEnds, Save, Log, Pull, PullFails, Begin, Sleep, PollPush, PollSame,
            PushFails, Check, LoopEnds, Push, LastPushFails, Say, vars
    <2>. QED
        BY <1>1, <2>1, PullFailureIsKept
<1>. QED
    BY <1>2, <1>3

LEMMA HubInvInit == Init => HubInv
<1>. SUFFICES ASSUME Init PROVE HubInv
    OBVIOUS
<1>1. hub = Nothing /\ hubLog = <<>> /\ sh \notin Working
    BY DEF Init, Working
<1>2. Typed
    BY TypedInit
<1>3. PushInv
    BY <1>2 DEF PushInv, Init, Pushing, Saying
<1>4. On(hub) = {} /\ Newest(hub) = 0
    BY <1>1, <1>2, NothingOnIt, NewestIsLast DEF Typed, Positions
<1>5. 0 \in Lives /\ AllOf(hub, hubLog, 0)
    BY <1>1, <1>4, KaggleAssumption DEF AllOf, Lives
<1>6. Lineage /\ Lines
    BY <1>1, <1>5 DEF Lineage, Lines
<1>7. LogFollowsTheHub
    BY <1>4 DEF LogFollowsTheHub
<1>. QED
    BY <1>3, <1>6, <1>7 DEF HubInv

LEMMA HubInvStep == HubInv /\ [Next]_vars => HubInv'
<1>1. HubInv /\ [Next]_vars => PushInv'
    BY TypedStep, PushingKeeps, SayingKeeps DEF HubInv, PushInv
<1>. QED
    BY <1>1, LineageKeeps, LinesKeep, LogKeepsFollowing DEF HubInv

\* While no pull fails, the Hub holds one run, carried from session to session: its checkpoints
\* and the lines of its log have one life, and only the newest step, or one that a session
\* resumed after, can lack its line.
THEOREM OneRunIsCarried == Spec => []HubIsOneRun
<1>1. HubInv => HubIsOneRun
    <2>. SUFFICES ASSUME HubInv PROVE HubIsOneRun
        OBVIOUS
    <2>1. TypeOK
        BY DEF HubInv, PushInv, Typed, TypeOK, Positions, Logs, Notes
    <2>2. OneLife
        BY DEF HubInv, Lineage, AllOf, OneLife
    <2>. QED
        BY <2>1, <2>2 DEF HubInv, HubIsOneRun
<1>. QED
    BY <1>1, HubInvInit, HubInvStep, PTL DEF Spec
=============================================================================
