--------------------------- MODULE KaggleSession ---------------------------
(***************************************************************************)
(* One run carried from session to session: kaggle/train.sh pulls it from  *)
(* the Hub, trains in the background, pushes checkpoints while it polls,   *)
(* stops before the session limit, and pushes once more at the end.        *)
(* scripts/hub_sync.py reads the tracker and lists the files first and     *)
(* commits them later; the trainer goes on in between.  A session can end  *)
(* at any moment and takes its disk with it.  A checkpoint and a log line  *)
(* carry the life that wrote them: the session that last began at step 0.  *)
(***************************************************************************)
EXTENDS Naturals, Sequences, FiniteSets

CONSTANTS
    Total,         \* trainer.total_training_steps; save_freq is 1
    HubKeep,       \* MC_HUB_KEEP
    MaxSessions,   \* bound: sessions that are started
    MaxFailures    \* bound: pulls, pushes and trainers that fail

ASSUME KaggleAssumption ==
    Total \in Nat \ {0} /\ HubKeep \in Nat \ {0} /\ MaxSessions \in Nat /\ MaxFailures \in Nat

VARIABLES
    hub,         \* the checkpoints on the Hub: by step, the life that trained it, or 0
    hubTracker,  \* the tracker file on the Hub
    hubLog,      \* metrics.jsonl on the Hub
    disk,        \* the checkpoints in the run dir, by step
    tracker,     \* latest_checkpointed_iteration.txt
    log,         \* metrics.jsonl: the step and the life of every line
    job,         \* the trainer: "off", "train", "log" (saved, not logged)
    at,          \* its global step
    life,        \* its life
    sh,          \* where kaggle/train.sh is
    start,       \* its variables
    pushed,
    seen,
    stopping,
    step,        \* hub_sync.push: the step it read,
    uploads,     \*   whether the Hub lacks it,
    stale,       \*   and what it will prune
    said,        \* the last words of train.sh
    sessions,    \* sessions so far
    failures,    \* failures so far
    pullFailed,  \* history: a pull has failed
    pushFailed,  \* history: the last push of this session has failed
    carried,     \* history: the steps that were ever committed
    resumed      \* history: the steps that sessions resumed after

hubVars == <<hub, hubTracker, hubLog>>
diskVars == <<disk, tracker, log>>
jobVars == <<job, at, life>>
loopVars == <<start, pushed, seen, stopping>>
pushVars == <<step, uploads, stale>>
history == <<pullFailed, pushFailed, carried, resumed>>
vars == <<hubVars, diskVars, jobVars, sh, loopVars, pushVars, said, sessions, failures, history>>

Steps == 1 .. Total
On(ckpts) == {s \in Steps : ckpts[s] # 0}
Newest(ckpts) == IF On(ckpts) = {} THEN 0 ELSE CHOOSE s \in On(ckpts) : \A t \in On(ckpts) : t <= s
Nothing == [s \in Steps |-> 0]
Without(ckpts, S) == [s \in Steps |-> IF s \in S THEN 0 ELSE ckpts[s]]
\* The n largest members of S, as sorted(S)[-n:] takes them.
Last(n, S) == {s \in S : Cardinality({t \in S : t > s}) < n}
LastLogged(l) == IF l = <<>> THEN 0 ELSE l[Len(l)].step

Init ==
    /\ hub = Nothing /\ hubTracker = 0 /\ hubLog = <<>>
    /\ disk = Nothing /\ tracker = 0 /\ log = <<>>
    /\ job = "off" /\ at = 0 /\ life = 0
    /\ sh = "gone" /\ start = 0 /\ pushed = 0 /\ seen = 0 /\ stopping = FALSE
    /\ step = 0 /\ uploads = FALSE /\ stale = {}
    /\ said = "" /\ sessions = 0 /\ failures = 0
    /\ pullFailed = FALSE /\ pushFailed = FALSE /\ carried = {} /\ resumed = {}

----------------------------------------------------------------------------
\* The session

\* A new session with an empty disk.
Session ==
    /\ sh = "gone" /\ sessions < MaxSessions
    /\ sh' = "pull" /\ sessions' = sessions + 1 /\ said' = "" /\ pushFailed' = FALSE
    /\ UNCHANGED <<hubVars, diskVars, jobVars, loopVars, pushVars, failures, pullFailed, carried, resumed>>

\* The 12 hours are over, or the session is lost: everything on its disk is gone.
SessionEnds ==
    /\ sh # "gone" /\ sh' = "gone"
    /\ disk' = Nothing /\ tracker' = 0 /\ log' = <<>>
    /\ job' = "off"
    /\ at' = 0 /\ life' = 0 /\ start' = 0 /\ pushed' = 0 /\ seen' = 0 /\ stopping' = FALSE
    /\ step' = 0 /\ uploads' = FALSE /\ stale' = {}
    /\ UNCHANGED <<hubVars, said, sessions, failures, pullFailed, pushFailed, carried, resumed>>

----------------------------------------------------------------------------
\* The trainer: slurm/run_train.sh in the background

\* verl saves the step, moves the tracker and drops the step before last that this job saved.
Save ==
    /\ job = "train" /\ at < Total
    /\ at' = at + 1 /\ tracker' = at + 1 /\ job' = "log"
    /\ disk' = [Without(disk, {s \in Steps : s > start /\ s + 1 < at + 1}) EXCEPT ![at + 1] = life]
    /\ UNCHANGED <<hubVars, log, life, sh, loopVars, pushVars, said, sessions, failures, history>>

Log ==
    /\ job = "log" /\ job' = "train"
    /\ log' = Append(log, [step |-> at, life |-> life])
    /\ UNCHANGED <<hubVars, disk, tracker, at, life, sh, loopVars, pushVars, said, sessions,
                   failures, history>>

\* mc_prune_checkpoints, at the end of every job, keeps two.
Pruned == Without(disk, On(disk) \ (Last(2, On(disk)) \cup {tracker}))

JobEnds ==
    /\ job' = "off" /\ disk' = Pruned
    /\ UNCHANGED <<hubVars, tracker, log, at, life, sh, loopVars, pushVars, said, sessions,
                   pullFailed, pushFailed, carried, resumed>>

JobFinishes == job = "train" /\ at = Total /\ JobEnds /\ UNCHANGED failures

\* SIGUSR1 reaches the job some time after it was sent.
JobStops == job # "off" /\ stopping /\ JobEnds /\ UNCHANGED failures

JobFails == job # "off" /\ failures < MaxFailures /\ JobEnds /\ failures' = failures + 1

JobStep == Save \/ Log \/ JobFinishes \/ JobStops

----------------------------------------------------------------------------
\* hub_sync.py pull, and the start of the trainer

Begin(newDisk, newTracker, newLog) ==
    /\ disk' = newDisk /\ tracker' = newTracker /\ log' = newLog
    /\ start' = newTracker /\ pushed' = newTracker
    /\ seen' = LastLogged(newLog) /\ stopping' = FALSE
    /\ IF newTracker >= Total
         THEN sh' = "out" /\ said' = "already finished" /\ UNCHANGED jobVars
         ELSE /\ sh' = "poll" /\ job' = "train" /\ at' = newTracker
              /\ life' = IF newTracker = 0 THEN sessions ELSE newDisk[newTracker]
              /\ UNCHANGED said
    /\ resumed' = resumed \cup {newTracker}
    /\ UNCHANGED <<hubVars, pushVars, sessions, pushFailed, carried>>

Restored(s) == [t \in Steps |-> IF t = s THEN hub[s] ELSE 0]

\* Mutant: the tracker of the Hub is trusted, whatever was pulled.
PullTrusts ==
    /\ sh = "pull"
    /\ Begin(Restored(Newest(hub)), hubTracker, hubLog)
    /\ UNCHANGED <<failures, pullFailed>>

\* The newest checkpoint and the small files; then the tracker is written for what was pulled.
Pull ==
    /\ sh = "pull"
    /\ Begin(Restored(Newest(hub)), Newest(hub), hubLog)
    /\ UNCHANGED <<failures, pullFailed>>

\* "WARN: pull failed", and the run starts anew.  The small files may have come.
PullFails ==
    /\ sh = "pull" /\ failures < MaxFailures
    /\ failures' = failures + 1
    /\ pullFailed' = (pullFailed \/ hub # Nothing)
    /\ \E l \in {<<>>, hubLog} : Begin(Nothing, 0, l)

----------------------------------------------------------------------------
\* hub_sync.py push, in two steps

\* Mutant: the slice from the wrong end.
ReadOldest ==
    LET all == On(hub) \cup ({tracker} \ {0})
    IN  /\ step' = tracker /\ uploads' = (tracker \notin On(hub) \cup {0})
        /\ stale' = On(hub) \ {s \in all : Cardinality({t \in all : t < s}) < HubKeep}

\* What is on the Hub, what the tracker says, and so what to upload and what to prune.
Read ==
    /\ step' = tracker /\ uploads' = (tracker \notin On(hub) \cup {0})
    /\ stale' = On(hub) \ Last(HubKeep, On(hub) \cup ({tracker} \ {0}))

\* One commit.  The tracker and the log go as they are now; a listed checkpoint must still exist.
Commit ==
    /\ uploads => disk[step] # 0
    /\ hub' = [s \in Steps |-> IF uploads /\ s = step THEN disk[s]
                               ELSE IF s \in stale THEN 0 ELSE hub[s]]
    /\ hubTracker' = IF uploads THEN tracker ELSE hubTracker
    /\ hubLog' = IF log = <<>> THEN hubLog ELSE log
    /\ carried' = IF uploads THEN carried \cup {step} ELSE carried

Push ==
    /\ Read
    /\ UNCHANGED <<hubVars, diskVars, jobVars, loopVars, said, sessions, failures, history>>

\* The trainer was alive, and train.sh has slept: it may have ended meanwhile.
Sleep ==
    /\ sh = "poll" /\ job # "off" /\ sh' = "awake"
    /\ UNCHANGED <<hubVars, diskVars, jobVars, loopVars, pushVars, said, sessions, failures, history>>

\* The tracker has moved on since the last push.
PollPush ==
    /\ sh = "awake" /\ tracker # pushed
    /\ sh' = "push" /\ Push

PollSame ==
    /\ sh = "awake" /\ tracker = pushed
    /\ sh' = "check"
    /\ UNCHANGED <<hubVars, diskVars, jobVars, loopVars, pushVars, said, sessions, failures, history>>

Pushed ==
    /\ sh = "push" /\ Commit
    /\ sh' = "check" /\ pushed' = tracker
    /\ UNCHANGED <<diskVars, jobVars, start, seen, stopping, pushVars, said, sessions, failures, pullFailed, pushFailed, resumed>>

\* The Hub refuses, or a listed file has been pruned meanwhile.
Refused == uploads /\ disk[step] = 0 /\ UNCHANGED failures
PushError == failures < MaxFailures /\ failures' = failures + 1

PushFails ==
    /\ sh = "push" /\ (Refused \/ PushError)
    /\ sh' = "check"
    /\ UNCHANGED <<hubVars, diskVars, jobVars, loopVars, pushVars, said, sessions, history>>

\* A newly logged step: the next one may not fit before the session limit.
Check ==
    /\ sh = "check" /\ sh' = "poll"
    /\ LET now == LastLogged(log)
       IN  IF stopping \/ now = 0 \/ now = seen
             THEN UNCHANGED <<seen, stopping>>
             ELSE /\ seen' = now
                  /\ \E short \in BOOLEAN : stopping' = (short /\ now < Total)
    /\ UNCHANGED <<hubVars, diskVars, jobVars, start, pushed, pushVars, said, sessions,
                   failures, history>>

\* Mutants: the loop goes on until its last checkpoint is pushed; no push after the loop.
LoopEndsPushed ==
    /\ sh = "poll" /\ job = "off" /\ tracker = pushed
    /\ sh' = "last" /\ Push
LoopEndsWithoutPush ==
    /\ sh = "poll" /\ job = "off"
    /\ sh' = "say" /\ Push

\* The trainer is gone: one more push, whatever the tracker says.
LoopEnds ==
    /\ sh = "poll" /\ job = "off"
    /\ sh' = "last" /\ Push

LastPushed ==
    /\ sh = "last" /\ Commit
    /\ sh' = "say"
    /\ UNCHANGED <<diskVars, jobVars, loopVars, pushVars, said, sessions, failures, pullFailed, pushFailed, resumed>>

\* Its failure changes neither the words nor the exit code that follow.
LastPushFails ==
    /\ sh = "last" /\ PushError
    /\ sh' = "say" /\ pushFailed' = TRUE
    /\ UNCHANGED <<hubVars, diskVars, jobVars, loopVars, pushVars, said, sessions, pullFailed, carried, resumed>>

Say ==
    /\ sh = "say" /\ sh' = "out"
    /\ said' = IF tracker >= Total THEN "finished"
               ELSE IF stopping THEN "session done" ELSE "stopped unexpectedly"
    /\ UNCHANGED <<hubVars, diskVars, jobVars, loopVars, pushVars, sessions, failures, history>>

LoopStep ==
    \/ Pull \/ Sleep \/ PollPush \/ PollSame \/ Pushed \/ PushFails \/ Check
    \/ LoopEnds \/ LastPushed \/ LastPushFails \/ Say

Next == Session \/ SessionEnds \/ JobStep \/ JobFails \/ PullFails \/ LoopStep

Spec == Init /\ [][Next]_vars

\* While the session lasts, the trainer and train.sh go on.
FairSpec == Spec /\ WF_vars(JobStep) /\ WF_vars(LoopStep)

----------------------------------------------------------------------------
LogLine == [step : Steps, life : 1 .. MaxSessions]
Lives == 0 .. MaxSessions

TypeOK ==
    /\ hub \in [Steps -> Lives] /\ disk \in [Steps -> Lives]
    /\ hubTracker \in 0 .. Total /\ tracker \in 0 .. Total
    /\ hubLog \in Seq(LogLine) /\ log \in Seq(LogLine)
    /\ job \in {"off", "train", "log"} /\ at \in 0 .. Total /\ life \in Lives
    /\ sh \in {"gone", "pull", "poll", "awake", "push", "check", "last", "say", "out"}
    /\ start \in 0 .. Total /\ pushed \in 0 .. Total /\ seen \in 0 .. Total
    /\ stopping \in BOOLEAN /\ step \in 0 .. Total /\ uploads \in BOOLEAN
    /\ stale \subseteq Steps /\ carried \subseteq Steps /\ resumed \subseteq 0 .. Total
    /\ said \in {"", "already finished", "finished", "session done", "stopped unexpectedly"}
    /\ sessions \in Lives /\ failures \in 0 .. MaxFailures
    /\ pullFailed \in BOOLEAN /\ pushFailed \in BOOLEAN

\* The progress that has reached the Hub stays there: its newest step never goes back, even
\* when a session could not pull it and pushes the steps of a run that started anew.
HubNeverGoesBack == [][Newest(hub') >= Newest(hub)]_hub

\* Unless a pull has failed, every checkpoint on the Hub and every line of its log come from
\* one life: sessions continue each other.
OneLife ==
    ~pullFailed =>
        \A s \in On(hub) : \A i \in DOMAIN hubLog : hubLog[i].life = hub[s]

\* Unless a pull has failed, the log on the Hub has a line for each step up to the newest
\* checkpoint.  A line can only be missing for that one, and for a step that a session resumed
\* after: the commit, or the end of the job, came between its save and its line.
LogFollowsTheHub ==
    ~pullFailed =>
        \A s \in 1 .. Newest(hub) :
            \/ \E i \in DOMAIN hubLog : hubLog[i].step = s
            \/ s \in resumed \cup {Newest(hub)}

\* What the Hub holds is well-typed and one run, carried from session to session.
HubIsOneRun == TypeOK /\ OneLife /\ LogFollowsTheHub

\* "finished" is said when the last step is on the Hub, unless the last push failed.
FinishedIsCarried == said = "finished" /\ ~pushFailed => hub[Total] # 0

\* train.sh "pushes every new checkpoint to the Hub": a step that it takes for pushed was.
PushedIsOnTheHub == sh \in {"poll", "awake", "check"} /\ pushed # start => pushed \in carried

\* The loop ends when the trainer does, whatever the pushes did.
SessionComesToAnEnd == sh = "poll" ~> sh \in {"out", "gone"}
=============================================================================
