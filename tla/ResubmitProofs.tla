---------------------------- MODULE ResubmitProofs ----------------------------
(***************************************************************************)
(* Theorems about Resubmit for any number of jobs, faults and attempts: as *)
(* long as the user leaves the queue alone during a bad-node exit, one job *)
(* of the name trains at a time, and no twin overtakes the resubmission.   *)
(***************************************************************************)
EXTENDS Resubmit, FiniteSetTheorems, WellFoundedInduction, TLAPS

\* A job that writes the run dir or may do so next: it has started and has not quit, or it is a
\* released resubmission that waits for nothing in the queue.
Busy(x) == state[x] \in {"training", "list", "submit", "repoint"}
Runner(x) == state[x] = "pending" /\ ~single[x]
Live(x) == Busy(x) \/ Runner(x)

\* SLURM hands out the ids in order.
Order == \A i, j \in Jobs : i < j /\ state[i] = "none" => state[j] = "none"

OneLive == \A x, y \in Jobs : Live(x) /\ Live(y) => x = y

\* The pending jobs with lower ids, which the singleton of a live job does not hold back, wait
\* for its end, or for the end of the job that it has submitted.
Waits ==
    \A x, t \in Jobs : t < x /\ state[t] \in Pending =>
        /\ state[x] \in {"training", "list", "submit"} \/ Runner(x) => after[t] = x
        /\ state[x] = "repoint" =>
               after[t] = x \/ (t \in others[x] \ todo[x] /\ after[t] = new[x])

\* Where a bad-node exit is: what it has listed, submitted and re-pointed.
Listed(j) ==
    /\ others[j] \in {{}, {i \in Jobs : state[i] \in Pending}}
    /\ todo[j] = others[j] /\ tries[j] < MaxTries
Held(j) ==
    /\ state[new[j]] = "held" /\ ~single[new[j]]
    /\ \A t \in Jobs : t # new[j] /\ state[t] \in Pending => t \in others[j]
    /\ \A t \in others[j] \ todo[j] : after[t] = new[j]
Repointing(j) ==
    /\ new[j] \in Jobs /\ j # new[j] /\ new[j] \notin others[j] /\ todo[j] \subseteq others[j]
    /\ others[j] = {} => state[new[j]] = "pending" /\ single[new[j]]
    /\ others[j] # {} => Held(j)
Exits ==
    \A j \in Jobs : /\ state[j] = "submit" => Listed(j)
                    /\ state[j] = "repoint" => Repointing(j)

\* A job submits at most one other; with twins, that one is released without a singleton.
Submitted ==
    /\ \A j \in Jobs : state[j] \in {"none", "pending", "held", "training", "list", "submit"} => new[j] = 0
    /\ \A j \in Jobs : new[j] # 0 => state[new[j]] # "none"
    /\ \A i, j \in Jobs : new[i] = new[j] /\ new[i] # 0 => i = j
    /\ \A j \in Jobs : others[j] # {} /\ new[j] # 0 /\ state[new[j]] = "pending" => ~single[new[j]]

Shape == Order /\ OneLive /\ Waits /\ Exits /\ Submitted
QueueInv == TypeOK /\ Shape

-----------------------------------------------------------------------------
\* The order of the numbers as a relation, for the library's theorems on well-founded ones.
LessThan == {p \in Nat \X Nat : p[1] < p[2]}

\* < is well-founded on the numbers.
LEMMA LessThanIsWellFounded == IsWellFoundedOn(LessThan, Nat)
    BY NatLessThanWellFounded, SMT DEF OpToRel, LessThan

\* A set of numbers that is not empty has a least one, and Min returns it.
LEMMA MinIsLeast ==
    ASSUME NEW T, T \subseteq Nat, T # {}
    PROVE  Min(T) \in T /\ \A y \in T : Min(T) <= y
<1>1. PICK x \in T : \A y \in T : <<y, x>> \notin LessThan
    BY LessThanIsWellFounded, WFMin
<1>2. ASSUME NEW y \in T, y < x PROVE <<y, x>> \in LessThan
    BY <1>2 DEF LessThan
<1>3. ASSUME NEW y \in T PROVE x <= y
    <2>1. x \in Nat /\ y \in Nat /\ ~(y < x)
        BY <1>1, <1>2
    <2>. QED
        BY <2>1
<1>. QED
    BY <1>3 DEF Min

\* The job id that SLURM hands out next is above every id that is taken.
LEMMA NextId ==
    ASSUME TypeOK, Order, Free # {}
    PROVE  /\ Min(Free) \in Jobs /\ state[Min(Free)] = "none"
           /\ \A i \in Jobs : state[i] # "none" => i < Min(Free)
           /\ \A i \in Jobs : i < Min(Free) => state[i] # "none"
<1>1. Jobs \subseteq Nat /\ Free \subseteq Jobs
    BY ResubmitAssumption DEF Free
<1>2. Min(Free) \in Free /\ \A y \in Free : Min(Free) <= y
    BY <1>1, MinIsLeast
<1>3. Min(Free) \in Jobs /\ state[Min(Free)] = "none"
    BY <1>2 DEF Free
<1>4. ASSUME NEW i \in Jobs, state[i] # "none" PROVE i < Min(Free)
    <2>1. ~(Min(Free) < i)
        BY <1>3, <1>4 DEF Order
    <2>2. i # Min(Free)
        BY <1>3, <1>4
    <2>3. i \in Nat /\ Min(Free) \in Nat
        BY <1>1, <1>3
    <2>. QED
        BY <2>1, <2>2, <2>3
<1>5. ASSUME NEW i \in Jobs, i < Min(Free) PROVE state[i] # "none"
    <2>1. state[i] = "none" => Min(Free) <= i
        BY <1>2 DEF Free
    <2>2. i \in Nat /\ Min(Free) \in Nat
        BY <1>1, <1>3
    <2>. QED
        BY <1>5, <2>1, <2>2
<1>. QED
    BY <1>3, <1>4, <1>5

States == {"none", "training", "ended"} \cup Pending \cup Exiting

\* Jobs that end or quit, and nothing else: no job comes to life, and an exit that goes on
\* keeps its queue.
LEMMA LeavingKeeps ==
    ASSUME QueueInv,
           \A i \in Jobs : \/ state'[i] = state[i]
                           \/ state[i] # "none" /\ state'[i] \in {"ended", "quit"},
           UNCHANGED <<deps, tries, exit>>,
           \/ \A i \in Jobs : state'[i] \notin {"submit", "repoint"}
           \/ \A i \in Jobs : state[i] \in Pending => state'[i] = state[i]
    PROVE  Shape'
<1>. USE DEF QueueInv, Shape
<1>0. /\ single' = single /\ after' = after /\ tries' = tries
      /\ others' = others /\ todo' = todo /\ new' = new
    BY DEF deps, exit
<1>1. \A i \in Jobs : /\ Busy(i)' => Busy(i) /\ state'[i] = state[i]
                      /\ Runner(i)' => Runner(i) /\ state'[i] = state[i]
                      /\ state'[i] \in Pending => state'[i] = state[i]
                      /\ state'[i] = "none" <=> state[i] = "none"
    BY <1>0 DEF Busy, Runner, Pending
<1>2. Order'
    BY <1>1 DEF Order
<1>3. OneLive'
    BY <1>1 DEF OneLive, Live
<1>4. Waits'
    BY <1>0, <1>1 DEF Waits, Busy
<1>5. Exits'
    <2>1. CASE \A i \in Jobs : state'[i] \notin {"submit", "repoint"}
        BY <2>1 DEF Exits
    <2>2. CASE \A i \in Jobs : state[i] \in Pending => state'[i] = state[i]
        <3>1. {i \in Jobs : state[i] \in Pending}' = {i \in Jobs : state[i] \in Pending}
            BY <1>1, <2>2
        <3>2. ASSUME NEW j \in Jobs, state'[j] = "submit" PROVE Listed(j)'
            BY <1>0, <1>1, <3>1, <3>2 DEF Exits, Listed
        <3>3. ASSUME NEW j \in Jobs, state'[j] = "repoint" PROVE Repointing(j)'
            <4>1. Repointing(j)
                BY <1>1, <3>3 DEF Exits, Busy
            <4>2. state'[new[j]] = state[new[j]]
                BY <2>2, <4>1 DEF Repointing, Held, Pending
            <4>3. others[j] # {} => Held(j)'
                BY <1>0, <1>1, <4>1, <4>2 DEF Repointing, Held
            <4>. QED
                BY <1>0, <4>1, <4>2, <4>3 DEF Repointing
        <3>. QED
            BY <3>2, <3>3 DEF Exits
    <2>. QED
        BY <2>1, <2>2
<1>6. Submitted'
    <2>1. \A j \in Jobs : new[j] # 0 => new[j] \in Jobs
        BY DEF TypeOK
    <2>2. \A j \in Jobs : state'[j] \in {"none", "pending", "held", "training", "list", "submit"}
                               => state'[j] = state[j]
        OBVIOUS
    <2>. QED
        BY <1>0, <1>1, <2>1, <2>2 DEF Submitted, Pending
<1>. QED
    BY <1>2, <1>3, <1>4, <1>5, <1>6

-----------------------------------------------------------------------------
\* The types in two parts.
Queue ==
    /\ state \in [Jobs -> States]
    /\ single \in [Jobs -> BOOLEAN] /\ after \in [Jobs -> Jobs \cup {0}]
    /\ others \in [Jobs -> SUBSET Jobs] /\ todo \in [Jobs -> SUBSET Jobs]
    /\ new \in [Jobs -> Jobs \cup {0}]
Counts ==
    /\ tries \in [Jobs -> 0 .. MaxTries]
    /\ user \in 0 .. MaxUser /\ cancels \in 0 .. MaxCancels /\ faults \in 0 .. MaxFaults

\* The type invariant in its two parts.
LEMMA TypeParts == TypeOK <=> Queue /\ Counts
BY DEF TypeOK, Queue, Counts, States

\* The queue's variables keep their types.
LEMMA QueueKeeps == QueueInv /\ [Next]_vars => Queue'
<1>. SUFFICES ASSUME QueueInv, [Next]_vars PROVE Queue'
    OBVIOUS
<1>0. Queue
    BY TypeParts DEF QueueInv
<1>. USE DEF deps, exit, bounds
<1>1. CASE Submit
    <2>1. Min(Free) \in Jobs
        BY <1>1, NextId DEF QueueInv, Shape, Submit
    <2>. QED
        BY <1>0, <1>1, <2>1 DEF Submit, Queue, States, Pending
<1>2. ASSUME NEW j \in Jobs, Cancel(j) \/ Start(j) \/ End(j) \/ Die(j) PROVE Queue'
    BY <1>0, <1>2 DEF Cancel, Start, End, Die, Queue, States, Pending, Exiting
<1>3. ASSUME NEW j \in Jobs, UsedUp(j) \/ SbatchFails(j) \/ ReleaseFails(j) PROVE Queue'
    BY <1>0, <1>3 DEF UsedUp, SbatchFails, ReleaseFails, Queue, States, Exiting
<1>4. ASSUME NEW j \in Jobs, List(j) PROVE Queue'
    <2>1. PICK pd \in SUBSET Jobs : /\ others' = [others EXCEPT ![j] = pd]
                                    /\ todo' = [todo EXCEPT ![j] = pd]
        <3>1. PICK failed \in BOOLEAN :
                LET pd == IF failed THEN {} ELSE {i \in Jobs : state[i] \in Pending}
                IN  /\ others' = [others EXCEPT ![j] = pd]
                    /\ todo' = [todo EXCEPT ![j] = pd]
            BY <1>4 DEF List
        <3>. QED
            BY <3>1
    <2>2. /\ state' = [state EXCEPT ![j] = "submit"]
          /\ UNCHANGED <<deps, new>>
        BY <1>4 DEF List
    <2>. QED
        BY <1>0, <2>1, <2>2 DEF Queue, States, Exiting
<1>5. ASSUME NEW j \in Jobs, Sbatch(j) PROVE Queue'
    <2>. DEFINE n == Min(Free)
    <2>1. n \in Jobs
        BY <1>5, NextId DEF QueueInv, Shape, Sbatch
    <2>2. /\ state' = [state EXCEPT ![n] = IF others[j] = {} THEN "pending" ELSE "held", ![j] = "repoint"]
          /\ single' = [single EXCEPT ![n] = others[j] = {}]
          /\ new' = [new EXCEPT ![j] = n]
          /\ UNCHANGED <<after, others, todo>>
        BY <1>5 DEF Sbatch
    <2>. HIDE DEF n
    <2>. QED
        BY <1>0, <2>1, <2>2 DEF Queue, States, Pending, Exiting
<1>6. ASSUME NEW j \in Jobs, NEW t \in Jobs, Repoint(j, t) PROVE Queue'
    BY <1>0, <1>6 DEF Repoint, Queue
<1>7. ASSUME NEW j \in Jobs, NEW t \in Jobs, RepointFails(j, t) PROVE Queue'
    <2>1. PICK scancel \in 0 .. 1 :
              state' = [state EXCEPT ![j] = "quit",
                                     ![new[j]] = IF scancel = 1 THEN @ ELSE "ended"]
        BY <1>7 DEF RepointFails
    <2>2. new[j] \in Jobs
        BY <1>7 DEF RepointFails, QueueInv, Shape, Exits, Repointing
    <2>3. UNCHANGED <<deps, exit>>
        BY <1>7 DEF RepointFails
    <2>. QED
        BY <1>0, <2>1, <2>2, <2>3 DEF Queue, States, Exiting
<1>8. ASSUME NEW j \in Jobs, Release(j) PROVE Queue'
    <2>1. new[j] \in Jobs
        BY <1>8 DEF Release, QueueInv, Shape, Exits, Repointing
    <2>. QED
        BY <1>0, <1>8, <2>1 DEF Release, Queue, States, Pending, Exiting
<1>9. CASE UNCHANGED vars
    BY <1>0, <1>9 DEF vars, Queue
<1>. QED
    BY <1>1, <1>2, <1>3, <1>4, <1>5, <1>6, <1>7, <1>8, <1>9 DEF Next, JobStep, Script

\* The bounds' counters keep their types.
LEMMA CountsKeep == QueueInv /\ [Next]_vars => Counts'
<1>. SUFFICES ASSUME QueueInv, [Next]_vars PROVE Counts'
    OBVIOUS
<1>0. Counts /\ {MaxTries, MaxUser, MaxCancels, MaxFaults} \subseteq Nat
    BY TypeParts, ResubmitAssumption DEF QueueInv
<1>. USE DEF bounds
<1>1. CASE Submit
    BY <1>0, <1>1 DEF Submit, Counts
<1>2. ASSUME NEW j \in Jobs, Sbatch(j) PROVE Counts'
    <2>. DEFINE n == Min(Free)
    <2>1. n \in Jobs /\ tries' = [tries EXCEPT ![n] = tries[j] + 1]
        BY <1>2, NextId DEF QueueInv, Shape, Sbatch
    <2>2. tries[j] < MaxTries
        BY <1>2 DEF Sbatch, QueueInv, Shape, Exits, Listed
    <2>3. UNCHANGED bounds
        BY <1>2 DEF Sbatch
    <2>4. tries[j] + 1 \in 0 .. MaxTries
        BY <1>0, <2>2 DEF Counts
    <2>. HIDE DEF n
    <2>. QED
        BY <1>0, <2>1, <2>3, <2>4 DEF Counts
<1>3. ASSUME NEW j \in Jobs, Cancel(j) PROVE Counts'
    BY <1>0, <1>3 DEF Cancel, Counts
<1>4. ASSUME NEW j \in Jobs, Die(j) \/ SbatchFails(j) \/ ReleaseFails(j) PROVE Counts'
    BY <1>0, <1>4 DEF Die, SbatchFails, ReleaseFails, Counts
<1>5. ASSUME NEW j \in Jobs, List(j) PROVE Counts'
    <2>1. /\ tries' = tries /\ user' = user /\ cancels' = cancels
          /\ faults' = faults \/ (faults < MaxFaults /\ faults' = faults + 1)
        BY <1>5 DEF List
    <2>. QED
        BY <1>0, <2>1 DEF Counts
<1>6. ASSUME NEW j \in Jobs, NEW t \in Jobs, RepointFails(j, t) PROVE Counts'
    <2>1. PICK update \in 0 .. 1, scancel \in 0 .. 1 :
              faults + update + scancel <= MaxFaults /\ faults' = faults + update + scancel
        BY <1>6 DEF RepointFails
    <2>2. UNCHANGED <<tries, user, cancels>>
        BY <1>6 DEF RepointFails
    <2>. QED
        BY <1>0, <2>1, <2>2 DEF Counts
<1>7. ASSUME NEW j \in Jobs, Start(j) \/ End(j) \/ UsedUp(j) \/ Release(j) PROVE Counts'
    BY <1>0, <1>7 DEF Start, End, UsedUp, Release, Counts
<1>8. ASSUME NEW j \in Jobs, NEW t \in Jobs, Repoint(j, t) PROVE Counts'
    BY <1>0, <1>8 DEF Repoint, Counts
<1>9. CASE UNCHANGED vars
    BY <1>0, <1>9 DEF vars, Counts
<1>. QED
    BY <1>1, <1>2, <1>3, <1>4, <1>5, <1>6, <1>7, <1>8, <1>9 DEF Next, JobStep, Script

-----------------------------------------------------------------------------
\* A job starts only when no lower one is left: it is the only live one.
LEMMA StartKeeps == ASSUME QueueInv, NEW j \in Jobs, Start(j) PROVE Shape'
<1>. USE DEF QueueInv, Shape
<1>1. PICK s \in {"training", "list"} : state' = [state EXCEPT ![j] = s]
    BY DEF Start
<1>2. /\ single' = single /\ after' = after /\ tries' = tries
      /\ others' = others /\ todo' = todo /\ new' = new
    BY DEF Start, deps, exit
<1>3. /\ state[j] = "pending"
      /\ single[j] => \A i \in Jobs : i < j => state[i] = "ended"
      /\ after[j] # 0 => state[after[j]] = "ended"
    BY DEF Start, Ready, Done
<1>4. state'[j] = s /\ \A i \in Jobs : i # j => state'[i] = state[i]
    BY <1>1 DEF TypeOK
\* No other job is live: one with a lower id has not ended, one with a higher id holds j back.
<1>5. ASSUME NEW y \in Jobs, Live(y) PROVE y = j
    <2>1. CASE ~single[j]
        BY <1>3, <1>5, <2>1 DEF Live, Runner, OneLive
    <2>2. CASE single[j]
        <3>1. y # j
            BY <1>3, <1>5, <2>2 DEF Live, Busy, Runner
        <3>2. ~(y < j)
            BY <1>3, <1>5, <2>2 DEF Live, Busy, Runner
        <3>3. j < y
            <4>1. j \in Nat /\ y \in Nat
                BY ResubmitAssumption
            <4>. QED
                BY <3>1, <3>2, <4>1
        <3>4. after[j] = y \/ (state[y] = "repoint" /\ y \in Jobs /\ after[j] = new[y] /\ j \in others[y])
            BY <1>3, <1>5, <3>3 DEF Waits, Live, Busy, Pending
        <3>5. 0 \notin Jobs
            BY ResubmitAssumption
        <3>6. CASE after[j] = y
            BY <1>3, <1>5, <3>5, <3>6 DEF Live, Busy, Runner
        <3>7. CASE state[y] = "repoint" /\ after[j] = new[y] /\ j \in others[y]
            BY <1>3, <3>5, <3>7 DEF Exits, Repointing, Held
        <3>. QED
            BY <3>4, <3>6, <3>7
    <2>. QED
        BY <2>1, <2>2
<1>6. \A y \in Jobs : Live(y)' => y = j
    BY <1>2, <1>4, <1>5 DEF Live, Busy, Runner
<1>7. Order'
    BY <1>3, <1>4 DEF Order
<1>8. OneLive'
    BY <1>6 DEF OneLive
<1>9. ASSUME NEW t \in Jobs, t < j, state'[t] \in Pending PROVE after[t] = j
    <2>1. state[t] \in Pending /\ t # j
        BY <1>4, <1>9 DEF Pending
    <2>2. ~single[j]
        BY <1>3, <1>9, <2>1 DEF Pending
    <2>. QED
        BY <1>3, <1>9, <2>1, <2>2 DEF Waits, Runner
<1>10. Waits'
    <2>1. \A x \in Jobs : /\ state'[x] \in {"training", "list", "submit", "repoint"} => x = j
                          /\ Runner(x)' => x = j
        BY <1>6 DEF Live, Busy
    <2>. QED
        BY <1>2, <1>4, <1>9, <2>1 DEF Waits
<1>11. Exits'
    <2>1. \A x \in Jobs : state'[x] \notin {"submit", "repoint"}
        BY <1>4, <1>6 DEF Live, Busy
    <2>. QED
        BY <2>1 DEF Exits
<1>12. Submitted'
    <2>1. \A i \in Jobs : new[i] # 0 => new[i] \in Jobs
        BY DEF TypeOK
    <2>. QED
        BY <1>2, <1>3, <1>4, <2>1 DEF Submitted
<1>. QED
    BY <1>7, <1>8, <1>10, <1>11, <1>12

\* The user's new job has singleton and the highest id.
LEMMA SubmitKeeps == ASSUME QueueInv, Hurried = FALSE, Submit PROVE Shape'
<1>. USE DEF QueueInv, Shape
<1>1. PICK n \in Jobs : /\ n = Min(Free) /\ state[n] = "none"
                        /\ \A i \in Jobs : state[i] # "none" => i < n
                        /\ \A i \in Jobs : i < n => state[i] # "none"
    BY NextId DEF Submit
<1>2. /\ state' = [state EXCEPT ![n] = "pending"] /\ single' = [single EXCEPT ![n] = TRUE]
      /\ after' = after /\ tries' = tries
      /\ others' = others /\ todo' = todo /\ new' = new
    BY <1>1 DEF Submit, exit
<1>3. \A i \in Jobs : state[i] \notin {"submit", "repoint"}
    BY DEF Submit, Resubmitting
<1>4. /\ state'[n] = "pending" /\ single'[n]
      /\ \A i \in Jobs : i # n => state'[i] = state[i] /\ single'[i] = single[i]
    BY <1>1, <1>2 DEF TypeOK
<1>5. \A x \in Jobs : /\ Busy(x)' => Busy(x) /\ x # n
                      /\ Runner(x)' => Runner(x) /\ x # n
    BY <1>1, <1>4 DEF Busy, Runner
<1>6. Order'
    <2>1. \A i, j \in Jobs : i < j /\ state'[i] = "none" => i # n /\ ~(i < n) /\ state[i] = "none"
        BY <1>1, <1>4
    <2>2. \A i, j \in Jobs : i < j /\ state'[i] = "none" => j # n
        BY <2>1
    <2>. QED
        BY <1>4, <2>1, <2>2 DEF Order
<1>7. OneLive'
    BY <1>5 DEF OneLive, Live
<1>8. Waits'
    <2>1. SUFFICES ASSUME NEW x \in Jobs, NEW t \in Jobs, t < x, state'[t] \in Pending, Live(x)'
                   PROVE  Live(x) /\ state[x] = state'[x] /\ t # n /\ state[t] \in Pending
        BY <1>2, <1>3, <1>4, <1>5 DEF Waits, Live, Busy
    <2>2. Live(x) /\ x # n
        BY <1>5, <2>1 DEF Live
    <2>3. x < n
        BY <1>1, <2>2 DEF Live, Busy, Runner
    <2>4. t # n
        <3>1. x \in Nat /\ n \in Nat
            BY <1>1, ResubmitAssumption
        <3>. QED
            BY <2>1, <2>3, <3>1
    <2>. QED
        BY <1>4, <2>1, <2>2, <2>4
<1>9. Exits'
    BY <1>3, <1>4 DEF Exits
<1>10. Submitted'
    <2>1. \A j \in Jobs : new[j] # 0 => new[j] \in Jobs /\ new[j] # n
        BY <1>1 DEF TypeOK, Submitted
    <2>2. new[n] = 0
        BY <1>1 DEF Submitted
    <2>. QED
        BY <1>2, <1>4, <2>1, <2>2 DEF Submitted
<1>. QED
    BY <1>6, <1>7, <1>8, <1>9, <1>10

\* An exit that lists its queue finds every pending job of the name.
LEMMA ListKeeps == ASSUME QueueInv, NEW j \in Jobs, List(j) PROVE Shape'
<1>. USE DEF QueueInv, Shape
<1>1. PICK pd \in {{}, {i \in Jobs : state[i] \in Pending}} :
          others' = [others EXCEPT ![j] = pd] /\ todo' = [todo EXCEPT ![j] = pd]
    <2>1. PICK failed \in BOOLEAN :
            LET pd == IF failed THEN {} ELSE {i \in Jobs : state[i] \in Pending}
            IN  others' = [others EXCEPT ![j] = pd] /\ todo' = [todo EXCEPT ![j] = pd]
        BY DEF List
    <2>. QED
        BY <2>1
<1>2. /\ state[j] = "list" /\ tries[j] < MaxTries /\ state' = [state EXCEPT ![j] = "submit"]
      /\ single' = single /\ after' = after /\ tries' = tries /\ new' = new
    BY DEF List, deps
<1>3. /\ state'[j] = "submit" /\ others'[j] = pd /\ todo'[j] = pd
      /\ \A i \in Jobs : i # j => state'[i] = state[i] /\ others'[i] = others[i] /\ todo'[i] = todo[i]
    BY <1>1, <1>2 DEF TypeOK
<1>4. \A x \in Jobs : (Busy(x)' <=> Busy(x)) /\ (Runner(x)' <=> Runner(x))
    BY <1>2, <1>3 DEF Busy, Runner
<1>5. \A i \in Jobs : state'[i] \in Pending <=> state[i] \in Pending
    BY <1>2, <1>3 DEF Pending
<1>6. \A x \in Jobs : Live(x) => x = j
    BY <1>2 DEF OneLive, Live, Busy
<1>7. Order'
    BY <1>2, <1>3 DEF Order
<1>8. OneLive'
    BY <1>4 DEF OneLive, Live
<1>9. Waits'
    <2>1. \A x \in Jobs : (state'[x] \in {"training", "list", "submit", "repoint"} \/ Runner(x)') => x = j
        BY <1>4, <1>6 DEF Live, Busy
    <2>2. \A t \in Jobs : t < j /\ state'[t] \in Pending => after[t] = j
        BY <1>2, <1>5 DEF Waits
    <2>. QED
        BY <1>2, <1>3, <2>1, <2>2 DEF Waits
<1>10. Exits'
    <2>1. \A x \in Jobs : state'[x] \in {"submit", "repoint"} => x = j
        BY <1>4, <1>6 DEF Live, Busy
    <2>2. {i \in Jobs : state[i] \in Pending}' = {i \in Jobs : state[i] \in Pending}
        BY <1>5
    <2>3. Listed(j)'
        BY <1>2, <1>3, <2>2 DEF Listed
    <2>. QED
        BY <1>3, <2>1, <2>3 DEF Exits
<1>11. Submitted'
    <2>1. new[j] = 0
        BY <1>2 DEF Submitted
    <2>2. \A i \in Jobs : new[i] # 0 => new[i] \in Jobs /\ i # j
        BY <2>1 DEF TypeOK
    <2>3. \A i \in Jobs : state'[i] = "pending" => state[i] = "pending"
        BY <1>3
    <2>. QED
        BY <1>2, <1>3, <2>1, <2>2, <2>3 DEF Submitted
<1>. QED
    BY <1>7, <1>8, <1>9, <1>10, <1>11

\* The resubmission is the last in the queue; the list is what it has to overtake.
LEMMA SbatchKeeps == ASSUME QueueInv, NEW j \in Jobs, Sbatch(j) PROVE Shape'
<1>. USE DEF QueueInv, Shape
<1>1. PICK n \in Jobs : /\ n = Min(Free) /\ state[n] = "none"
                        /\ \A i \in Jobs : state[i] # "none" => i < n
                        /\ \A i \in Jobs : i < n => state[i] # "none"
    BY NextId DEF Sbatch
<1>2. /\ state[j] = "submit"
      /\ state' = [state EXCEPT ![n] = IF others[j] = {} THEN "pending" ELSE "held", ![j] = "repoint"]
      /\ single' = [single EXCEPT ![n] = others[j] = {}]
      /\ new' = [new EXCEPT ![j] = n]
      /\ after' = after /\ others' = others /\ todo' = todo
    BY <1>1 DEF Sbatch
<1>3. /\ n # j /\ state'[j] = "repoint" /\ new'[j] = n
      /\ state'[n] = IF others[j] = {} THEN "pending" ELSE "held"
      /\ single'[n] <=> others[j] = {}
      /\ \A i \in Jobs : i # n => single'[i] = single[i]
      /\ \A i \in Jobs : i # n /\ i # j => state'[i] = state[i]
      /\ \A i \in Jobs : i # j => new'[i] = new[i]
    BY <1>1, <1>2 DEF TypeOK
<1>4. \A x \in Jobs : /\ Busy(x)' => Busy(x) /\ x # n
                      /\ Runner(x)' => Runner(x) /\ x # n
    <2>1. state'[n] \in {"pending", "held"} /\ (state'[n] = "pending" => single'[n])
        BY <1>3
    <2>2. ~Busy(n)' /\ ~Runner(n)'
        BY <2>1 DEF Busy, Runner
    <2>3. \A x \in Jobs : Busy(x)' => x = j \/ (x # n /\ Busy(x))
        BY <1>3, <2>2 DEF Busy
    <2>4. \A x \in Jobs : Runner(x)' => x # n /\ Runner(x)
        BY <1>3, <2>2 DEF Runner
    <2>5. Busy(j) /\ j # n
        BY <1>2, <1>3 DEF Busy
    <2>. QED
        BY <2>3, <2>4, <2>5
<1>5. \A x \in Jobs : Live(x) => x = j
    BY <1>2 DEF OneLive, Live, Busy
<1>6. Listed(j)
    BY <1>2 DEF Exits
<1>7. \A i \in others[j] : i \in Jobs /\ state[i] \in Pending
    BY <1>6 DEF Listed
<1>8. Order'
    <2>1. \A x, y \in Jobs : x < y /\ state'[x] = "none" => x # n /\ x # j /\ ~(x < n) /\ state[x] = "none"
        BY <1>1, <1>3
    <2>2. \A x, y \in Jobs : x < y /\ state'[x] = "none" => y # n /\ y # j
        BY <1>2, <2>1 DEF Order
    <2>. QED
        BY <1>3, <2>1, <2>2 DEF Order
<1>9. OneLive'
    BY <1>4 DEF OneLive, Live
<1>10. Waits'
    <2>1. \A x \in Jobs : /\ state'[x] \in {"training", "list", "submit", "repoint"} => x = j
                          /\ ~Runner(x)'
        BY <1>2, <1>3, <1>4, <1>5 DEF Live, Busy, Runner
    <2>2. ASSUME NEW t \in Jobs, t < j, state'[t] \in Pending PROVE after[t] = j
        <3>1. t # j
            BY <1>3, <2>2 DEF Pending
        <3>2. t # n
            <4>1. j < n
                BY <1>1, <1>2
            <4>2. j \in Nat /\ n \in Nat
                BY <1>1, ResubmitAssumption
            <4>. QED
                BY <2>2, <4>1, <4>2
        <3>3. state[t] \in Pending
            BY <1>3, <2>2, <3>1, <3>2
        <3>. QED
            BY <1>2, <2>2, <3>3 DEF Waits
    <2>. QED
        BY <1>2, <1>3, <2>1, <2>2, ZenonT(60) DEF Waits
<1>11. Exits'
    <2>1. \A x \in Jobs : state'[x] \in {"submit", "repoint"} => x = j
        BY <1>4, <1>5 DEF Live, Busy
    <2>2. n \notin others[j]
        BY <1>1, <1>7 DEF Pending
    <2>3. ASSUME others[j] # {} PROVE Held(j)'
        <3>1. others[j] = {i \in Jobs : state[i] \in Pending} /\ todo[j] = others[j]
            BY <1>6, <2>3 DEF Listed
        <3>2. ASSUME NEW t \in Jobs, t # n, state'[t] \in Pending PROVE t \in others[j]
            BY <1>3, <3>1, <3>2 DEF Pending
        <3>. QED
            BY <1>2, <1>3, <2>3, <3>1, <3>2 DEF Held
    <2>4. Repointing(j)'
        BY <1>1, <1>2, <1>3, <1>6, <2>2, <2>3 DEF Repointing, Listed
    <2>. QED
        BY <1>3, <2>1, <2>4 DEF Exits
<1>12. Submitted'
    <2>1. \A i \in Jobs : new[i] # 0 => new[i] \in Jobs /\ new[i] # n
        BY <1>1 DEF TypeOK, Submitted
    <2>2. new[n] = 0 /\ new[j] = 0
        BY <1>1, <1>2 DEF Submitted
    <2>3. \A i \in Jobs : new'[i] # 0 => new'[i] \in Jobs /\ state'[new'[i]] # "none"
        <3>1. state'[n] # "none" /\ state'[j] # "none"
            BY <1>3
        <3>2. ASSUME NEW i \in Jobs, i # j, new[i] # 0 PROVE state'[new[i]] # "none"
            BY <1>3, <2>1, <3>1, <3>2 DEF Submitted
        <3>. QED
            BY <1>1, <1>3, <2>1, <3>1, <3>2
    <2>4. \A i, k \in Jobs : new'[i] = new'[k] /\ new'[i] # 0 => i = k
        BY <1>3, <2>1 DEF Submitted
    <2>5. ASSUME NEW i \in Jobs, others'[i] # {}, new'[i] # 0, state'[new'[i]] = "pending"
          PROVE  ~single'[new'[i]]
        <3>1. CASE i = j
            BY <1>2, <1>3, <2>5, <3>1
        <3>2. CASE i # j
            <4>1. new'[i] = new[i] /\ new[i] \in Jobs /\ new[i] # n
                BY <1>3, <2>1, <2>5, <3>2
            <4>2. state[new[i]] = "pending"
                BY <1>3, <2>5, <4>1
            <4>. QED
                BY <1>2, <1>3, <2>5, <4>1, <4>2 DEF Submitted
        <3>. QED
            BY <3>1, <3>2
    <2>6. \A i \in Jobs : state'[i] \in {"none", "pending", "held", "training", "list", "submit"} => new'[i] = 0
        BY <1>3, <2>2 DEF Submitted
    <2>. QED
        BY <2>3, <2>4, <2>5, <2>6 DEF Submitted
<1>. QED
    BY <1>8, <1>9, <1>10, <1>11, <1>12

LEMMA RepointKeeps ==
    ASSUME QueueInv, NEW j \in Jobs, NEW t \in Jobs, Repoint(j, t) PROVE Shape'
<1>. USE DEF QueueInv, Shape
<1>1. /\ state[j] = "repoint" /\ t \in todo[j] /\ state[t] \in Pending
      /\ after' = [after EXCEPT ![t] = new[j]] /\ single' = [single EXCEPT ![t] = TRUE]
      /\ todo' = [todo EXCEPT ![j] = @ \ {t}]
      /\ state' = state /\ tries' = tries /\ others' = others /\ new' = new
    BY DEF Repoint
<1>2. /\ after'[t] = new[j] /\ single'[t] /\ todo'[j] = todo[j] \ {t}
      /\ \A i \in Jobs : i # t => after'[i] = after[i] /\ single'[i] = single[i]
      /\ \A i \in Jobs : i # j => todo'[i] = todo[i]
    BY <1>1 DEF TypeOK
<1>3. Repointing(j) /\ t \in others[j] /\ others[j] # {} /\ Held(j) /\ t # new[j]
    BY <1>1 DEF Exits, Repointing
<1>4. \A x \in Jobs : Live(x) => x = j
    BY <1>1 DEF OneLive, Live, Busy
<1>5. \A x \in Jobs : (Busy(x)' <=> Busy(x)) /\ (Runner(x)' => Runner(x))
    BY <1>1, <1>2 DEF Busy, Runner
<1>6. Order'
    BY <1>1 DEF Order
<1>7. OneLive'
    BY <1>5 DEF OneLive, Live
<1>8. Waits'
    <2>1. \A x \in Jobs : /\ state[x] \notin {"training", "list", "submit"}
                          /\ ~Runner(x)'
                          /\ state[x] = "repoint" => x = j
        BY <1>1, <1>4, <1>5 DEF Live, Busy, Runner
    <2>2. ASSUME NEW i \in Jobs, i < j, state[i] \in Pending
          PROVE  after'[i] = j \/ (i \in others[j] \ todo'[j] /\ after'[i] = new[j])
        <3>1. CASE i = t
            BY <1>2, <1>3, <3>1
        <3>2. CASE i # t
            BY <1>1, <1>2, <2>2, <3>2 DEF Waits
        <3>. QED
            BY <3>1, <3>2
    <2>. QED
        BY <1>1, <2>1, <2>2 DEF Waits
<1>9. Exits'
    <2>1. \A x \in Jobs : state[x] \in {"submit", "repoint"} => x = j
        BY <1>4 DEF Live, Busy
    <2>2. Held(j)'
        <3>1. \A i \in others[j] \ todo'[j] : after'[i] = new[j]
            BY <1>2, <1>3 DEF Held, TypeOK
        <3>2. ~single'[new[j]] /\ state[new[j]] = "held"
            BY <1>2, <1>3 DEF Held, Repointing
        <3>. QED
            BY <1>1, <1>3, <3>1, <3>2 DEF Held
    <2>3. Repointing(j)'
        BY <1>1, <1>2, <1>3, <2>2 DEF Repointing
    <2>. QED
        BY <1>1, <2>1, <2>3 DEF Exits
<1>10. Submitted'
    <2>1. ASSUME NEW i \in Jobs, others[i] # {}, new[i] # 0, state[new[i]] = "pending"
          PROVE  ~single'[new[i]]
        <3>1. ~single[new[i]] /\ new[i] \in Jobs
            BY <2>1 DEF Submitted, TypeOK
        <3>2. new[i] # t
            <4>1. Runner(new[i])
                BY <2>1, <3>1 DEF Runner
            <4>2. new[i] = j
                BY <1>4, <3>1, <4>1 DEF Live
            <4>. QED
                BY <1>1, <2>1, <4>2
        <3>. QED
            BY <1>2, <3>1, <3>2
    <2>. QED
        BY <1>1, <2>1 DEF Submitted
<1>. QED
    BY <1>6, <1>7, <1>8, <1>9, <1>10

\* At the release every listed job waits for the resubmission.
LEMMA ReleaseKeeps == ASSUME QueueInv, NEW j \in Jobs, Release(j) PROVE Shape'
<1>. USE DEF QueueInv, Shape
<1>1. /\ state[j] = "repoint" /\ todo[j] = {}
      /\ state' = [state EXCEPT ![j] = "quit", ![new[j]] = IF @ = "held" THEN "pending" ELSE @]
      /\ single' = single /\ after' = after /\ tries' = tries
      /\ others' = others /\ todo' = todo /\ new' = new
    BY DEF Release, deps, exit
<1>2. Repointing(j)
    BY <1>1 DEF Exits
<1>3. PICK n \in Jobs : n = new[j]
    BY <1>2 DEF Repointing
<1>4. /\ n # j /\ state[n] \in Pending /\ state'[j] = "quit" /\ state'[n] = "pending"
      /\ \A i \in Jobs : i # n /\ i # j => state'[i] = state[i]
    BY <1>1, <1>2, <1>3 DEF Repointing, Held, TypeOK, Pending
<1>5. \A x \in Jobs : Live(x) => x = j
    BY <1>1 DEF OneLive, Live, Busy
<1>6. \A x \in Jobs : Live(x)' => x = n
    BY <1>1, <1>4, <1>5 DEF Live, Busy, Runner
<1>7. ~Busy(n)'
    BY <1>4 DEF Busy
<1>8. Order'
    BY <1>1, <1>4 DEF Order, Pending
<1>9. OneLive'
    BY <1>6 DEF OneLive
<1>10. Waits'
    <2>1. \A x \in Jobs : state'[x] \notin {"training", "list", "submit", "repoint"}
        BY <1>6, <1>7 DEF Live, Busy
    <2>2. ASSUME NEW t \in Jobs, t < n, state'[t] \in Pending, Runner(n)' PROVE after[t] = n
        <3>1. others[j] # {}
            BY <1>1, <1>2, <1>3, <2>2 DEF Repointing, Runner
        <3>2. t # n
            <4>1. n \in Nat
                BY ResubmitAssumption
            <4>. QED
                BY <2>2, <4>1
        <3>3. state[t] \in Pending
            BY <1>4, <2>2, <3>2 DEF Pending
        <3>. QED
            BY <1>1, <1>2, <1>3, <3>1, <3>2, <3>3 DEF Repointing, Held
    <2>. QED
        BY <1>1, <1>6, <2>1, <2>2 DEF Waits, Live
<1>11. Exits'
    <2>1. \A x \in Jobs : state'[x] \notin {"submit", "repoint"}
        BY <1>6, <1>7 DEF Live, Busy
    <2>. QED
        BY <2>1 DEF Exits
<1>12. Submitted'
    <2>1. \A i \in Jobs : new[i] # 0 => new[i] \in Jobs
        BY DEF TypeOK
    <2>2. ASSUME NEW i \in Jobs, others[i] # {}, new[i] # 0, state'[new[i]] = "pending"
          PROVE  ~single[new[i]]
        <3>1. CASE new[i] = n
            <4>1. i = j
                BY <1>3, <2>2, <3>1 DEF Submitted
            <4>. QED
                BY <1>2, <2>2, <4>1 DEF Repointing, Held
        <3>2. CASE new[i] # n
            BY <1>4, <2>1, <2>2, <3>2 DEF Submitted
        <3>. QED
            BY <3>1, <3>2
    <2>3. new[n] = 0
        BY <1>4 DEF Submitted, Pending
    <2>4. \A i \in Jobs : state'[i] \in {"none", "pending", "held", "training", "list", "submit"} => new[i] = 0
        BY <1>4, <2>3 DEF Submitted
    <2>5. \A i \in Jobs : new[i] # 0 => state'[new[i]] # "none"
        BY <1>4, <2>1 DEF Submitted
    <2>. QED
        BY <1>1, <2>2, <2>4, <2>5 DEF Submitted
<1>. QED
    BY <1>8, <1>9, <1>10, <1>11, <1>12

\* Every step keeps the shape of the queue.
LEMMA ShapeKeeps == Hurried = FALSE /\ QueueInv /\ [Next]_vars => Shape'
<1>. SUFFICES ASSUME Hurried = FALSE, QueueInv, [Next]_vars PROVE Shape'
    OBVIOUS
<1>. USE DEF bounds
<1>1. CASE Submit
    BY <1>1, SubmitKeeps
<1>2. ASSUME NEW j \in Jobs, Cancel(j) PROVE Shape'
    <2>1. \A i \in Jobs : state[i] \notin {"submit", "repoint"}
        BY <1>2 DEF Cancel, Resubmitting
    <2>2. /\ state[j] \in Pending /\ state' = [state EXCEPT ![j] = "ended"]
          /\ UNCHANGED <<deps, tries, exit>>
        BY <1>2 DEF Cancel
    <2>3. \A i \in Jobs : \/ state'[i] = state[i]
                          \/ state[i] # "none" /\ state'[i] \in {"ended", "quit"}
        BY <2>2 DEF QueueInv, TypeOK, Pending
    <2>4. \A i \in Jobs : state'[i] \notin {"submit", "repoint"}
        BY <2>1, <2>3
    <2>. QED
        BY <2>2, <2>3, <2>4, LeavingKeeps
\* A job that is not pending ends or quits.
<1>3. ASSUME NEW j \in Jobs, NEW s \in {"ended", "quit"}, state[j] \notin Pending \cup {"none"},
             state' = [state EXCEPT ![j] = s], UNCHANGED <<deps, tries, exit>>
      PROVE  Shape'
    <2>1. \A i \in Jobs : \/ state'[i] = state[i]
                          \/ state[i] # "none" /\ state'[i] \in {"ended", "quit"}
        BY <1>3 DEF QueueInv, TypeOK
    <2>2. \A i \in Jobs : state[i] \in Pending => state'[i] = state[i]
        BY <1>3 DEF QueueInv, TypeOK
    <2>. QED
        BY <1>3, <2>1, <2>2, LeavingKeeps
<1>4. ASSUME NEW j \in Jobs, End(j) \/ Die(j) \/ UsedUp(j) \/ SbatchFails(j) \/ ReleaseFails(j)
      PROVE  Shape'
    <2>1. /\ state[j] \notin Pending \cup {"none"} /\ UNCHANGED <<deps, tries, exit>>
          /\ \/ state' = [state EXCEPT ![j] = "ended"]
             \/ state' = [state EXCEPT ![j] = "quit"]
        BY <1>4 DEF End, Die, UsedUp, SbatchFails, ReleaseFails, Pending, Exiting
    <2>. QED
        BY <1>3, <2>1
<1>5. ASSUME NEW j \in Jobs, Start(j) PROVE Shape'
    BY <1>5, StartKeeps
<1>6. ASSUME NEW j \in Jobs, List(j) PROVE Shape'
    BY <1>6, ListKeeps
<1>7. ASSUME NEW j \in Jobs, Sbatch(j) PROVE Shape'
    BY <1>7, SbatchKeeps
<1>8. ASSUME NEW j \in Jobs, NEW t \in Jobs, Repoint(j, t) PROVE Shape'
    BY <1>8, RepointKeeps
<1>9. ASSUME NEW j \in Jobs, NEW t \in Jobs, RepointFails(j, t) PROVE Shape'
    <2>1. PICK scancel \in 0 .. 1 :
              state' = [state EXCEPT ![j] = "quit",
                                     ![new[j]] = IF scancel = 1 THEN @ ELSE "ended"]
        BY <1>9 DEF RepointFails
    <2>2. /\ state[j] = "repoint" /\ t \in todo[j] /\ UNCHANGED <<deps, tries, exit>>
        BY <1>9 DEF RepointFails
    <2>3. Repointing(j) /\ Held(j)
        BY <2>2 DEF QueueInv, Shape, Exits, Repointing
    <2>4. \A i \in Jobs : \/ state'[i] = state[i]
                          \/ state[i] # "none" /\ state'[i] \in {"ended", "quit"}
        BY <2>1, <2>2, <2>3 DEF QueueInv, TypeOK, Repointing, Held
    <2>5. \A i \in Jobs : state'[i] \notin {"submit", "repoint"}
        <3>1. \A i \in Jobs : state[i] \in {"submit", "repoint"} => i = j
            BY <2>2 DEF QueueInv, Shape, OneLive, Live, Busy
        <3>2. state'[j] = "quit"
            BY <2>1, <2>3 DEF QueueInv, TypeOK, Repointing
        <3>. QED
            BY <2>4, <3>1, <3>2
    <2>. QED
        BY <2>2, <2>4, <2>5, LeavingKeeps
<1>10. ASSUME NEW j \in Jobs, Release(j) PROVE Shape'
    BY <1>10, ReleaseKeeps
<1>11. CASE UNCHANGED vars
    <2>1. state' = state /\ UNCHANGED <<deps, tries, exit>>
        BY <1>11 DEF vars
    <2>. QED
        BY <2>1, LeavingKeeps
<1>. QED
    BY <1>1, <1>2, <1>4, <1>5, <1>6, <1>7, <1>8, <1>9, <1>10, <1>11 DEF Next, JobStep, Script

\* At the start the queue is empty.
LEMMA QueueInit == Init => QueueInv
<1>. SUFFICES ASSUME Init PROVE QueueInv
    OBVIOUS
<1>1. Counts
    BY ResubmitAssumption DEF Init, Counts
<1>2. Queue
    BY DEF Init, Queue, States
<1>3. \A j \in Jobs : state[j] = "none" /\ others[j] = {} /\ new[j] = 0
    BY DEF Init
<1>4. Shape
    BY <1>3 DEF Shape, Order, OneLive, Live, Busy, Runner, Waits, Pending, Exits, Submitted
<1>. QED
    BY <1>1, <1>2, <1>4, TypeParts DEF QueueInv

\* The queue's invariant is inductive.
LEMMA QueueStep == Hurried = FALSE /\ QueueInv /\ [Next]_vars => QueueInv'
<1>1. Queue' /\ Counts' => TypeOK'
    BY DEF TypeOK, Queue, Counts, States
<1>. QED
    BY <1>1, QueueKeeps, CountsKeep, ShapeKeeps DEF QueueInv

\* The bad-node exits, failing commands, kills and cancellations of any number of jobs never let
\* two jobs of the name train at the same time.
THEOREM OneJobWrites == Hurried = FALSE => (Spec => []OneWriter)
<1>. SUFFICES ASSUME Hurried = FALSE PROVE Spec => []OneWriter
    OBVIOUS
<1>1. QueueInv => OneWriter
    <2>. SUFFICES ASSUME QueueInv PROVE OneWriter
        OBVIOUS
    <2>. DEFINE T == {j \in Jobs : state[j] = "training"}
    <2>1. \A x, y \in T : x = y
        BY DEF QueueInv, Shape, OneLive, Live, Busy
    <2>2. CASE T = {}
        <3>1. Cardinality(T) = 0
            BY <2>2, FS_EmptySet
        <3>. QED
            BY <3>1 DEF OneWriter
    <2>3. CASE T # {}
        <3>1. PICK x \in T : TRUE
            BY <2>3
        <3>2. T = {x}
            BY <2>1, <3>1
        <3>3. Cardinality(T) = 1
            BY <3>2, FS_Singleton
        <3>. QED
            BY <3>3 DEF OneWriter
    <2>. QED
        BY <2>2, <2>3
<1>2. QueueInv /\ [Next]_vars => QueueInv'
    BY QueueStep
<1>. QED
    BY <1>1, <1>2, QueueInit, PTL DEF Spec

\* The queue keeps its order: no twin that a bad-node exit found pending trains while the released
\* resubmission waits for its start.
THEOREM TwinsNeverOvertake == Hurried = FALSE => (Spec => []NotOvertaken)
<1>. SUFFICES ASSUME Hurried = FALSE PROVE Spec => []NotOvertaken
    OBVIOUS
<1>1. QueueInv => NotOvertaken
    <2>. SUFFICES ASSUME QueueInv, NEW j \in Jobs, NEW t \in others[j],
                         state[t] = "training", new[j] # 0, state[new[j]] = "pending"
                  PROVE  FALSE
        BY DEF NotOvertaken, QueueInv
    <2>1. t \in Jobs /\ new[j] \in Jobs
        BY DEF QueueInv, TypeOK
    <2>2. Live(new[j])
        BY DEF QueueInv, Shape, Submitted, Live, Runner
    <2>3. Live(t)
        BY DEF Live, Busy
    <2>4. t = new[j]
        BY <2>1, <2>2, <2>3 DEF QueueInv, Shape, OneLive
    <2>. QED
        BY <2>4
<1>2. QueueInv /\ [Next]_vars => QueueInv'
    BY QueueStep
<1>. QED
    BY <1>1, <1>2, QueueInit, PTL DEF Spec
===============================================================================
