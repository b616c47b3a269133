--------------------------- MODULE RolloutProofs ---------------------------
(***************************************************************************)
(* Theorems about the rollouts.  StatsChannel: for any number of engines,  *)
(* ranks, rollouts, training steps and restarts; the invariant follows     *)
(* every CUTS rollout from the step that issues it to its one line in the  *)
(* stats directory.  AgentLoop: for every group size, every set of prompts *)
(* and any number of refused puts.  CutsBatch: for any number of rows,     *)
(* requests, stays and tokens, and every order of an engine's events.      *)
(***************************************************************************)
EXTENDS AgentLoop, StatsChannel, CutsBatch, FiniteSetTheorems, SequenceTheorems, WellFoundedInduction, TLAPS

Held(e) == running[e] \cup ended[e]
IsRollout(x) == x = Rollout(x.step, x.life, x.id) /\ x.id \in Ids

Shape ==
    /\ life \in Nat /\ first \in Nat /\ step \in Nat /\ checkpoint \in Nat
    /\ 1 <= first /\ first <= step /\ step <= LastStep
    /\ DOMAIN running = Engines /\ DOMAIN ended = Engines
    /\ stage \in {"generate", "update", "validate", "metrics", "done"}

\* A line stands in the file of its rollout's step, written by an engine of its life; the
\* stale files are those of earlier lives.
Filed ==
    /\ \A l \in lines :
          /\ IsRollout(l.rollout) /\ l.rollout.life \in Nat /\ l.rollout.step \in Nat
          /\ l.file.step = l.rollout.step
          /\ l.file.writer[1] = l.rollout.life
          /\ l.rollout.life <= life
          /\ l.rollout.life = life => first <= l.rollout.step /\ l.rollout.step <= step
          /\ l.file \in stale <=> l.rollout.life < life
    /\ \A f \in stale : f.writer[1] \in Nat /\ f.writer[1] < life

\* An engine holds rollouts of this step, and until its next forward pass those of the
\* step before.
InEngines ==
    \A e \in Engines :
        /\ running[e] # {} => stage = "generate"
        /\ \A x \in running[e] : x \in Issued(step, life)
        /\ \A x \in ended[e] :
              \/ x \in Issued(step, life)
              \/ /\ x \in Issued(step - 1, life) /\ first < step
                 /\ stage = "generate" /\ e \notin served
        /\ stage = "validate" /\ e \in served => ended[e] = {}
        /\ stage \in {"metrics", "done"} /\ step = LastStep => ended[e] = {}

\* A rollout is in one place at a time ...
Once ==
    /\ \A e, f \in Engines : \A x \in Held(e) : x \in Held(f) => e = f
    /\ \A e \in Engines : running[e] \cap ended[e] = {}
    /\ \A e \in Engines : \A x \in Held(e) : \A l \in lines : l.rollout # x
    /\ \A k, l \in lines : k.rollout = l.rollout => k = l

\* ... and in some place from the moment it is issued.
Somewhere(x) == (\E e \in Engines : x \in Held(e)) \/ (\E l \in lines : l.rollout = x)
Covered == \A s \in first .. step : \A x \in Issued(s, life) : Somewhere(x)

ChannelInv == Shape /\ Filed /\ InEngines /\ Once /\ Covered

-----------------------------------------------------------------------------
LEMMA IssuedIs ==
    ASSUME NEW s, NEW l, NEW x
    PROVE  x \in Issued(s, l) <=> IsRollout(x) /\ x.step = s /\ x.life = l
BY DEF Issued, IsRollout, Rollout

\* What a Spread gives the engines: the rollouts of one step, each to one engine.
LEMMA SpreadIs ==
    ASSUME NEW s, NEW l, NEW r \in Spread(s, l)
    PROVE  /\ DOMAIN r = Engines
           /\ \A e \in Engines : r[e] \subseteq Issued(s, l)
           /\ \A e, f \in Engines : \A x \in r[e] : x \in r[f] => e = f
           /\ \A x \in Issued(s, l) : \E e \in Engines : x \in r[e]
<1>1. PICK route \in [Ids -> Engines] :
          r = [e \in Engines |-> {x \in Issued(s, l) : route[x.id] = e}]
    BY DEF Spread
<1>2. \A x \in Issued(s, l) : x.id \in Ids
    BY IssuedIs DEF IsRollout
<1>. QED
    BY <1>1, <1>2

LEMMA ChannelInit == Init => ChannelInv
<1> SUFFICES ASSUME Init PROVE ChannelInv
    OBVIOUS
<1>1. /\ DOMAIN running = Engines
      /\ \A e \in Engines : running[e] \subseteq Issued(1, 1)
      /\ \A e, f \in Engines : \A x \in running[e] : x \in running[f] => e = f
      /\ \A x \in Issued(1, 1) : \E e \in Engines : x \in running[e]
    BY SpreadIs DEF Init
<1>2. \A e \in Engines : Held(e) = running[e] /\ ended[e] = {}
    BY DEF Init, Held
<1>3. Shape
    BY <1>1, StepsAssumption DEF Init, Shape
<1>4. Filed
    BY DEF Init, Filed
<1>5. InEngines
    BY <1>1, <1>2 DEF Init, InEngines
<1>6. Once
    BY <1>1, <1>2 DEF Init, Once
<1>7. Covered
    BY <1>1, <1>2 DEF Init, Covered, Somewhere
<1>. QED
    BY <1>3, <1>4, <1>5, <1>6, <1>7 DEF ChannelInv

-----------------------------------------------------------------------------
LEMMA ForwardKeeps ==
    ASSUME NEW e \in Engines, ChannelInv, ForwardPass(e)
    PROVE  ChannelInv'
<1>. DEFINE Flushed == {[file |-> FileName(x.step, WriterId(e, r)), rollout |-> x] :
                            x \in ended[e], r \in {q \in Ranks : OwnsWriter(q)}}
<1>. Shape /\ Filed /\ InEngines /\ Once /\ Covered
    BY DEF ChannelInv
<1>0. /\ UNCHANGED <<life, first, step, stage, stale, checkpoint>>
      /\ served' = served \cup {e} /\ lines' = lines \cup Flushed
      /\ stage \in {"generate", "validate"}
    BY DEF ForwardPass
<1>1. PICK over \in SUBSET running[e] :
          /\ running' = [running EXCEPT ![e] = @ \ over]
          /\ ended' = [ended EXCEPT ![e] = over]
    BY DEF ForwardPass
<1>2. /\ DOMAIN running' = Engines /\ DOMAIN ended' = Engines
      /\ running'[e] = running[e] \ over /\ ended'[e] = over
      /\ \A f \in Engines : f # e => running'[f] = running[f] /\ ended'[f] = ended[f]
    BY <1>1 DEF Shape
<1>3. /\ Held(e)' = running[e]
      /\ \A f \in Engines : f # e => Held(f)' = Held(f)
    BY <1>1, <1>2 DEF Held
<1>4. \A x \in ended[e] : /\ IsRollout(x) /\ x.life = life /\ x.step \in Nat
                          /\ first <= x.step /\ x.step <= step
    BY IssuedIs DEF InEngines, Shape
<1>5. \A l \in Flushed : /\ l.rollout \in ended[e] /\ l.file.step = l.rollout.step
                         /\ l.file.writer[1] = life
    BY DEF FileName, WriterId
<1>6. \A k, l \in Flushed : k.rollout = l.rollout => k = l
    BY DEF FileName, WriterId, OwnsWriter
<1>7. \A x \in ended[e] : \E l \in Flushed : l.rollout = x
    <2>1. 0 \in {q \in Ranks : OwnsWriter(q)}
        BY RanksAssumption DEF OwnsWriter
    <2>2. ASSUME NEW x \in ended[e] PROVE \E l \in Flushed : l.rollout = x
        <3>. DEFINE line == [file |-> FileName(x.step, WriterId(e, 0)), rollout |-> x]
        <3>1. line \in Flushed
            BY <2>1
        <3>2. line.rollout = x
            OBVIOUS
        <3>. HIDE DEF line, Flushed
        <3>. QED
            BY <3>1, <3>2
    <2>. QED
        BY <2>2
<1>8. Shape'
    BY <1>0, <1>2 DEF Shape
<1>9. Filed'
    <2>1. ASSUME NEW l \in Flushed
          PROVE  /\ IsRollout(l.rollout) /\ l.rollout.life \in Nat /\ l.rollout.step \in Nat
                 /\ l.file.step = l.rollout.step /\ l.file.writer[1] = l.rollout.life
                 /\ l.rollout.life = life /\ first <= l.rollout.step /\ l.rollout.step <= step
                 /\ l.file \notin stale
        BY <1>4, <1>5, <2>1 DEF Filed, Shape
    <2>. QED
        BY <1>0, <2>1 DEF Filed, Shape, IsRollout
<1>10. InEngines'
    <2>1. /\ \A x \in running[e] : x \in Issued(step, life) /\ stage = "generate"
          /\ Issued(step, life)' = Issued(step, life)
          /\ Issued(step - 1, life)' = Issued(step - 1, life)
        BY <1>0 DEF InEngines, Issued, Rollout
    <2>2. ASSUME NEW f \in Engines, f # e
          PROVE  /\ running'[f] # {} => stage' = "generate"
                 /\ \A x \in running'[f] : x \in Issued(step, life)'
                 /\ \A x \in ended'[f] :
                       \/ x \in Issued(step, life)'
                       \/ /\ x \in Issued(step - 1, life)' /\ first' < step'
                          /\ stage' = "generate" /\ f \notin served'
                 /\ stage' = "validate" /\ f \in served' => ended'[f] = {}
                 /\ stage' \in {"metrics", "done"} /\ step' = LastStep => ended'[f] = {}
        BY <1>0, <1>2, <2>1, <2>2 DEF InEngines
    <2>3. /\ running'[e] # {} => stage' = "generate"
          /\ \A x \in running'[e] \cup ended'[e] : x \in Issued(step, life)'
          /\ stage' = "validate" => ended'[e] = {}
          /\ stage' \notin {"metrics", "done"}
        BY <1>0, <1>1, <1>2, <2>1 DEF InEngines
    <2>. QED
        BY <2>2, <2>3 DEF InEngines
<1>11. Once'
    <2>1. \A x \in Held(e)' : x \in Held(e) /\ x \notin ended[e]
        BY <1>3 DEF Held, Once
    <2>2. \A f \in Engines : Held(f)' \subseteq Held(f)
        BY <1>3, <2>1
    <2>3. \A f \in Engines : \A x \in Held(f)' : x \notin ended[e]
        BY <1>3, <2>1, <2>2 DEF Held, Once
    <2>4. \A f \in Engines : running'[f] \cap ended'[f] = {}
        BY <1>1, <1>2 DEF Once
    <2>5. \A l \in Flushed : \A k \in lines : k.rollout # l.rollout
        BY <1>5 DEF Once, Held
    <2>6. \A k, l \in lines' : k.rollout = l.rollout => k = l
        BY <1>0, <1>6, <2>5 DEF Once
    <2>7. \A f \in Engines : \A x \in Held(f)' : \A l \in lines' : l.rollout # x
        BY <1>0, <1>5, <2>2, <2>3 DEF Once
    <2>8. \A f, g \in Engines : \A x \in Held(f)' : x \in Held(g)' => f = g
        BY <2>2 DEF Once
    <2>. QED
        BY <2>4, <2>6, <2>7, <2>8 DEF Once
<1>12. Covered'
    <2>1. ASSUME NEW x, Somewhere(x) PROVE Somewhere(x)'
        <3>1. CASE \E l \in lines : l.rollout = x
            BY <1>0, <3>1 DEF Somewhere
        <3>2. CASE \E f \in Engines : f # e /\ x \in Held(f)
            BY <1>3, <3>2 DEF Somewhere
        <3>3. CASE x \in running[e]
            BY <1>3, <3>3 DEF Somewhere
        <3>4. CASE x \in ended[e]
            BY <1>0, <1>7, <3>4 DEF Somewhere
        <3>. QED
            BY <2>1, <3>1, <3>2, <3>3, <3>4 DEF Somewhere, Held
    <2>. QED
        BY <1>0, <2>1 DEF Covered, Issued, Rollout
<1>. QED
    BY <1>8, <1>9, <1>10, <1>11, <1>12 DEF ChannelInv

\* The steps of the trainer that move no rollout.
LEMMA StageKeeps ==
    ASSUME ChannelInv, GenerationEnds \/ Update \/ ValidationEnds
    PROVE  ChannelInv'
<1>. Shape /\ Filed /\ InEngines /\ Once /\ Covered
    BY DEF ChannelInv
<1>1. /\ UNCHANGED <<life, first, step, running, ended, lines, stale>>
      /\ checkpoint' \in {checkpoint, step}
    BY DEF GenerationEnds, Update, ValidationEnds, engineVars
<1>2. /\ Issued(step, life)' = Issued(step, life)
      /\ Issued(step - 1, life)' = Issued(step - 1, life)
    BY <1>1 DEF Issued, Rollout
<1>3. Shape'
    BY <1>1 DEF Shape, GenerationEnds, Update, ValidationEnds
<1>4. Filed'
    BY <1>1 DEF Filed, IsRollout
<1>5. InEngines'
    <2>1. CASE GenerationEnds
        BY <1>1, <1>2, <2>1 DEF InEngines, GenerationEnds, engineVars
    <2>2. CASE Update
        BY <1>1, <1>2, <2>2 DEF InEngines, Update, Shape
    <2>3. CASE ValidationEnds
        BY <1>1, <1>2, <2>3 DEF InEngines, ValidationEnds, engineVars
    <2>. QED
        BY <2>1, <2>2, <2>3
<1>6. Once'
    BY <1>1 DEF Once, Held
<1>7. Covered'
    BY <1>1 DEF Covered, Somewhere, Held, Issued, Rollout
<1>. QED
    BY <1>3, <1>4, <1>5, <1>6, <1>7 DEF ChannelInv

LEMMA MetricsKeep ==
    ASSUME ChannelInv, ComputeMetrics
    PROVE  ChannelInv'
<1>. Shape /\ Filed /\ InEngines /\ Once /\ Covered
    BY DEF ChannelInv
<1>0. /\ UNCHANGED <<life, first, ended, lines, stale, checkpoint>>
      /\ stage = "metrics" /\ served' = {}
      /\ \A e \in Engines : running[e] = {}
    BY DEF ComputeMetrics, InEngines
<1>1. CASE step < LastStep
    <2>1. /\ step' = step + 1 /\ stage' = "generate"
          /\ running' \in Spread(step + 1, life)
        BY <1>1 DEF ComputeMetrics
    <2>2. /\ DOMAIN running' = Engines
          /\ \A e \in Engines : running'[e] \subseteq Issued(step + 1, life)
          /\ \A e, f \in Engines : \A x \in running'[e] : x \in running'[f] => e = f
          /\ \A x \in Issued(step + 1, life) : \E e \in Engines : x \in running'[e]
        BY <2>1, SpreadIs
    <2>3. /\ Issued(step, life)' = Issued(step + 1, life)
          /\ (step - 1)' = step /\ Issued(step - 1, life)' = Issued(step, life)
        BY <1>0, <2>1 DEF Issued, Rollout, Shape
    <2>4. \A e \in Engines : /\ ended[e] \subseteq Issued(step, life)
                             /\ Held(e)' = running'[e] \cup Held(e) /\ Held(e) = ended[e]
        BY <1>0 DEF InEngines, Held
    <2>5. \A x \in Issued(step + 1, life) :
              /\ \A e \in Engines : x \notin Held(e)
              /\ \A l \in lines : l.rollout # x
        BY <2>4, IssuedIs DEF Filed, Shape
    <2>6. Shape'
        BY <1>0, <1>1, <2>1, <2>2, StepsAssumption DEF Shape
    <2>7. Filed'
        BY <1>0, <2>1 DEF Filed, Shape, IsRollout
    <2>8. InEngines'
        BY <1>0, <2>1, <2>2, <2>3, <2>4 DEF InEngines, Shape
    <2>9. Once'
        <3>1. \A e \in Engines : running'[e] \cap ended'[e] = {}
            BY <1>0, <2>2, <2>4, <2>5
        <3>2. \A e, f \in Engines : \A x \in Held(e)' : x \in Held(f)' => e = f
            BY <2>2, <2>4, <2>5 DEF Once
        <3>3. \A e \in Engines : \A x \in Held(e)' : \A l \in lines' : l.rollout # x
            BY <1>0, <2>2, <2>4, <2>5 DEF Once
        <3>. QED
            BY <1>0, <3>1, <3>2, <3>3 DEF Once
    <2>10. Covered'
        <3>1. ASSUME NEW s \in first .. step + 1, NEW x \in Issued(s, life)
              PROVE  Somewhere(x)'
            <4>1. CASE s = step + 1
                BY <2>2, <2>4, <4>1 DEF Somewhere
            <4>2. CASE s # step + 1
                <5>1. s \in first .. step
                    BY <4>2 DEF Shape
                <5>. QED
                    BY <1>0, <2>4, <3>1, <5>1 DEF Covered, Somewhere
            <4>. QED
                BY <4>1, <4>2
        <3>. QED
            BY <1>0, <2>1, <3>1 DEF Covered, Issued, Rollout
    <2>. QED
        BY <2>6, <2>7, <2>8, <2>9, <2>10 DEF ChannelInv
<1>2. CASE ~(step < LastStep)
    <2>1. /\ stage' = "done" /\ UNCHANGED <<step, running>> /\ step = LastStep
        BY <1>2, StepsAssumption DEF ComputeMetrics, Shape
    <2>2. /\ Issued(step, life)' = Issued(step, life)
          /\ Issued(step - 1, life)' = Issued(step - 1, life)
        BY <1>0, <2>1 DEF Issued, Rollout
    <2>3. Shape' /\ Filed'
        BY <1>0, <2>1 DEF Shape, Filed, IsRollout
    <2>4. InEngines'
        BY <1>0, <2>1, <2>2 DEF InEngines
    <2>5. Once' /\ Covered'
        BY <1>0, <2>1 DEF Once, Covered, Somewhere, Held, Issued, Rollout
    <2>. QED
        BY <2>3, <2>4, <2>5 DEF ChannelInv
<1>. QED
    BY <1>1, <1>2

LEMMA RestartKeeps ==
    ASSUME ChannelInv, Restart
    PROVE  ChannelInv'
<1>. Shape /\ Filed /\ InEngines /\ Once /\ Covered
    BY DEF ChannelInv
<1>1. /\ life' = life + 1 /\ first' = checkpoint + 1 /\ step' = checkpoint + 1
      /\ stage' = "generate" /\ served' = {} /\ ended' = [e \in Engines |-> {}]
      /\ running' \in Spread(checkpoint + 1, life + 1)
      /\ stale' = {l.file : l \in lines} /\ checkpoint < LastStep
      /\ UNCHANGED <<lines, checkpoint>>
    BY DEF Restart, Snapshot
<1>2. /\ DOMAIN running' = Engines
      /\ \A e \in Engines : running'[e] \subseteq Issued(checkpoint + 1, life + 1)
      /\ \A e, f \in Engines : \A x \in running'[e] : x \in running'[f] => e = f
      /\ \A x \in Issued(checkpoint + 1, life + 1) : \E e \in Engines : x \in running'[e]
    BY <1>1, SpreadIs
<1>3. \A e \in Engines : Held(e)' = running'[e] /\ ended'[e] = {}
    BY <1>1 DEF Held
<1>4. /\ Issued(step, life)' = Issued(checkpoint + 1, life + 1)
      /\ \A x \in Issued(checkpoint + 1, life + 1) : x.life = life + 1
    BY <1>1, IssuedIs DEF Issued, Rollout
<1>5. Shape'
    BY <1>1, <1>2, StepsAssumption DEF Shape
<1>6. Filed'
    <2>1. \A l \in lines : l.rollout.life < life + 1 /\ l.rollout.life # life + 1
        BY DEF Filed, Shape
    <2>2. \A f \in stale' : f.writer[1] \in Nat /\ f.writer[1] < life + 1
        BY <1>1, <2>1 DEF Filed
    <2>. QED
        BY <1>1, <2>1, <2>2 DEF Filed, IsRollout
<1>7. InEngines'
    BY <1>1, <1>2, <1>3, <1>4 DEF InEngines
<1>8. Once'
    <2>1. \A x \in Issued(checkpoint + 1, life + 1) : \A l \in lines : l.rollout # x
        BY <1>4 DEF Filed, Shape
    <2>. QED
        BY <1>1, <1>2, <1>3, <2>1 DEF Once
<1>9. Covered'
    <2>1. ASSUME NEW s \in first' .. step', NEW x \in Issued(s, life') PROVE Somewhere(x)'
        <3>1. s = checkpoint + 1
            BY <1>1 DEF Shape
        <3>. QED
            BY <1>1, <1>2, <1>3, <2>1, <3>1 DEF Somewhere
    <2>. QED
        BY <2>1 DEF Covered, Issued, Rollout
<1>. QED
    BY <1>5, <1>6, <1>7, <1>8, <1>9 DEF ChannelInv

LEMMA ChannelStep == ChannelInv /\ [Next]_vars => ChannelInv'
<1>1. ASSUME ChannelInv, UNCHANGED vars PROVE ChannelInv'
    BY <1>1 DEF vars, engineVars, ChannelInv, Shape, Filed, InEngines, Once, Covered,
                Somewhere, Held, Issued, Rollout, IsRollout
<1>. QED
    BY <1>1, ForwardKeeps, StageKeeps, MetricsKeep, RestartKeeps DEF Next

LEMMA ChannelAlways == Spec => []ChannelInv
BY ChannelInit, ChannelStep, PTL DEF Spec

-----------------------------------------------------------------------------
\* What goes out is typed, and so is a line that rank 0 of an engine writes.
LEMMA SpreadIsTyped ==
    ASSUME NEW s \in 1 .. LastStep, NEW l \in 1 .. MaxLives, NEW r \in Spread(s, l)
    PROVE  r \in [Engines -> SUBSET Rollouts]
<1>1. Issued(s, l) \subseteq Rollouts
    BY DEF Issued, Rollout, Rollouts
<1>. QED
    BY <1>1 DEF Spread

\* Every variable of the channel keeps its type, and only rank 0 writes.
THEOREM TypesAlwaysHold == Spec => []TypeOK
<1>. USE StepsAssumption
<1>1. Init => TypeOK
    BY SpreadIsTyped DEF Init, TypeOK
<1>2. ASSUME TypeOK, NEW e \in Engines, ForwardPass(e) PROVE TypeOK'
    <2>1. PICK over \in SUBSET running[e] :
              /\ running' = [running EXCEPT ![e] = @ \ over]
              /\ ended' = [ended EXCEPT ![e] = over]
        BY <1>2 DEF ForwardPass
    <2>2. /\ running' \in [Engines -> SUBSET Rollouts] /\ ended' \in [Engines -> SUBSET Rollouts]
        BY <1>2, <2>1 DEF TypeOK
    <2>3. ASSUME NEW l \in lines', l \notin lines PROVE l \in Lines /\ l.file.writer[3] = 0
        <3>1. PICK x \in ended[e], r \in {q \in Ranks : OwnsWriter(q)} :
                  l = [file |-> FileName(x.step, WriterId(e, r)), rollout |-> x]
            BY <1>2, <2>3 DEF ForwardPass
        <3>2. x \in Rollouts /\ x.step \in 1 .. LastStep /\ r \in Ranks /\ r = 0 /\ life \in 0 .. MaxLives
            BY <1>2, <3>1 DEF TypeOK, Rollouts, OwnsWriter
        <3>3. WriterId(e, r) \in (0 .. MaxLives) \X Engines \X Ranks /\ WriterId(e, r)[3] = 0
            BY <3>2 DEF WriterId
        <3>4. FileName(x.step, WriterId(e, r)) \in Files /\ FileName(x.step, WriterId(e, r)).writer = WriterId(e, r)
            BY <3>2, <3>3 DEF FileName, Files
        <3>. QED
            BY <3>1, <3>2, <3>3, <3>4 DEF Lines
    <2>. QED
        BY <1>2, <2>2, <2>3 DEF TypeOK, ForwardPass
<1>3. ASSUME TypeOK, GenerationEnds \/ Update \/ ValidationEnds PROVE TypeOK'
    BY <1>3 DEF TypeOK, GenerationEnds, Update, ValidationEnds, engineVars
<1>4. ASSUME TypeOK, ComputeMetrics PROVE TypeOK'
    <2>1. ReadStats(StatsStep) \subseteq Lines
        BY <1>4 DEF TypeOK, ReadStats
    <2>2. \A m \in summaries' : m.read \subseteq Lines
        BY <1>4, <2>1 DEF TypeOK, ComputeMetrics
    <2>3. step' \in first' .. LastStep /\ running' \in [Engines -> SUBSET Rollouts]
          /\ stage' \in {"generate", "update", "validate", "metrics", "done"}
        <3>1. CASE step < LastStep
            BY <1>4, <3>1, SpreadIsTyped DEF TypeOK, ComputeMetrics
        <3>2. CASE ~(step < LastStep)
            BY <1>4, <3>2 DEF TypeOK, ComputeMetrics
        <3>. QED
            BY <3>1, <3>2
    <2>. QED
        BY <1>4, <2>2, <2>3 DEF TypeOK, ComputeMetrics
<1>5. ASSUME TypeOK, Restart PROVE TypeOK'
    <2>1. /\ life' \in 1 .. MaxLives /\ first' \in 1 .. LastStep /\ step' \in first' .. LastStep
          /\ checkpoint + 1 \in 1 .. LastStep /\ life + 1 \in 1 .. MaxLives
        BY <1>5 DEF TypeOK, Restart
    <2>2. running' \in [Engines -> SUBSET Rollouts] /\ ended' \in [Engines -> SUBSET Rollouts]
        BY <1>5, <2>1, SpreadIsTyped DEF Restart
    <2>3. stale' \subseteq Files
        BY <1>5 DEF Restart, Snapshot, TypeOK, Lines
    <2>. QED
        BY <1>5, <2>1, <2>2, <2>3 DEF TypeOK, Restart
<1>6. ASSUME TypeOK, UNCHANGED vars PROVE TypeOK'
    BY <1>6 DEF TypeOK, vars, engineVars
<1>7. TypeOK /\ [Next]_vars => TypeOK'
    BY <1>2, <1>3, <1>4, <1>5, <1>6 DEF Next
<1>. QED
    BY <1>1, <1>7, PTL DEF Spec

\* What a step's metrics read is exactly one line for every CUTS rollout of the step
\* before, if this incarnation issued it, and nothing otherwise.
THEOREM SummariesAreAlwaysExact == Spec => []SummariesAreExact
<1>1. Init => SummariesAreExact
    BY DEF Init, SummariesAreExact
<1>2. ASSUME ChannelInv, SummariesAreExact, [Next]_vars PROVE SummariesAreExact'
    <2>1. CASE ComputeMetrics /\ StatsStep >= 1
        <3>. DEFINE told == {l.rollout : l \in ReadStats(StatsStep)}
        <3>. Shape /\ Filed /\ InEngines /\ Once /\ Covered
            BY <1>2 DEF ChannelInv
        <3>1. \A l \in ReadStats(StatsStep) :
                  l \in lines /\ l.rollout \in Issued(step - 1, life) /\ first <= step - 1
            BY IssuedIs DEF ReadStats, StatsStep, Filed, Shape
        <3>2. ASSUME first <= step - 1, NEW x \in Issued(step - 1, life)
              PROVE  x \in told
            <4>1. Somewhere(x)
                BY <3>2 DEF Covered, Shape
            <4>2. \A e \in Engines : x \notin Held(e)
                BY <2>1, <3>2, IssuedIs DEF ComputeMetrics, InEngines, Held, Shape
            <4>3. PICK l \in lines : l.rollout = x
                BY <4>1, <4>2 DEF Somewhere
            <4>4. l \in ReadStats(StatsStep)
                BY <3>2, <4>3, IssuedIs DEF ReadStats, StatsStep, Filed, Shape
            <4>. QED
                BY <4>3, <4>4
        <3>3. told = IF step - 1 >= first THEN Issued(step - 1, life) ELSE {}
            BY <3>1, <3>2 DEF Shape
        <3>4. \A k, l \in ReadStats(StatsStep) : k.rollout = l.rollout => k = l
            BY <3>1 DEF Once
        <3>5. summaries' = summaries \cup {[life |-> life, first |-> first, step |-> step - 1,
                                            read |-> ReadStats(StatsStep)]}
            BY <2>1 DEF ComputeMetrics, StatsStep
        <3>. QED
            BY <1>2, <3>3, <3>4, <3>5 DEF SummariesAreExact, Issued, Rollout
    <2>2. CASE ~(ComputeMetrics /\ StatsStep >= 1)
        <3>1. UNCHANGED summaries
            BY <1>2, <2>2 DEF Next, ForwardPass, GenerationEnds, Update, ValidationEnds,
                              ComputeMetrics, Restart, vars
        <3>. QED
            BY <1>2, <3>1 DEF SummariesAreExact, Issued, Rollout
    <2>. QED
        BY <2>1, <2>2
<1>. QED
    BY <1>1, <1>2, ChannelAlways, PTL DEF Spec

\* A file holds the lines of one incarnation only (stats.py 51-53).
THEOREM FilesAlwaysHaveOneLife == Spec => []FilesHaveOneLife
<1>1. ChannelInv => FilesHaveOneLife
    BY DEF ChannelInv, Filed, FilesHaveOneLife
<1>. QED
    BY <1>1, ChannelAlways, PTL

\* When the run is over, every CUTS rollout of the last incarnation has its line.
THEOREM NothingIsLeftInEngines == Spec => []NothingLeftInEngines
<1>0. Spec => [](stage = "done" => step = LastStep)
    <2>1. Init => (stage = "done" => step = LastStep)
        BY DEF Init
    <2>2. ChannelInv /\ (stage = "done" => step = LastStep) /\ [Next]_vars
            => (stage = "done" => step = LastStep)'
        BY StepsAssumption DEF ChannelInv, Shape, Next, ForwardPass, GenerationEnds, Update, ValidationEnds,
               ComputeMetrics, Restart, vars
    <2>. QED
        BY <2>1, <2>2, ChannelAlways, PTL DEF Spec
<1>1. ChannelInv /\ (stage = "done" => step = LastStep) => NothingLeftInEngines
    <2> SUFFICES ASSUME ChannelInv, stage = "done", step = LastStep,
                        NEW s \in first .. LastStep, NEW x \in Issued(s, life)
                 PROVE  \E l \in lines : l.rollout = x
        BY DEF NothingLeftInEngines
    <2>1. \A e \in Engines : Held(e) = {}
        BY DEF ChannelInv, InEngines, Held
    <2>2. Somewhere(x)
        BY DEF ChannelInv, Covered
    <2>. QED
        BY <2>1, <2>2 DEF Somewhere
<1>. QED
    BY <1>0, <1>1, ChannelAlways, PTL

-----------------------------------------------------------------------------


(* The agent loop.                                                           *)

Sessions(p) == DOMAIN session[p]

GroupShape ==
    /\ DOMAIN at = Prompts /\ DOMAIN plan = Prompts /\ DOMAIN session = Prompts
    /\ DOMAIN status = Prompts /\ DOMAIN samples = Prompts /\ DOMAIN taken = Prompts

\* Tasks exist from Spawn on, all of them; only while _run_prompt waits for them may one run.
Tasks(p) ==
    /\ \/ Sessions(p) = {} /\ at[p] # "settle"
       \/ Sessions(p) = 0 .. Asked[p] - 1 /\ plan[p] = Kinds(p) /\ ~Refused(p)
    /\ at[p] \in {"start", "plan"} => Sessions(p) = {}
    /\ at[p] = "settle" \/ Settled(p)

\* A status that ReplayBuffer acts on is published after the tasks have settled; "finished"
\* only when all of them are ok.
Published(p) ==
    /\ status[p] \in {"finished", "failure"} \/ taken[p] # "undecided"
         => at[p] \notin {"start", "plan", "settle"}
    /\ at[p] = "publish_finished" \/ status[p] = "finished" \/ taken[p] = "group"
         => /\ Sessions(p) = 0 .. Asked[p] - 1
            /\ \A i \in Sessions(p) : session[p][i] = "ok"

\* A sample is stored for every session that got that far, until the group is cleared.
Stored(p) ==
    /\ samples[p] \subseteq Sessions(p)
    /\ taken[p] = "nothing" => samples[p] = {}
    /\ taken[p] # "nothing" =>
          \A i \in Sessions(p) : session[p][i] \in {"stored", "ok"} => i \in samples[p]

GroupInv == GroupShape /\ \A p \in Prompts : Tasks(p) /\ Published(p) /\ Stored(p)

LEMMA GroupInit == LoopInit => GroupInv
<1>1. DOMAIN NoSessions = {}
    BY DEF NoSessions
<1>. QED
    BY <1>1 DEF LoopInit, GroupInv, GroupShape, Tasks, Published, Stored, Sessions, Settled

\* A step of prompt p leaves what concerns another prompt as it is.
LEMMA OtherPrompts ==
    ASSUME NEW p \in Prompts, NEW q \in Prompts, q # p, GroupInv,
           at'[q] = at[q], plan'[q] = plan[q], session'[q] = session[q],
           status'[q] = status[q], samples'[q] = samples[q], taken'[q] = taken[q]
    PROVE  Tasks(q)' /\ Published(q)' /\ Stored(q)'
BY DEF GroupInv, Tasks, Published, Stored, Sessions, Settled

LEMMA StepOfOne ==
    ASSUME NEW p \in Prompts, GroupInv, PromptStep(p) \/ SessionStep(p)
    PROVE  /\ GroupShape'
           /\ \A q \in Prompts : q # p => Tasks(q)' /\ Published(q)' /\ Stored(q)'
<1>1. /\ GroupShape'
      /\ \A q \in Prompts : q # p =>
            /\ at'[q] = at[q] /\ plan'[q] = plan[q] /\ session'[q] = session[q]
            /\ status'[q] = status[q] /\ samples'[q] = samples[q] /\ taken'[q] = taken[q]
    <2>1. CASE Announce(p)
        BY <2>1 DEF GroupInv, GroupShape, Announce, Put, PutRaises, GoTo
    <2>2. CASE Spawn(p)
        BY <2>2 DEF GroupInv, GroupShape, Spawn, GoTo
    <2>3. CASE RefusePlan(p)
        BY <2>3 DEF GroupInv, GroupShape, RefusePlan, GoTo
    <2>4. CASE Settle(p)
        BY <2>4 DEF GroupInv, GroupShape, Settle, GoTo
    <2>5. CASE Publish(p)
        BY <2>5 DEF GroupInv, GroupShape, Publish, Put, PutRaises, GoTo
    <2>6. CASE Fail(p)
        BY <2>6 DEF GroupInv, GroupShape, Fail, Put, PutRaises, GoTo
    <2>7. CASE TakeGroup(p)
        BY <2>7 DEF GroupInv, GroupShape, TakeGroup
    <2>8. CASE ClearGroup(p)
        BY <2>8 DEF GroupInv, GroupShape, ClearGroup
    <2>9. CASE SessionStep(p)
        BY <2>9 DEF GroupInv, GroupShape, SessionStep, Store, EndSession
    <2>. QED
        BY <2>1, <2>2, <2>3, <2>4, <2>5, <2>6, <2>7, <2>8, <2>9 DEF PromptStep
<1>. QED
    BY <1>1, OtherPrompts

LEMMA StepOfMe ==
    ASSUME NEW p \in Prompts, GroupInv, PromptStep(p) \/ SessionStep(p)
    PROVE  Tasks(p)' /\ Published(p)' /\ Stored(p)'
<1>. GroupShape /\ Tasks(p) /\ Published(p) /\ Stored(p)
    BY DEF GroupInv
<1>0. Asked[p] \in Nat
    BY PromptAssumption
<1>1. CASE Announce(p)
    BY <1>1 DEF Announce, Put, PutRaises, GoTo, GroupShape, Tasks, Published, Stored, Sessions, Settled
<1>2. CASE Spawn(p)
    <2>1. /\ at[p] = "plan" /\ at'[p] = "settle" /\ ~Refused(p)
          /\ plan'[p] = Kinds(p) /\ session'[p] = [i \in 0 .. Asked[p] - 1 |-> "running"]
          /\ UNCHANGED <<status, samples, taken>>
        BY <1>2 DEF Spawn, GoTo, GroupShape
    <2>2. Sessions(p) = {} /\ samples[p] = {} /\ taken[p] = "undecided"
          /\ status[p] \notin {"finished", "failure"}
        BY <2>1 DEF Tasks, Published, Stored
    <2>3. Sessions(p)' = 0 .. Asked[p] - 1
        BY <2>1 DEF Sessions
    <2>6. Kinds(p)' = Kinds(p) /\ Refused(p)' = Refused(p)
        BY DEF Kinds, Refused, ForceStandard, Active, GroupSize
    <2>7. \A i \in Sessions(p)' : session'[p][i] = "running"
        BY <2>1, <2>3
    <2>4. Tasks(p)'
        BY <2>1, <2>3, <2>6 DEF Tasks
    <2>5. Published(p)' /\ Stored(p)'
        BY <2>1, <2>2, <2>7 DEF Published, Stored
    <2>. QED
        BY <2>4, <2>5
<1>3. CASE RefusePlan(p)
    BY <1>3 DEF RefusePlan, GoTo, GroupShape, Tasks, Published, Stored, Sessions, Settled
<1>4. CASE Settle(p)
    <2>1. Sessions(p) = 0 .. Asked[p] - 1
        BY <1>4 DEF Settle, Tasks
    <2>. QED
        BY <1>4 DEF Settle, GoTo, GroupShape, Tasks, Published, Stored, Sessions, Settled
<1>5. CASE Publish(p)
    BY <1>5 DEF Publish, Put, PutRaises, GoTo, GroupShape, Tasks, Published, Stored, Sessions, Settled
<1>6. CASE Fail(p)
    BY <1>6 DEF Fail, Put, PutRaises, GoTo, GroupShape, Tasks, Published, Stored, Sessions, Settled
<1>7. CASE TakeGroup(p)
    BY <1>7 DEF TakeGroup, GroupShape, Tasks, Published, Stored, Sessions, Settled
<1>8. CASE ClearGroup(p)
    BY <1>8 DEF ClearGroup, GroupShape, Tasks, Published, Stored, Sessions, Settled
<1>9. CASE SessionStep(p)
    <2>1. ASSUME NEW i \in 0 .. Asked[p] - 1, Store(p, i)
          PROVE  Tasks(p)' /\ Published(p)' /\ Stored(p)'
        BY <2>1 DEF Store, GroupShape, Tasks, Published, Stored, Sessions, Settled
    <2>2. ASSUME NEW i \in 0 .. Asked[p] - 1, EndSession(p, i)
          PROVE  Tasks(p)' /\ Published(p)' /\ Stored(p)'
        BY <2>2 DEF EndSession, GroupShape, Tasks, Published, Stored, Sessions, Settled
    <2>. QED
        BY <1>9, <2>1, <2>2 DEF SessionStep
<1>. QED
    BY <1>1, <1>2, <1>3, <1>4, <1>5, <1>6, <1>7, <1>8, <1>9 DEF PromptStep

LEMMA GroupStep ==
    GroupInv /\ [LoopNext]_loopVars => GroupInv'
<1>1. ASSUME GroupInv, NEW p \in Prompts, PromptStep(p) \/ SessionStep(p) PROVE GroupInv'
    BY <1>1, StepOfOne, StepOfMe DEF GroupInv
<1>2. ASSUME GroupInv, UNCHANGED loopVars PROVE GroupInv'
    BY <1>2 DEF loopVars, GroupInv, GroupShape, Tasks, Published, Stored, Sessions, Settled
<1>. QED
    BY <1>1, <1>2 DEF LoopNext

LEMMA GroupAlways ==
    LoopSpec => []GroupInv
BY GroupInit, GroupStep, PTL DEF LoopSpec

\* Every variable of the loop keeps its type, for any plan and any faults.
THEOREM LoopTypesAlwaysHold ==
    LoopSpec => []LoopTypeOK
<1>1. LoopInit => LoopTypeOK
    BY PromptAssumption DEF LoopInit, LoopTypeOK, NoSessions
<1>2. ASSUME LoopTypeOK, GroupInv, NEW p \in Prompts, PromptStep(p) PROVE LoopTypeOK'
    <2>. GroupShape /\ Stored(p) /\ Tasks(p)
        BY <1>2 DEF GroupInv
    <2>. USE <1>2 DEF LoopTypeOK, GroupShape, GoTo, Put, PutRaises
    <2>0. MaxFaults \in Nat
        BY PromptAssumption
    <2>1. CASE Announce(p)
        BY <2>0, <2>1 DEF Announce
    <2>2. CASE Spawn(p)
        <3>1. /\ DOMAIN Kinds(p) = 0 .. Asked[p] - 1
              /\ \A i \in DOMAIN Kinds(p) : Kinds(p)[i] \in {"std", "cuts"}
            BY DEF Kinds
        <3>2. /\ at' = [at EXCEPT ![p] = "settle"] /\ plan' = [plan EXCEPT ![p] = Kinds(p)]
              /\ session' = [session EXCEPT ![p] = [i \in 0 .. Asked[p] - 1 |-> "running"]]
              /\ UNCHANGED <<status, samples, taken, faults>>
            BY <2>2 DEF Spawn
        <3>3. \A q \in Prompts : q # p => plan'[q] = plan[q] /\ session'[q] = session[q]
            BY <3>2
        <3>4. /\ plan'[p] = Kinds(p) /\ session'[p] = [i \in 0 .. Asked[p] - 1 |-> "running"]
              /\ samples[p] = {}
            BY <2>2, <3>2 DEF GroupInv, Tasks, Stored, Sessions, Spawn
        <3>. QED
            BY <3>1, <3>2, <3>3, <3>4
    <2>3. CASE RefusePlan(p) \/ Settle(p)
        BY <2>3 DEF RefusePlan, Settle
    <2>4. CASE Publish(p) \/ Fail(p)
        <3>1. CASE Publish(p)
            BY <2>0, <2>4, <3>1 DEF Publish
        <3>2. CASE Fail(p)
            BY <2>0, <2>4, <3>2 DEF Fail
        <3>. QED
            BY <2>4, <3>1, <3>2
    <2>5. CASE TakeGroup(p) \/ ClearGroup(p)
        BY <2>5 DEF TakeGroup, ClearGroup
    <2>. QED
        BY <1>2, <2>1, <2>2, <2>3, <2>4, <2>5 DEF PromptStep
<1>3. ASSUME LoopTypeOK, GroupInv, NEW p \in Prompts, SessionStep(p) PROVE LoopTypeOK'
    <2>. GroupShape
        BY <1>3 DEF GroupInv
    <2>1. PICK i \in 0 .. Asked[p] - 1 : Store(p, i) \/ EndSession(p, i)
        BY <1>3 DEF SessionStep
    <2>2. /\ UNCHANGED <<at, plan, status, taken, faults>> /\ i \in DOMAIN session[p]
          /\ samples' \in {samples, [samples EXCEPT ![p] = @ \cup {i}]}
          /\ \E s \in {"stored", "ok", "error"} : session' = [session EXCEPT ![p][i] = s]
        BY <2>1 DEF Store, EndSession
    <2>3. /\ DOMAIN session'[p] = DOMAIN session[p]
          /\ \A j \in DOMAIN session[p] : session'[p][j] \in {session[p][j], "stored", "ok", "error"}
          /\ \A q \in Prompts : q # p => session'[q] = session[q] /\ samples'[q] = samples[q]
          /\ samples'[p] \subseteq samples[p] \cup {i}
        BY <2>2 DEF GroupShape
    <2>. QED
        BY <1>3, <2>2, <2>3 DEF LoopTypeOK
<1>4. ASSUME LoopTypeOK, UNCHANGED loopVars PROVE LoopTypeOK'
    BY <1>4 DEF LoopTypeOK, loopVars
<1>5. LoopTypeOK /\ GroupInv /\ [LoopNext]_loopVars => LoopTypeOK'
    BY <1>2, <1>3, <1>4 DEF LoopNext
<1>. QED
    BY <1>1, <1>5, GroupAlways, PTL DEF LoopSpec

\* agent_loop.py 119-120: no session writes after ReplayBuffer has cleared the failed group,
\* whatever fails and in whatever order the tasks end.
THEOREM ClearedGroupsStayEmpty ==
    LoopSpec => []NothingWrittenAfterClear
<1>1. GroupInv => NothingWrittenAfterClear
    BY DEF GroupInv, Stored, NothingWrittenAfterClear
<1>. QED
    BY <1>1, GroupAlways, PTL

\* A group taken for training is whole and split as configured (scheduler.py 116-163).
THEOREM WholeGroupsAreTaken ==
    LoopSpec => []TakenGroupsAreWhole
<1>1. ASSUME GroupInv PROVE TakenGroupsAreWhole
    <2> SUFFICES ASSUME NEW p \in Prompts, taken[p] = "group"
                 PROVE  /\ samples[p] = 0 .. Asked[p] - 1
                        /\ {i \in DOMAIN plan[p] : plan[p][i] = "cuts"} =
                               IF Mode[p] = "train" /\ Enabled
                               THEN NStd .. NStd + NCuts - 1 ELSE {}
        BY DEF TakenGroupsAreWhole
    <2>1. Tasks(p) /\ Published(p) /\ Stored(p)
        BY <1>1 DEF GroupInv
    <2>2. /\ Sessions(p) = 0 .. Asked[p] - 1 /\ samples[p] = Sessions(p)
        BY <2>1 DEF Published, Stored
    <2>3. plan[p] = Kinds(p) /\ ~Refused(p)
        <3>1. 0 \in Sessions(p)
            BY <2>2, PromptAssumption
        <3>. QED
            BY <2>1, <3>1 DEF Tasks
    <2>4. {i \in DOMAIN plan[p] : plan[p][i] = "cuts"} =
              {i \in 0 .. Asked[p] - 1 : ~ForceStandard(p) /\ Active /\ i >= NStd}
        <3>1. DOMAIN plan[p] = 0 .. Asked[p] - 1
            BY <2>3 DEF Kinds
        <3>2. \A i \in 0 .. Asked[p] - 1 :
                  plan[p][i] = IF ~ForceStandard(p) /\ Active /\ i >= NStd THEN "cuts" ELSE "std"
            BY <2>3 DEF Kinds
        <3>. QED
            BY <3>1, <3>2
    <2>. QED
        BY <2>2, <2>3, <2>4, GroupAssumption, PromptAssumption
        DEF Refused, ForceStandard, Active, GroupSize
<1>. QED
    BY <1>1, GroupAlways, PTL

-----------------------------------------------------------------------------

(* The table.  First the fold by which the moves are replayed.               *)

\* The order of the numbers as a relation, for the library's theorems on well-founded ones.
Below == {p \in Nat \X Nat : p[1] < p[2]}

\* A set of numbers that is not empty has a least one.
LEMMA LeastNumber ==
    ASSUME NEW T, T \subseteq Nat, T # {}
    PROVE  \E x \in T : \A y \in T : x <= y
<1>1. IsWellFoundedOn(Below, Nat)
    BY NatLessThanWellFounded, SMT DEF OpToRel, Below
<1>2. PICK x \in T : \A y \in T : <<y, x>> \notin Below
    BY <1>1, WFMin
<1>3. ASSUME NEW y \in T, y < x PROVE <<y, x>> \in Below
    BY <1>3 DEF Below
<1>4. ASSUME NEW y \in T PROVE x <= y
    <2>1. x \in Nat /\ y \in Nat /\ ~(y < x)
        BY <1>2, <1>3
    <2>. QED
        BY <2>1
<1>. QED
    BY <1>4

\* The largest number of 1 .. n.
LEMMA MaxOfPart ==
    ASSUME NEW n \in Nat, NEW T \in SUBSET (1 .. n), T # {}
    PROVE  Max(T) \in T /\ \A x \in T : x <= Max(T)
<1>. DEFINE D == {n - x : x \in T}
<1>1. ASSUME NEW x \in T PROVE x \in Int /\ n - x \in Nat
    <2>1. x \in 1 .. n
        OBVIOUS
    <2>. QED
        BY <2>1
<1>2. D \subseteq Nat /\ D # {}
    BY <1>1
<1>3. PICK k \in D : \A y \in D : k <= y
    <2>. HIDE DEF D
    <2>. QED
        BY <1>2, LeastNumber
<1>4. PICK x \in T : k = n - x
    OBVIOUS
<1>5. ASSUME NEW y \in T PROVE y <= x
    <2>1. n - x <= n - y
        BY <1>3, <1>4
    <2>2. x \in Int /\ y \in Int
        BY <1>1
    <2>. QED
        BY <2>1, <2>2
<1>. QED
    BY <1>5 DEF Max

\* g replays the parts of a list of moves, as the fold over it does: the last move of a part last.
IsRun(g, s, ms, D) ==
    g = [T \in SUBSET D |-> IF T = {} THEN s ELSE Move(g[T \ {Max(T)}], ms[Max(T)])]

\* The fold of the model, unfolded once.
LEMMA ReplayIsARun ==
    ASSUME NEW s, NEW ms
    PROVE  Replay(s, ms) = (CHOOSE g : IsRun(g, s, ms, DOMAIN ms))[DOMAIN ms]
    BY DEF Replay, FoldLeft, MapThenFoldSet, IsRun

\* There is a run over the first n moves, for every n.
LEMMA RunsExist ==
    ASSUME NEW s, NEW ms, NEW n \in Nat
    PROVE  \E g : IsRun(g, s, ms, 1 .. n)
<1>. DEFINE Bad == {k \in Nat : ~\E g : IsRun(g, s, ms, 1 .. k)}
<1>1. SUFFICES ASSUME Bad # {} PROVE FALSE
    OBVIOUS
<1>2. PICK k \in Bad : \A y \in Bad : k <= y
    BY <1>1, LeastNumber
<1>3. k \in Nat /\ ~\E g : IsRun(g, s, ms, 1 .. k)
    OBVIOUS
<1>4. CASE k = 0
    <2>1. SUBSET (1 .. k) = {{}}
        BY <1>4
    <2>2. IsRun([T \in SUBSET (1 .. k) |-> s], s, ms, 1 .. k)
        BY <2>1 DEF IsRun
    <2>. QED
        BY <1>3, <2>2
<1>5. CASE k # 0
    <2>1. k - 1 \in Nat /\ k - 1 \notin Bad
        BY <1>2, <1>3, <1>5
    <2>2. PICK g : IsRun(g, s, ms, 1 .. k - 1)
        BY <2>1
    <2>. DEFINE h == [T \in SUBSET (1 .. k) |-> IF k \in T THEN Move(g[T \ {k}], ms[k]) ELSE g[T]]
    <2>3. ASSUME NEW T \in SUBSET (1 .. k)
          PROVE  h[T] = IF T = {} THEN s ELSE Move(h[T \ {Max(T)}], ms[Max(T)])
        <3>1. CASE T = {}
            <4>1. {} \in SUBSET (1 .. k - 1)
                OBVIOUS
            <4>2. g[{}] = s
                BY <2>2, <4>1 DEF IsRun
            <4>. QED
                BY <3>1, <4>2
        <3>2. CASE k \in T
            <4>1. Max(T) \in T /\ \A x \in T : x <= Max(T)
                BY <3>2, <1>3, MaxOfPart
            <4>2. Max(T) = k
                <5>1. Max(T) \in 1 .. k /\ k <= Max(T)
                    BY <3>2, <4>1
                <5>. QED
                    BY <1>3, <5>1
            <4>3. T \ {k} \in SUBSET (1 .. k) /\ k \notin T \ {k}
                OBVIOUS
            <4>4. h[T \ {k}] = g[T \ {k}]
                BY <4>3
            <4>5. h[T] = Move(g[T \ {k}], ms[k])
                BY <3>2
            <4>. QED
                BY <3>2, <4>2, <4>4, <4>5
        <3>3. CASE T # {} /\ k \notin T
            <4>1. T \in SUBSET (1 .. k - 1)
                BY <1>3, <3>3
            <4>2. Max(T) \in T
                BY <2>1, <3>3, <4>1, MaxOfPart
            <4>3. T \ {Max(T)} \in SUBSET (1 .. k) /\ k \notin T \ {Max(T)}
                BY <3>3
            <4>4. h[T \ {Max(T)}] = g[T \ {Max(T)}] /\ h[T] = g[T]
                BY <3>3, <4>3
            <4>5. g[T] = Move(g[T \ {Max(T)}], ms[Max(T)])
                BY <2>2, <3>3, <4>1 DEF IsRun
            <4>. QED
                BY <3>3, <4>4, <4>5
        <3>. QED
            BY <3>1, <3>2, <3>3
    <2>4. IsRun(h, s, ms, 1 .. k)
        <3>. HIDE DEF h
        <3>1. h = [T \in SUBSET (1 .. k) |-> h[T]]
            BY DEF h
        <3>. QED
            BY <2>3, <3>1 DEF IsRun
    <2>. QED
        BY <1>3, <2>4
<1>. QED
    BY <1>4, <1>5

\* A run over a longer list goes through what the run over the shorter one gives.
LEMMA RunsAgree ==
    ASSUME NEW s, NEW ms, NEW other, NEW n \in Nat, \A i \in 1 .. n : ms[i] = other[i],
           NEW g, IsRun(g, s, ms, 1 .. n), NEW h, IsRun(h, s, other, 1 .. (n + 1))
    PROVE  g[1 .. n] = h[1 .. n]
<1>. DEFINE Bad == {m \in 0 .. n : ~\A T \in SUBSET (1 .. m) : g[T] = h[T]}
<1>1. SUFFICES ASSUME Bad # {} PROVE FALSE
    <2>1. n \notin Bad
        BY <1>1
    <2>. QED
        BY <2>1
<1>2. Bad \subseteq Nat
    OBVIOUS
<1>3. PICK m \in Bad : \A y \in Bad : m <= y
    BY <1>1, <1>2, LeastNumber
<1>4. m \in 0 .. n /\ m \in Nat
    BY <1>2
<1>5. PICK T \in SUBSET (1 .. m) : g[T] # h[T]
    OBVIOUS
<1>6. T \in SUBSET (1 .. n) /\ T \in SUBSET (1 .. (n + 1))
    BY <1>4
<1>7. T # {}
    BY <1>5, <1>6 DEF IsRun
<1>8. Max(T) \in T /\ \A x \in T : x <= Max(T)
    BY <1>4, <1>7, MaxOfPart
<1>9. /\ g[T] = Move(g[T \ {Max(T)}], ms[Max(T)])
      /\ h[T] = Move(h[T \ {Max(T)}], other[Max(T)])
    BY <1>6, <1>7 DEF IsRun
<1>10. ms[Max(T)] = other[Max(T)]
    <2>1. Max(T) \in 1 .. m
        BY <1>8
    <2>2. Max(T) \in 1 .. n
        BY <1>4, <2>1
    <2>. QED
        BY <2>2
<1>11. g[T \ {Max(T)}] # h[T \ {Max(T)}]
    BY <1>5, <1>9, <1>10
<1>12. m # 0
    <2>1. 1 .. 0 = {}
        OBVIOUS
    <2>. QED
        BY <1>7, <2>1
<1>13. m - 1 \in 0 .. n /\ m - 1 \notin Bad
    BY <1>3, <1>4, <1>12
<1>14. T \ {Max(T)} \in SUBSET (1 .. m - 1)
    <2>1. ASSUME NEW x \in T \ {Max(T)} PROVE x \in 1 .. m - 1
        <3>1. x \in 1 .. m /\ Max(T) \in 1 .. m /\ x <= Max(T) /\ x # Max(T)
            BY <1>8
        <3>. QED
            BY <1>4, <3>1
    <2>. QED
        BY <2>1
<1>. QED
    BY <1>11, <1>13, <1>14

\* What a replay gives is what a run over all the moves gives.
LEMMA ReplayHasARun ==
    ASSUME NEW s, NEW ms, NEW n \in Nat, DOMAIN ms = 1 .. n
    PROVE  \E g : IsRun(g, s, ms, 1 .. n) /\ Replay(s, ms) = g[1 .. n]
<1>1. PICK g : g = CHOOSE f : IsRun(f, s, ms, DOMAIN ms)
    OBVIOUS
<1>2. \E f : IsRun(f, s, ms, DOMAIN ms)
    BY RunsExist
<1>3. IsRun(g, s, ms, DOMAIN ms)
    BY <1>1, <1>2
<1>4. Replay(s, ms) = g[DOMAIN ms]
    BY <1>1, ReplayIsARun
<1>. QED
    BY <1>3, <1>4

\* Replaying no moves does nothing.
LEMMA ReplayNone ==
    ASSUME NEW s
    PROVE  Replay(s, <<>>) = s
<1>1. DOMAIN <<>> = 1 .. 0 /\ 1 .. 0 = {} /\ 0 \in Nat
    OBVIOUS
<1>2. PICK g : IsRun(g, s, <<>>, 1 .. 0) /\ Replay(s, <<>>) = g[1 .. 0]
    BY <1>1, ReplayHasARun
<1>3. g[{}] = s
    BY <1>1, <1>2 DEF IsRun
<1>. QED
    BY <1>1, <1>2, <1>3

\* The last move of a list is made on what replaying the others gives.
LEMMA ReplayAppend ==
    ASSUME NEW s, NEW ms \in Seq(Moves), NEW m \in Moves
    PROVE  Replay(s, Append(ms, m)) = Move(Replay(s, ms), m)
<1>1. PICK n \in Nat : n = Len(ms)
    OBVIOUS
<1>2. PICK ext : ext = Append(ms, m)
    OBVIOUS
<1>3. /\ DOMAIN ms = 1 .. n /\ DOMAIN ext = 1 .. (n + 1)
      /\ ext[n + 1] = m
    BY <1>1, <1>2
<1>0. \A i \in 1 .. n : ms[i] = ext[i]
    BY <1>1, <1>2
<1>4. n + 1 \in Nat /\ n <= n /\ n <= n + 1
    OBVIOUS
<1>5. PICK g : IsRun(g, s, ms, 1 .. n) /\ Replay(s, ms) = g[1 .. n]
    BY <1>3, ReplayHasARun
<1>6. PICK h : IsRun(h, s, ext, 1 .. (n + 1)) /\ Replay(s, ext) = h[1 .. (n + 1)]
    BY <1>3, <1>4, ReplayHasARun
<1>7. g[1 .. n] = h[1 .. n]
    BY <1>0, <1>5, <1>6, RunsAgree
<1>8. 1 .. (n + 1) # {} /\ n + 1 \in 1 .. (n + 1) /\ (1 .. (n + 1)) \ {n + 1} = 1 .. n
    OBVIOUS
<1>9. Max(1 .. (n + 1)) = n + 1
    <2>1. Max(1 .. (n + 1)) \in 1 .. (n + 1) /\ n + 1 <= Max(1 .. (n + 1))
        BY <1>4, <1>8, MaxOfPart
    <2>. QED
        BY <2>1
<1>10. h[1 .. (n + 1)] = Move(h[1 .. n], ext[n + 1])
    BY <1>6, <1>8, <1>9 DEF IsRun
<1>. QED
    BY <1>2, <1>3, <1>5, <1>6, <1>7, <1>10

-----------------------------------------------------------------------------
\* The values that the loops of apply_batch_update hand on.
Tables == [entries : [Row -> Entries], records : [Requests -> Seq(Summaries)], live : [Requests -> Nat]]

\* The length that the n-th record of a request tells; it had none before the first.
UpTo(recs, n) == IF n = 0 THEN 0 ELSE recs[n].n_generated

\* How many of the tokens after the a-th, up to the b-th, come after T_warm.
Over(a, b) == IF b <= TWarm \/ b <= a THEN 0 ELSE b - (IF a > TWarm THEN a ELSE TWarm)

Has(s, r) == \E i \in Row : s.entries[i].request = r

\* What is told of r: each record counts the tokens after T_warm since the one before, the live
\* entry those since the last; without an entry nothing was drawn since; r has one row at most.
ToldWell(s, r) ==
    \A n \in 1 .. Len(s.records[r]) :
        s.records[r][n].n_cuts_steps = Over(UpTo(s.records[r], n - 1), UpTo(s.records[r], n))
ToldSoFar(s, r) == \A n \in 0 .. Len(s.records[r]) : UpTo(s.records[r], n) <= s.live[r]
ToldLast(s, r) == UpTo(s.records[r], Len(s.records[r]))
Counts(s, r) ==
    \A i \in Row : s.entries[i].request = r => s.entries[i].steps = Over(ToldLast(s, r), s.live[r])
OneRow(s, r) ==
    \A i, j \in Row : s.entries[i].request = r /\ s.entries[j].request = r => i = j
BooksOf(s, r) ==
    /\ ToldWell(s, r) /\ ToldSoFar(s, r) /\ Counts(s, r) /\ OneRow(s, r)
    /\ Has(s, r) \/ ToldLast(s, r) = s.live[r]
Books(s) == \A r \in Cuts : BooksOf(s, r)

\* The stays of r that the table and its records know of.
Counted(s, r) == Len(s.records[r]) + (IF Has(s, r) THEN 1 ELSE 0)

\* Nothing is known of r that was not, and nothing is forgotten.
Same(s, t) == /\ t \in Tables /\ t.live = s.live
              /\ Books(s) => Books(t) /\ \A r \in Cuts : Counted(t, r) = Counted(s, r)

\* The requests that ask for CUTS are requests, and no request is the mark of a free row.
LEMMA CutsAreRequests == Cuts \subseteq Requests /\ Empty \notin Requests /\ Empty \notin Cuts
    BY RequestsAssumption DEF Cuts, Empty

\* The entry of r goes to another row, or stays.
LEMMA StaysKnown ==
    ASSUME NEW s \in Tables, NEW t \in Tables, NEW r \in Cuts, BooksOf(s, r),
           t.records[r] = s.records[r], t.live[r] = s.live[r], Has(s, r) => Has(t, r), OneRow(t, r),
           \A j \in Row : t.entries[j].request = r =>
               \E i \in Row : s.entries[i].request = r /\ t.entries[j].steps = s.entries[i].steps
    PROVE  BooksOf(t, r) /\ Counted(t, r) = Counted(s, r)
<1>1. Has(t, r) <=> Has(s, r)
    BY DEF Has
<1>2. ToldWell(t, r) /\ ToldSoFar(t, r) /\ ToldLast(t, r) = ToldLast(s, r)
    BY DEF BooksOf, ToldWell, ToldSoFar, ToldLast
<1>3. Counts(t, r)
    BY <1>2 DEF BooksOf, Counts
<1>. QED
    BY <1>1, <1>2, <1>3 DEF BooksOf, Counted

\* The entry of r is emitted and gone.
LEMMA LeavesARecord ==
    ASSUME NEW s \in Tables, NEW t \in Tables, NEW r \in Cuts, BooksOf(s, r),
           NEW i \in Row, s.entries[i].request = r,
           t.records[r] = Append(s.records[r], Summary(s, s.entries[i])), t.live[r] = s.live[r],
           ~Has(t, r)
    PROVE  BooksOf(t, r) /\ Counted(t, r) = Counted(s, r)
<1>1. PICK n \in Nat : n = Len(s.records[r])
    BY CutsAreRequests DEF Tables
<1>2. s.records[r] \in Seq(Summaries) /\ s.live[r] \in Nat /\ s.entries[i].steps \in Nat
    BY CutsAreRequests DEF Tables, Entries, NoEntry
<1>3. PICK rec : rec = Summary(s, s.entries[i])
    OBVIOUS
<1>4. /\ rec \in Summaries
      /\ rec.n_generated = s.live[r]
      /\ rec.n_cuts_steps = Over(UpTo(s.records[r], n), s.live[r])
    BY <1>1, <1>2, <1>3 DEF Summary, Summaries, BooksOf, Counts, ToldLast
<1>5. /\ Len(t.records[r]) = n + 1
      /\ t.records[r][n + 1] = rec
    BY <1>1, <1>2, <1>3, <1>4
<1>6. \A k \in 1 .. n : t.records[r][k] = s.records[r][k]
    BY <1>1, <1>2, <1>3, <1>4
<1>7. UpTo(t.records[r], n + 1) = s.live[r] /\ \A k \in 0 .. n : UpTo(t.records[r], k) = UpTo(s.records[r], k)
    BY <1>1, <1>4, <1>5, <1>6 DEF UpTo
<1>8. ToldWell(t, r)
    <2>. SUFFICES ASSUME NEW k \in 1 .. (n + 1)
                  PROVE  t.records[r][k].n_cuts_steps = Over(UpTo(t.records[r], k - 1), UpTo(t.records[r], k))
        BY <1>5 DEF ToldWell
    <2>1. CASE k = n + 1
        <3>1. k - 1 = n /\ n \in 0 .. n
            BY <2>1
        <3>. QED
            BY <1>4, <1>5, <1>7, <2>1, <3>1
    <2>2. CASE k # n + 1
        <3>1. k \in 1 .. n /\ k - 1 \in 0 .. n /\ k \in 0 .. n
            BY <2>2
        <3>. QED
            BY <1>1, <1>6, <1>7, <3>1 DEF BooksOf, ToldWell
    <2>. QED
        BY <2>1, <2>2
<1>9. ToldSoFar(t, r)
    <2>. SUFFICES ASSUME NEW k \in 0 .. (n + 1) PROVE UpTo(t.records[r], k) <= s.live[r]
        BY <1>5 DEF ToldSoFar
    <2>1. CASE k = n + 1
        BY <1>2, <1>7, <2>1
    <2>2. CASE k # n + 1
        <3>1. k \in 0 .. n
            BY <2>2
        <3>. QED
            BY <1>1, <1>7, <3>1 DEF BooksOf, ToldSoFar
    <2>. QED
        BY <2>1, <2>2
<1>10. Counts(t, r) /\ OneRow(t, r)
    BY DEF Has, Counts, OneRow
<1>11. ToldLast(t, r) = t.live[r]
    BY <1>5, <1>7 DEF ToldLast
<1>12. Counted(t, r) = n + 1 /\ Counted(s, r) = n + 1
    <2>1. Has(s, r)
        BY DEF Has
    <2>. QED
        BY <1>1, <1>5, <2>1 DEF Counted
<1>. QED
    BY <1>8, <1>9, <1>10, <1>11, <1>12 DEF BooksOf

\* r gets a fresh entry.
LEMMA EntersFresh ==
    ASSUME NEW s \in Tables, NEW t \in Tables, NEW r \in Cuts, BooksOf(s, r), ~Has(s, r),
           t.records[r] = s.records[r], t.live[r] = s.live[r], Has(t, r), OneRow(t, r),
           \A j \in Row : t.entries[j].request = r => t.entries[j].steps = 0
    PROVE  BooksOf(t, r) /\ Counted(t, r) = Counted(s, r) + 1
<1>1. ToldWell(t, r) /\ ToldSoFar(t, r) /\ ToldLast(t, r) = s.live[r]
    BY DEF BooksOf, ToldWell, ToldSoFar, ToldLast
<1>2. s.live[r] \in Nat /\ Len(s.records[r]) \in Nat
    BY CutsAreRequests DEF Tables
<1>3. Over(s.live[r], s.live[r]) = 0
    BY <1>2 DEF Over
<1>4. Counts(t, r)
    BY <1>1, <1>3 DEF Counts
<1>5. Counted(t, r) = Counted(s, r) + 1
    BY <1>2 DEF Counted
<1>. QED
    BY <1>1, <1>4, <1>5 DEF BooksOf

-----------------------------------------------------------------------------
\* The records of s when e is emitted.
Told(s, e) ==
    [r \in Requests |-> IF r = e.request THEN Append(s.records[r], Summary(s, e)) ELSE s.records[r]]

\* What a member of Tables consists of.
LEMMA TableIs ==
    ASSUME NEW s \in Tables
    PROVE  /\ s = [entries |-> s.entries, records |-> s.records, live |-> s.live]
           /\ s.entries = [i \in Row |-> s.entries[i]] /\ s.records = [r \in Requests |-> s.records[r]]
           /\ \A i \in Row : s.entries[i] \in Entries
           /\ \A r \in Requests : s.records[r] \in Seq(Summaries) /\ s.live[r] \in Nat
    BY DEF Tables

\* An entry is of a CUTS request, or it is no entry.
LEMMA EntryIs ==
    ASSUME NEW e \in Entries
    PROVE  /\ e.request \in Cuts \cup {Empty} /\ e.steps \in Nat
           /\ e.request = Empty => e = NoEntry
<1>1. NoEntry.request = Empty /\ NoEntry.steps = 0
    BY DEF NoEntry
<1>. QED
    BY <1>1, CutsAreRequests DEF Entries

\* Emitting an entry touches the records of its request and nothing else.
LEMMA EmitIs ==
    ASSUME NEW s \in Tables, NEW e \in Entries
    PROVE  /\ Emit(s, e) = [entries |-> s.entries, records |-> Told(s, e), live |-> s.live]
           /\ Told(s, e) \in [Requests -> Seq(Summaries)]
<1>1. CASE e = NoEntry
    <2>1. \A r \in Requests : r # e.request
        BY <1>1, CutsAreRequests DEF NoEntry
    <2>2. Told(s, e) = s.records
        BY <2>1, TableIs DEF Told
    <2>. QED
        BY <1>1, <2>2, TableIs DEF Emit, Tables
<1>2. CASE e # NoEntry
    <2>1. e.request \in Requests /\ e.steps \in Nat
        BY <1>2, CutsAreRequests DEF Entries
    <2>2. PICK t : t = [s EXCEPT !.records[e.request] = Append(@, Summary(s, e))]
        OBVIOUS
    <2>6. t = [entries |-> s.entries, live |-> s.live,
               records |-> [s.records EXCEPT ![e.request] = Append(@, Summary(s, e))]]
        BY <2>2 DEF Tables
    <2>7. Emit(s, e) = t
        BY <1>2, <2>2 DEF Emit
    <2>3. [s.records EXCEPT ![e.request] = Append(@, Summary(s, e))] = Told(s, e)
        BY <2>1, TableIs DEF Told
    <2>4. Summary(s, e) \in Summaries
        BY <2>1, TableIs DEF Summary, Summaries
    <2>5. Told(s, e) \in [Requests -> Seq(Summaries)]
        <3>. SUFFICES ASSUME NEW r \in Requests PROVE Told(s, e)[r] \in Seq(Summaries)
            BY DEF Told
        <3>1. PICK rec \in Summaries : rec = Summary(s, e)
            BY <2>4
        <3>2. s.records[r] \in Seq(Summaries)
            BY TableIs
        <3>3. Append(s.records[r], rec) \in Seq(Summaries)
            BY <3>2
        <3>. QED
            BY <3>1, <3>2, <3>3 DEF Told
    <2>. QED
        BY <2>3, <2>5, <2>6, <2>7
<1>. QED
    BY <1>1, <1>2

\* Where one move leaves the entries, and what it emits.
LEMMA MoveIs ==
    ASSUME NEW s \in Tables, NEW m \in Moves, m.from # m.to
    PROVE  /\ Move(s, m) \in Tables
           /\ Move(s, m).live = s.live
           /\ Move(s, m).entries = [i \in Row |->
                  IF i = m.to THEN s.entries[m.from]
                  ELSE IF i = m.from THEN (IF m.swap THEN s.entries[m.to] ELSE NoEntry)
                  ELSE s.entries[i]]
           /\ Move(s, m).records = IF m.swap THEN s.records ELSE Told(s, s.entries[m.to])
<1>1. /\ m.from \in Row /\ m.to \in Row /\ m.swap \in BOOLEAN
      /\ s.entries[m.to] \in Entries /\ s.entries[m.from] \in Entries /\ NoEntry \in Entries
    BY TableIs DEF Moves, Entries
<1>2. CASE m.swap
    <2>1. PICK es : es = [s.entries EXCEPT ![m.from] = s.entries[m.to], ![m.to] = s.entries[m.from]]
        OBVIOUS
    <2>2. Move(s, m) = [s EXCEPT !.entries = es]
        BY <1>2, <2>1 DEF Move, Tables
    <2>5. Move(s, m) = [entries |-> es, records |-> s.records, live |-> s.live]
        BY <2>2 DEF Tables
    <2>3. es = [i \in Row |-> IF i = m.to THEN s.entries[m.from]
                              ELSE IF i = m.from THEN (IF m.swap THEN s.entries[m.to] ELSE NoEntry)
                              ELSE s.entries[i]]
        BY <1>1, <1>2, <2>1, TableIs
    <2>4. es \in [Row -> Entries]
        BY <1>1, <2>3, TableIs
    <2>. QED
        BY <1>2, <2>3, <2>4, <2>5 DEF Tables
<1>3. CASE ~m.swap
    <2>1. PICK es : es = [s.entries EXCEPT ![m.from] = NoEntry, ![m.to] = s.entries[m.from]]
        OBVIOUS
    <2>2. PICK u : u = Emit(s, s.entries[m.to])
        OBVIOUS
    <2>7. u = [entries |-> s.entries, records |-> Told(s, s.entries[m.to]), live |-> s.live]
        BY <1>1, <2>2, EmitIs
    <2>8. Move(s, m) = [u EXCEPT !.entries[m.from] = NoEntry, !.entries[m.to] = s.entries[m.from]]
        BY <1>3, <2>2 DEF Move
    <2>3. Move(s, m) = [entries |-> es, records |-> Told(s, s.entries[m.to]), live |-> s.live]
        BY <2>1, <2>7, <2>8
    <2>4. es = [i \in Row |-> IF i = m.to THEN s.entries[m.from]
                              ELSE IF i = m.from THEN (IF m.swap THEN s.entries[m.to] ELSE NoEntry)
                              ELSE s.entries[i]]
        BY <1>1, <1>3, <2>1, TableIs
    <2>5. es \in [Row -> Entries]
        BY <1>1, <2>4, TableIs
    <2>6. Told(s, s.entries[m.to]) \in [Requests -> Seq(Summaries)]
        BY <1>1, EmitIs
    <2>. QED
        BY <1>3, <2>3, <2>4, <2>5, <2>6 DEF Tables
<1>. QED
    BY <1>1, <1>2, <1>3

\* No move loses or repeats what is known of a request.
LEMMA MoveKeepsBooks ==
    ASSUME NEW s \in Tables, NEW m \in Moves, m.from # m.to
    PROVE  Same(s, Move(s, m))
<1>1. PICK t : t = Move(s, m)
    OBVIOUS
<1>2. /\ t \in Tables /\ t.live = s.live
      /\ t.entries = [i \in Row |-> IF i = m.to THEN s.entries[m.from]
                                    ELSE IF i = m.from THEN (IF m.swap THEN s.entries[m.to] ELSE NoEntry)
                                    ELSE s.entries[i]]
      /\ t.records = IF m.swap THEN s.records ELSE Told(s, s.entries[m.to])
    BY <1>1, MoveIs
<1>3. m.from \in Row /\ m.to \in Row /\ m.swap \in BOOLEAN
    BY DEF Moves
<1>4. ASSUME NEW r \in Cuts, BooksOf(s, r)
      PROVE  BooksOf(t, r) /\ Counted(t, r) = Counted(s, r)
    <2>1. r \in Requests /\ r # NoEntry.request
        BY CutsAreRequests DEF NoEntry
    <2>2. CASE ~m.swap /\ r = s.entries[m.to].request
        <3>1. t.records[r] = Append(s.records[r], Summary(s, s.entries[m.to])) /\ t.live[r] = s.live[r]
            BY <1>2, <2>1, <2>2 DEF Told
        <3>2. ~Has(t, r)
            <4>. SUFFICES ASSUME NEW i \in Row, t.entries[i].request = r PROVE FALSE
                BY DEF Has
            <4>1. \A j \in Row : s.entries[j].request = r => j = m.to
                BY <1>3, <1>4, <2>2 DEF BooksOf, OneRow
            <4>. QED
                BY <1>2, <1>3, <2>1, <2>2, <4>1
        <3>. QED
            BY <1>2, <1>3, <1>4, <2>2, <3>1, <3>2, LeavesARecord
    <2>3. CASE ~(~m.swap /\ r = s.entries[m.to].request)
        <3>1. t.records[r] = s.records[r] /\ t.live[r] = s.live[r]
            BY <1>2, <1>3, <2>1, <2>3 DEF Told
        <3>2. ASSUME NEW j \in Row, t.entries[j].request = r
              PROVE  LET i == IF j = m.to THEN m.from ELSE IF j = m.from THEN m.to ELSE j
                     IN  i \in Row /\ s.entries[i].request = r /\ t.entries[j].steps = s.entries[i].steps
            BY <1>2, <1>3, <2>1, <3>2
        <3>3. OneRow(t, r)
            <4>. SUFFICES ASSUME NEW i \in Row, NEW j \in Row, t.entries[i].request = r, t.entries[j].request = r
                          PROVE  i = j
                BY DEF OneRow
            <4>1. (IF i = m.to THEN m.from ELSE IF i = m.from THEN m.to ELSE i)
                    = (IF j = m.to THEN m.from ELSE IF j = m.from THEN m.to ELSE j)
                BY <1>4, <3>2 DEF BooksOf, OneRow
            <4>. QED
                BY <4>1
        <3>4. Has(s, r) => Has(t, r)
            <4>. SUFFICES ASSUME NEW i \in Row, s.entries[i].request = r PROVE Has(t, r)
                BY DEF Has
            <4>1. CASE i = m.from
                BY <1>2, <1>3, <4>1 DEF Has
            <4>2. CASE i = m.to
                BY <1>2, <1>3, <2>3, <4>2 DEF Has
            <4>3. CASE i # m.from /\ i # m.to
                BY <1>2, <4>3 DEF Has
            <4>. QED
                BY <4>1, <4>2, <4>3
        <3>5. \A j \in Row : t.entries[j].request = r =>
                 \E i \in Row : s.entries[i].request = r /\ t.entries[j].steps = s.entries[i].steps
            BY <3>2
        <3>. QED
            BY <1>2, <1>4, <3>1, <3>3, <3>4, <3>5, StaysKnown
    <2>. QED
        BY <2>2, <2>3
<1>. QED
    BY <1>1, <1>2, <1>4 DEF Same, Books

-----------------------------------------------------------------------------
\* No row in some order.
LEMMA SeqOfNone == SetToSeq({}) = <<>>
<1>1. Cardinality({}) = 0 /\ 1 .. 0 = {}
    BY FS_EmptySet
<1>2. PICK f : f = SetToSeq({})
    OBVIOUS
<1>3. [n \in 1 .. 0 |-> n] \in [1 .. 0 -> {}] /\ IsInjective([n \in 1 .. 0 |-> n])
    BY <1>1 DEF IsInjective
<1>4. f \in [1 .. 0 -> {}]
    BY <1>1, <1>2, <1>3 DEF SetToSeq
<1>5. f = <<>>
    BY <1>1, <1>4
<1>. QED
    BY <1>2, <1>5

\* One row in some order.
LEMMA SeqOfOne ==
    ASSUME NEW x
    PROVE  SetToSeq({x}) = <<x>>
<1>1. Cardinality({x}) = 1 /\ 1 .. 1 = {1}
    BY FS_Singleton
<1>2. PICK f : f = SetToSeq({x})
    OBVIOUS
<1>3. [n \in 1 .. 1 |-> x] \in [1 .. 1 -> {x}] /\ IsInjective([n \in 1 .. 1 |-> x])
    BY <1>1 DEF IsInjective
<1>4. f \in [1 .. 1 -> {x}]
    BY <1>1, <1>2, <1>3 DEF SetToSeq
<1>5. f = <<x>>
    BY <1>1, <1>4
<1>. QED
    BY <1>2, <1>5

\* Where finishing the rows of S leaves the entries and records.
LEMMA FinishIs ==
    ASSUME NEW s \in Tables, Books(s), NEW S \in SUBSET Row
    PROVE  /\ Finish(s, S).live = s.live
           /\ Finish(s, S).entries = [i \in Row |-> IF i \in S THEN NoEntry ELSE s.entries[i]]
           /\ \A r \in Requests : (\A i \in S : s.entries[i].request # r)
                                      => Finish(s, S).records[r] = s.records[r]
           /\ \A r \in Requests : \A i \in S : s.entries[i].request = r
                  => Finish(s, S).records[r] = Append(s.records[r], Summary(s, s.entries[i]))
           /\ Finish(s, S) \in Tables
<1>1. PICK t : t = Finish(s, S)
    OBVIOUS
<1>2. PICK recs : recs = [r \in Requests |-> s.records[r] \o
                            PerRow({i \in S : s.entries[i].request = r},
                                   LAMBDA i : Summary(s, s.entries[i]))]
    OBVIOUS
<1>3. PICK es : es = [i \in Row |-> IF i \in S THEN NoEntry ELSE s.entries[i]]
    OBVIOUS
<1>4. t = [entries |-> es, records |-> recs, live |-> s.live]
    BY <1>1, <1>2, <1>3 DEF Finish, Tables
<1>5. es \in [Row -> Entries]
    BY <1>3, TableIs DEF Entries
<1>6. ASSUME NEW r \in Requests, \A i \in S : s.entries[i].request # r
      PROVE  recs[r] = s.records[r]
    <2>1. {i \in S : s.entries[i].request = r} = {}
        BY <1>6
    <2>2. recs[r] = s.records[r] \o [n \in DOMAIN <<>> |-> Summary(s, s.entries[<<>>[n]])]
        BY <1>2, <2>1, SeqOfNone DEF PerRow
    <2>3. [n \in DOMAIN <<>> |-> Summary(s, s.entries[<<>>[n]])] = <<>>
        OBVIOUS
    <2>4. s.records[r] \in Seq(Summaries)
        BY TableIs
    <2>. QED
        BY <2>2, <2>3, <2>4
<1>7. ASSUME NEW r \in Requests, NEW i \in S, s.entries[i].request = r
      PROVE  recs[r] = Append(s.records[r], Summary(s, s.entries[i])) /\ recs[r] \in Seq(Summaries)
    <2>1. r \in Cuts /\ s.entries[i].steps \in Nat
        <3>1. s.entries[i] \in Entries
            BY TableIs
        <3>. QED
            BY <1>7, <3>1, EntryIs, CutsAreRequests
    <2>2. {j \in S : s.entries[j].request = r} = {i}
        BY <1>7, <2>1 DEF Books, BooksOf, OneRow
    <2>3. recs[r] = s.records[r] \o [n \in DOMAIN <<i>> |-> Summary(s, s.entries[<<i>>[n]])]
        BY <1>2, <2>2, SeqOfOne DEF PerRow
    <2>4. PICK rec : rec = Summary(s, s.entries[i])
        OBVIOUS
    <2>5. [n \in DOMAIN <<i>> |-> Summary(s, s.entries[<<i>>[n]])] = <<rec>>
        BY <2>4
    <2>6. rec \in Summaries
        BY <1>7, <2>1, <2>4, TableIs DEF Summary, Summaries
    <2>7. s.records[r] \in Seq(Summaries)
        BY TableIs
    <2>8. s.records[r] \o <<rec>> = Append(s.records[r], rec) /\ Append(s.records[r], rec) \in Seq(Summaries)
        BY <2>6, <2>7
    <2>. QED
        BY <2>3, <2>4, <2>5, <2>8
<1>8. recs \in [Requests -> Seq(Summaries)]
    <2>. SUFFICES ASSUME NEW r \in Requests PROVE recs[r] \in Seq(Summaries)
        BY <1>2
    <2>. QED
        BY <1>6, <1>7, TableIs
<1>9. t \in Tables
    BY <1>4, <1>5, <1>8, TableIs DEF Tables
<1>. QED
    BY <1>1, <1>3, <1>4, <1>6, <1>7, <1>9

\* Finishing rows leaves a record for each entry that goes.
LEMMA FinishKeepsBooks ==
    ASSUME NEW s \in Tables, Books(s), NEW S \in SUBSET Row
    PROVE  Same(s, Finish(s, S)) /\ Books(Finish(s, S))
<1>1. PICK t : t = Finish(s, S)
    OBVIOUS
<1>2. /\ t \in Tables /\ t.live = s.live
      /\ t.entries = [i \in Row |-> IF i \in S THEN NoEntry ELSE s.entries[i]]
    BY <1>1, FinishIs
<1>4. \A r \in Requests : (\A i \in S : s.entries[i].request # r) => t.records[r] = s.records[r]
    <2>1. \A r \in Requests : (\A i \in S : s.entries[i].request # r)
             => Finish(s, S).records[r] = s.records[r]
        BY FinishIs
    <2>. QED
        BY <1>1, <2>1, Zenon
<1>5. \A r \in Requests : \A i \in S : s.entries[i].request = r
          => t.records[r] = Append(s.records[r], Summary(s, s.entries[i]))
    <2>1. \A r \in Requests : \A i \in S : s.entries[i].request = r
             => Finish(s, S).records[r] = Append(s.records[r], Summary(s, s.entries[i]))
        BY FinishIs
    <2>. QED
        BY <1>1, <2>1, Zenon
<1>3. ASSUME NEW r \in Cuts
      PROVE  BooksOf(t, r) /\ Counted(t, r) = Counted(s, r)
    <2>1. BooksOf(s, r) /\ r \in Requests /\ r # NoEntry.request
        BY CutsAreRequests DEF Books, NoEntry
    <2>2. CASE \E i \in S : s.entries[i].request = r
        <3>1. PICK i \in S : s.entries[i].request = r
            BY <2>2
        <3>2. t.records[r] = Append(s.records[r], Summary(s, s.entries[i]))
            BY <1>5, <2>1, <3>1
        <3>3. ~Has(t, r)
            BY <1>2, <2>1, <3>1 DEF Has, BooksOf, OneRow
        <3>. QED
            BY <1>2, <2>1, <3>1, <3>2, <3>3, LeavesARecord
    <2>3. CASE ~\E i \in S : s.entries[i].request = r
        <3>1. t.records[r] = s.records[r]
            BY <1>4, <2>1, <2>3
        <3>2. \A i \in Row : t.entries[i].request = r <=> s.entries[i].request = r
            BY <1>2, <2>1, <2>3
        <3>3. \A i \in Row : s.entries[i].request = r => t.entries[i] = s.entries[i]
            BY <1>2, <2>3
        <3>4. OneRow(t, r) /\ (Has(s, r) => Has(t, r))
            BY <2>1, <3>2 DEF BooksOf, OneRow, Has
        <3>5. \A j \in Row : t.entries[j].request = r =>
                 \E i \in Row : s.entries[i].request = r /\ t.entries[j].steps = s.entries[i].steps
            BY <3>2, <3>3
        <3>. QED
            BY <1>2, <2>1, <3>1, <3>4, <3>5, StaysKnown
    <2>. QED
        BY <2>2, <2>3
<1>. QED
    BY <1>1, <1>2, <1>3 DEF Same, Books

\* The rows of added requests; each request has one, and no entry yet.
AddedOnce(s) ==
    /\ DOMAIN added \subseteq Row
    /\ \A i, j \in DOMAIN added : added[i] = added[j] => i = j
    /\ \A i \in Row : \A j \in DOMAIN added : added[j] \in Cuts => s.entries[i].request # added[j]

IsAdded(r) == \E j \in DOMAIN added : added[j] = r

\* The added loop enters the added CUTS requests, with nothing counted, and finishes what was
\* on their rows.
LEMMA AddIs ==
    ASSUME NEW s \in Tables, Books(s), AddedOnce(s)
    PROVE  /\ Add(s) \in Tables /\ Add(s).live = s.live /\ Books(Add(s))
           /\ \A i \in Row : Add(s).entries[i] =
                  IF i \notin DOMAIN added THEN s.entries[i]
                  ELSE IF added[i] \in Cuts THEN [request |-> added[i], steps |-> 0] ELSE NoEntry
           /\ \A r \in Cuts : Counted(Add(s), r) = Counted(s, r) + (IF IsAdded(r) THEN 1 ELSE 0)
<1>1. PICK u : u = Finish(s, DOMAIN added)
    OBVIOUS
<1>2. DOMAIN added \in SUBSET Row
    BY DEF AddedOnce
<1>12. Same(s, u) /\ Books(u)
    BY <1>1, <1>2, FinishKeepsBooks
<1>13. u.entries = [i \in Row |-> IF i \in DOMAIN added THEN NoEntry ELSE s.entries[i]]
    BY <1>1, <1>2, FinishIs
<1>3. /\ u \in Tables /\ u.live = s.live /\ Books(u)
      /\ \A i \in Row : u.entries[i] = IF i \in DOMAIN added THEN NoEntry ELSE s.entries[i]
      /\ \A r \in Cuts : Counted(u, r) = Counted(s, r)
    BY <1>12, <1>13 DEF Same
<1>4. PICK t : t = Add(s)
    OBVIOUS
<1>5. PICK es : es = [i \in Row |-> IF i \in AddedCuts THEN [request |-> added[i], steps |-> 0]
                                    ELSE u.entries[i]]
    OBVIOUS
<1>6. t = [u EXCEPT !.entries = es]
    BY <1>1, <1>4, <1>5 DEF Add, Enter
<1>7. t = [entries |-> es, records |-> u.records, live |-> u.live]
    BY <1>3, <1>6 DEF Tables
<1>8. es \in [Row -> Entries]
    <2>. SUFFICES ASSUME NEW i \in Row PROVE es[i] \in Entries
        BY <1>5
    <2>1. u.entries[i] \in Entries
        BY <1>3, TableIs
    <2>2. i \in AddedCuts => added[i] \in Cuts
        BY DEF AddedCuts
    <2>. QED
        BY <1>5, <2>1, <2>2 DEF Entries
<1>9. t \in Tables /\ t.live = s.live /\ t.records = u.records
    BY <1>3, <1>7, <1>8 DEF Tables
<1>10. \A i \in Row : t.entries[i] =
          IF i \notin DOMAIN added THEN s.entries[i]
          ELSE IF added[i] \in Cuts THEN [request |-> added[i], steps |-> 0] ELSE NoEntry
    BY <1>3, <1>5, <1>7 DEF AddedCuts
<1>11. ASSUME NEW r \in Cuts
       PROVE  BooksOf(t, r) /\ Counted(t, r) = Counted(s, r) + (IF IsAdded(r) THEN 1 ELSE 0)
    <2>0. r # NoEntry.request /\ r \in Requests
        BY CutsAreRequests DEF NoEntry
    <2>4. Counted(s, r) \in Nat
        <3>1. Len(s.records[r]) \in Nat
            BY <2>0, TableIs
        <3>2. CASE Has(s, r)
            BY <3>1, <3>2 DEF Counted
        <3>3. CASE ~Has(s, r)
            BY <3>1, <3>3 DEF Counted
        <3>. QED
            BY <3>2, <3>3
    <2>1. BooksOf(u, r) /\ Counted(u, r) = Counted(s, r)
        BY <1>3 DEF Books
    <2>5. \A i \in Row : i \notin DOMAIN added => t.entries[i] = s.entries[i] /\ u.entries[i] = s.entries[i]
        BY <1>3, <1>10
    <2>6. \A i \in DOMAIN added : i \in Row /\ u.entries[i].request # r
        BY <1>2, <1>3, <2>0
    <2>7. \A i \in DOMAIN added : added[i] = r => t.entries[i].request = r /\ t.entries[i].steps = 0
        <3>. SUFFICES ASSUME NEW i \in DOMAIN added, added[i] = r
                      PROVE  t.entries[i].request = r /\ t.entries[i].steps = 0
            OBVIOUS
        <3>1. t.entries[i] = [request |-> r, steps |-> 0]
            BY <1>2, <1>10
        <3>. QED
            BY <3>1
    <2>8. \A i \in DOMAIN added : added[i] # r => t.entries[i].request # r
        <3>. SUFFICES ASSUME NEW i \in DOMAIN added, added[i] # r PROVE t.entries[i].request # r
            OBVIOUS
        <3>1. t.entries[i] = [request |-> added[i], steps |-> 0] \/ t.entries[i] = NoEntry
            BY <1>2, <1>10
        <3>. QED
            BY <2>0, <3>1
    <2>2. CASE IsAdded(r)
        <3>1. PICK j \in DOMAIN added : added[j] = r
            BY <2>2 DEF IsAdded
        <3>2. \A i \in Row : t.entries[i].request = r <=> i = j
            BY <2>5, <2>6, <2>7, <2>8, <3>1 DEF AddedOnce
        <3>3. j \in Row /\ t.entries[j].steps = 0
            BY <2>6, <2>7, <3>1
        <3>4. ~Has(u, r)
            BY <2>5, <2>6, <3>1 DEF Has, AddedOnce
        <3>5. Has(t, r) /\ OneRow(t, r)
            BY <3>2, <3>3 DEF Has, OneRow
        <3>6. \A i \in Row : t.entries[i].request = r => t.entries[i].steps = 0
            BY <3>2, <3>3
        <3>7. t.records[r] = u.records[r] /\ t.live[r] = u.live[r]
            BY <1>3, <1>9
        <3>8. BooksOf(t, r) /\ Counted(t, r) = Counted(u, r) + 1
            BY <1>3, <1>9, <2>1, <3>4, <3>5, <3>6, <3>7, EntersFresh
        <3>. QED
            BY <2>1, <2>4, <2>2, <3>8
    <2>3. CASE ~IsAdded(r)
        <3>1. \A i \in Row : t.entries[i].request = r <=> u.entries[i].request = r
            BY <2>5, <2>6, <2>8, <2>3 DEF IsAdded
        <3>2. \A i \in Row : t.entries[i].request = r => t.entries[i] = u.entries[i]
            BY <2>5, <2>6, <2>8, <2>3 DEF IsAdded
        <3>3. OneRow(t, r) /\ (Has(u, r) => Has(t, r))
            BY <2>1, <3>1 DEF BooksOf, OneRow, Has
        <3>4. \A j \in Row : t.entries[j].request = r =>
                 \E i \in Row : u.entries[i].request = r /\ t.entries[j].steps = u.entries[i].steps
            BY <3>1, <3>2
        <3>5. t.records[r] = u.records[r] /\ t.live[r] = u.live[r]
            BY <1>3, <1>9
        <3>6. BooksOf(t, r) /\ Counted(t, r) = Counted(u, r)
            BY <1>3, <1>9, <2>1, <3>3, <3>4, <3>5, StaysKnown
        <3>. QED
            BY <2>1, <2>4, <2>3, <3>6
    <2>. QED
        BY <2>2, <2>3
<1>. QED
    BY <1>4, <1>9, <1>10, <1>11 DEF Books

-----------------------------------------------------------------------------
\* A row of the batch belongs to one request that runs, and every request that runs has one; a
\* request that may join again has a stay left.
Seated ==
    /\ \A i, j \in Row : batch[i] = batch[j] /\ batch[i] # Empty => i = j
    /\ \A i \in Row : batch[i] # Empty => standing[batch[i]] = "running"
    /\ \A r \in Requests : standing[r] = "running" => \E i \in Row : batch[i] = r
    /\ \A r \in Requests : standing[r] \in {"waiting", "evicted"} => stays[r] < MaxStays

\* The update is empty in the forward pass; its added requests run, each on one row, and the
\* table knows neither them nor a request that waits.
Incoming ==
    /\ phase = "forward" => removed = {} /\ DOMAIN added = {} /\ moved = <<>>
    /\ \A i \in DOMAIN added : standing[added[i]] = "running"
    /\ \A i, j \in DOMAIN added : added[i] = added[j] => i = j
    /\ \A i \in Row : entries[i].request # Empty => standing[entries[i].request] # "waiting"
    /\ \A i \in Row : \A j \in DOMAIN added : added[j] \in Cuts => entries[i].request # added[j]
    /\ \A n \in DOMAIN moved : moved[n].from # moved[n].to

\* A row shows the CUTS request on it.
Mask(x) == IF x \in Cuts THEN x ELSE Empty
Mirrored == phase = "forward" => \A i \in Row : entries[i].request = Mask(batch[i])

\* Between two forward passes: the rows that the update removes and does not refill, of these
\* the ones no move goes to, and what the table shows before the moves on every other row.
Gone == removed \ DOMAIN added
Untouched == {i \in Gone : \A n \in DOMAIN moved : moved[n].to # i}
Start(i) == IF i \in DOMAIN added THEN Mask(added[i]) ELSE entries[i].request

\* Replaying the moves, on whatever is in the rows that are gone, leaves on every row what the
\* batch has there, and does not look at the untouched ones.
Followed ==
    phase = "schedule" =>
        /\ \A i \in Untouched : batch[i] = Empty
        /\ \A s \in Tables :
             (\A i \in Row \ Gone : s.entries[i].request = Start(i)) =>
                 \A i \in Row : Replay(s, moved).entries[i].request =
                     IF i \in Untouched THEN s.entries[i].request ELSE Mask(batch[i])
Replayable == \A s \in Tables : Same(s, Replay(s, moved))

Booked == Books(Table) /\ \A r \in Cuts : stays[r] = Counted(Table, r) + (IF IsAdded(r) THEN 1 ELSE 0)
Drawn == SampledAsAsked /\ \A r \in Requests : Len(sampled[r]) = tokens[r]

BatchInv ==
    TableTypeOK /\ Seated /\ Incoming /\ Mirrored /\ Followed /\ Replayable /\ Booked /\ Drawn

\* The table of a well-typed state is one of Tables.
LEMMA TableTyped == TableTypeOK => Table \in Tables
    BY DEF TableTypeOK, Table, Tables

\* An update with the same moves can be replayed as before.
LEMMA ReplayStays ==
    ASSUME moved' = moved, Replayable
    PROVE  Replayable'
    BY DEF Replayable

\* One more move can be replayed if those before it can.
LEMMA ReplayOne ==
    ASSUME NEW m \in Moves, m.from # m.to, moved' = Append(moved, m), moved \in Seq(Moves), Replayable
    PROVE  Replayable'
<1>1. \A s \in Tables : Replay(s, moved') = Move(Replay(s, moved), m)
    BY ReplayAppend
<1>2. \A s \in Tables : Same(s, Replay(s, moved'))
    BY <1>1, MoveKeepsBooks DEF Replayable, Same
<1>. QED
    BY <1>2 DEF Replayable

\* What apply_batch_update leaves: the table mirrors the batch and the books are kept.
LEMMA UpdateIs ==
    ASSUME BatchInv, UpdateState
    PROVE  /\ entries' \in [Row -> Entries] /\ records' \in [Requests -> Seq(Summaries)]
           /\ \A i \in Row : entries'[i].request = Mask(batch[i])
           /\ Booked'
<1>1. Table \in Tables /\ Books(Table) /\ Table.entries = entries /\ Table.live = tokens
    BY TableTyped DEF BatchInv, Booked, Table
<1>2. PICK u : u = Finish(Table, removed)
    OBVIOUS
<1>3. removed \in SUBSET Row
    BY DEF BatchInv, TableTypeOK
<1>4. u.entries = [i \in Row |-> IF i \in removed THEN NoEntry ELSE entries[i]]
    BY <1>1, <1>2, <1>3, FinishIs
<1>5. u \in Tables /\ u.live = tokens /\ Books(u) /\ \A r \in Cuts : Counted(u, r) = Counted(Table, r)
    BY <1>1, <1>2, <1>3, FinishKeepsBooks DEF Same
<1>6. AddedOnce(u)
    <2>1. ASSUME NEW i \in Row, NEW j \in DOMAIN added, added[j] \in Cuts
          PROVE  u.entries[i].request # added[j]
        <3>1. CASE i \in removed
            BY <1>4, <2>1, <3>1, CutsAreRequests DEF NoEntry
        <3>2. CASE i \notin removed
            BY <1>4, <2>1, <3>2 DEF BatchInv, Incoming
        <3>. QED
            BY <3>1, <3>2
    <2>. QED
        BY <2>1 DEF AddedOnce, BatchInv, Incoming, TableTypeOK
<1>7. PICK v : v = Add(u)
    OBVIOUS
<1>8. /\ v \in Tables /\ v.live = tokens /\ Books(v)
      /\ \A i \in Row : v.entries[i] =
             IF i \notin DOMAIN added THEN u.entries[i]
             ELSE IF added[i] \in Cuts THEN [request |-> added[i], steps |-> 0] ELSE NoEntry
      /\ \A r \in Cuts : Counted(v, r) = Counted(u, r) + (IF IsAdded(r) THEN 1 ELSE 0)
    BY <1>5, <1>6, <1>7, AddIs
<1>9. PICK t : t = Replay(v, moved)
    OBVIOUS
<1>10. Same(v, t)
    BY <1>8, <1>9 DEF BatchInv, Replayable
<1>11. /\ t \in Tables /\ t.live = tokens /\ Books(t)
       /\ \A r \in Cuts : Counted(t, r) = stays[r]
    BY <1>5, <1>8, <1>10 DEF Same, BatchInv, Booked
<1>12. entries' = t.entries /\ records' = t.records /\ tokens' = tokens /\ stays' = stays
       /\ DOMAIN added' = {}
    BY <1>2, <1>7, <1>9 DEF UpdateState, batchVars
<1>13. t = Table'
    BY <1>11, <1>12 DEF Table, Tables
<1>14. Booked'
    <2>1. Books(t) /\ \A r \in Cuts : stays'[r] = Counted(t, r)
        BY <1>11, <1>12
    <2>2. \A r \in Cuts : Counted(t, r) \in Nat
        BY <1>11, CutsAreRequests DEF BatchInv, TableTypeOK
    <2>3. \A r \in Cuts : ~IsAdded(r)'
        BY <1>12 DEF IsAdded
    <2>. QED
        BY <1>13, <2>1, <2>2, <2>3 DEF Booked
<1>15. \A i \in Row \ Gone : v.entries[i].request = Start(i)
    <2>. SUFFICES ASSUME NEW i \in Row \ Gone PROVE v.entries[i].request = Start(i)
        OBVIOUS
    <2>1. CASE i \in DOMAIN added
        <3>1. CASE added[i] \in Cuts
            <4>1. v.entries[i] = [request |-> added[i], steps |-> 0]
                BY <1>8, <2>1, <3>1
            <4>. QED
                BY <2>1, <3>1, <4>1 DEF Start, Mask
        <3>2. CASE added[i] \notin Cuts
            <4>1. v.entries[i] = NoEntry
                BY <1>8, <2>1, <3>2
            <4>. QED
                BY <2>1, <3>2, <4>1 DEF Start, Mask, NoEntry
        <3>. QED
            BY <3>1, <3>2
    <2>2. CASE i \notin DOMAIN added
        <3>1. i \notin removed
            BY <2>2 DEF Gone
        <3>. QED
            BY <1>4, <1>8, <2>2, <3>1 DEF Start
    <2>. QED
        BY <2>1, <2>2
<1>16. \A i \in Row : t.entries[i].request = IF i \in Untouched THEN v.entries[i].request ELSE Mask(batch[i])
    BY <1>8, <1>9, <1>15 DEF BatchInv, Followed, UpdateState
<1>17. \A i \in Row : t.entries[i].request = Mask(batch[i])
    <2>. SUFFICES ASSUME NEW i \in Row, i \in Untouched PROVE t.entries[i].request = Mask(batch[i])
        BY <1>16
    <2>1. i \in removed /\ i \notin DOMAIN added /\ batch[i] = Empty
        BY DEF Untouched, Gone, BatchInv, Followed, UpdateState
    <2>2. v.entries[i] = NoEntry
        BY <1>4, <1>8, <2>1
    <2>. QED
        BY <1>16, <2>1, <2>2, CutsAreRequests DEF Mask, NoEntry
<1>18. t.entries \in [Row -> Entries] /\ t.records \in [Requests -> Seq(Summaries)]
    BY <1>11 DEF Tables
<1>. QED
    BY <1>12, <1>14, <1>17, <1>18

\* What a forward pass gives: one token for the request on each row, drawn as its entry says.
LEMMA ForwardIs ==
    ASSUME BatchInv, Forward, NEW r \in Requests
    PROVE  /\ (\A i \in Row : batch[i] # r) => tokens'[r] = tokens[r] /\ sampled'[r] = sampled[r]
           /\ \A i \in Row : batch[i] = r =>
                /\ tokens'[r] = tokens[r] + 1 /\ tokens[r] < MaxTokens
                /\ sampled'[r] = Append(sampled[r],
                        IF Warm(entries[i]) THEN Signature[entries[i].request] ELSE Std)
<1>. DEFINE hit == {i \in Occupied : Warm(entries[i])}
            rows == {i \in Occupied : batch[i] = r}
<1>1. /\ tokens'[r] = tokens[r] + Cardinality(rows)
      /\ sampled'[r] = sampled[r] \o
             [n \in DOMAIN SetToSeq(rows) |->
                 IF SetToSeq(rows)[n] \in hit THEN Signature[entries[SetToSeq(rows)[n]].request] ELSE Std]
    BY DEF Forward, PerRow
<1>2. sampled[r] \in Seq(Range(Signature) \cup {Std}) /\ tokens[r] \in Nat
    BY DEF BatchInv, TableTypeOK
<1>3. CASE \A i \in Row : batch[i] # r
    <2>1. rows = {}
        BY <1>3 DEF Occupied
    <2>2. PICK new : new = [n \in DOMAIN <<>> |->
                 IF <<>>[n] \in hit THEN Signature[entries[<<>>[n]].request] ELSE Std]
        OBVIOUS
    <2>3. new = <<>>
        BY <2>2
    <2>4. tokens'[r] = tokens[r] + 0 /\ sampled'[r] = sampled[r] \o new
        BY <1>1, <2>1, <2>2, SeqOfNone, FS_EmptySet
    <2>. QED
        BY <1>2, <1>3, <2>3, <2>4
<1>4. ASSUME NEW i \in Row, batch[i] = r
      PROVE  /\ tokens'[r] = tokens[r] + 1 /\ tokens[r] < MaxTokens
             /\ sampled'[r] = Append(sampled[r],
                     IF Warm(entries[i]) THEN Signature[entries[i].request] ELSE Std)
    <2>1. rows = {i} /\ i \in Occupied
        BY <1>4, CutsAreRequests DEF Occupied, BatchInv, Seated
    <2>2. PICK d : d = IF Warm(entries[i]) THEN Signature[entries[i].request] ELSE Std
        OBVIOUS
    <2>3. PICK new : new = [n \in DOMAIN <<i>> |->
                 IF <<i>>[n] \in hit THEN Signature[entries[<<i>>[n]].request] ELSE Std]
        OBVIOUS
    <2>4. new = <<d>>
        BY <2>1, <2>2, <2>3
    <2>5. tokens'[r] = tokens[r] + 1 /\ sampled'[r] = sampled[r] \o new
        BY <1>1, <2>1, <2>3, SeqOfOne, FS_Singleton
    <2>6. tokens[r] < MaxTokens
        BY <1>4, <2>1 DEF Forward
    <2>7. sampled[r] \o <<d>> = Append(sampled[r], d)
        BY <1>2
    <2>. QED
        BY <2>2, <2>4, <2>5, <2>6, <2>7
<1>. QED
    BY <1>3, <1>4

-----------------------------------------------------------------------------
\* The steps, one by one: a step of tableVars is one of these.
LEMMA Steps ==
    ASSUME [TableNext]_tableVars
    PROVE  \/ \E r \in Requests : \E why \in {"over", "evicted"} : Leave(r, why)
           \/ \E r \in Requests : \E i \in Row : Join(r, i)
           \/ \E i, j \in Row : MoveInto(i, j)
           \/ \E i, j \in Row : SwapRows(i, j)
           \/ UpdateState \/ Forward \/ Close \/ UNCHANGED tableVars
    BY DEF TableNext

\* The update names no added row once it is cleared.
LEMMA NoneAdded == DOMAIN <<>> = {}
    OBVIOUS

\* What close leaves: an empty table, and a record of every entry.
LEMMA CloseIs ==
    ASSUME BatchInv, Close
    PROVE  /\ entries' = [i \in Row |-> NoEntry] /\ records' \in [Requests -> Seq(Summaries)]
           /\ Booked'
<1>1. Table \in Tables /\ Books(Table) /\ Table.entries = entries /\ Table.live = tokens
    BY TableTyped DEF BatchInv, Booked, Table
<1>2. PICK t : t = Finish(Table, Row)
    OBVIOUS
<1>3. t.entries = [i \in Row |-> IF i \in Row THEN NoEntry ELSE entries[i]]
    BY <1>1, <1>2, FinishIs
<1>4. t \in Tables /\ t.live = tokens /\ Books(t) /\ \A r \in Cuts : Counted(t, r) = Counted(Table, r)
    BY <1>1, <1>2, FinishKeepsBooks DEF Same
<1>5. entries' = t.entries /\ records' = t.records /\ tokens' = tokens /\ stays' = stays /\ added' = added
    BY <1>2 DEF Close, batchVars, updateVars
<1>6. t = Table'
    BY <1>4, <1>5 DEF Table, Tables
<1>7. \A r \in Cuts : stays'[r] = Counted(t, r) + (IF IsAdded(r) THEN 1 ELSE 0) /\ (IsAdded(r)' <=> IsAdded(r))
    BY <1>4, <1>5 DEF BatchInv, Booked, IsAdded
<1>8. Booked'
    BY <1>4, <1>6, <1>7 DEF Booked
<1>. QED
    BY <1>3, <1>4, <1>5, <1>8 DEF Tables

\* Every step keeps the types.
LEMMA TypesKept ==
    ASSUME BatchInv, [TableNext]_tableVars
    PROVE  TableTypeOK'
<1>. USE DEF batchVars, updateVars
<1>1. TableTypeOK
    BY DEF BatchInv
<1>2. ASSUME NEW r \in Requests, NEW why \in {"over", "evicted"}, Leave(r, why) PROVE TableTypeOK'
    <2>1. PICK i \in Row : batch' = [batch EXCEPT ![i] = Empty] /\ removed' = removed \cup {i}
        BY <1>2 DEF Leave
    <2>. QED
        BY <1>1, <1>2, <2>1 DEF Leave, TableTypeOK
<1>3. ASSUME NEW r \in Requests, NEW i \in Row, Join(r, i) PROVE TableTypeOK'
    <2>1. stays[r] < MaxStays /\ stays[r] \in 0 .. MaxStays
        BY <1>1, <1>3 DEF Join, BatchInv, Seated, TableTypeOK
    <2>2. stays[r] + 1 \in 0 .. MaxStays
        BY <2>1, WarmAssumption
    <2>3. DOMAIN added' = DOMAIN added \cup {i} /\ \A j \in DOMAIN added' : added'[j] = IF j = i THEN r ELSE added[j]
        BY <1>3 DEF Join
    <2>4. stays' \in [Requests -> 0 .. MaxStays]
        BY <1>1, <1>3, <2>2 DEF Join, TableTypeOK
    <2>5. DOMAIN added' \subseteq Row /\ \A j \in DOMAIN added' : added'[j] \in Requests
        BY <1>1, <2>3 DEF TableTypeOK
    <2>. QED
        BY <1>1, <1>3, <2>4, <2>5 DEF Join, Listed, TableTypeOK
<1>4. ASSUME NEW i \in Row, NEW j \in Row, MoveInto(i, j) PROVE TableTypeOK'
    <2>1. [from |-> i, to |-> j, swap |-> FALSE] \in Moves
        BY DEF Moves
    <2>2. moved' \in Seq(Moves)
        BY <1>1, <1>4, <2>1 DEF MoveInto, TableTypeOK
    <2>. QED
        BY <1>1, <1>4, <2>2 DEF MoveInto, Listed, TableTypeOK
<1>5. ASSUME NEW i \in Row, NEW j \in Row, SwapRows(i, j) PROVE TableTypeOK'
    <2>1. [from |-> i, to |-> j, swap |-> TRUE] \in Moves
        BY DEF Moves
    <2>2. moved' \in Seq(Moves)
        BY <1>1, <1>5, <2>1 DEF SwapRows, TableTypeOK
    <2>. QED
        BY <1>1, <1>5, <2>2 DEF SwapRows, TableTypeOK
<1>6. CASE UpdateState
    <2>1. entries' \in [Row -> Entries] /\ records' \in [Requests -> Seq(Summaries)]
        BY <1>6, UpdateIs
    <2>2. DOMAIN added' = {} /\ moved' \in Seq(Moves)
        BY <1>6 DEF UpdateState
    <2>3. phase' = "forward" /\ removed' = {} /\ UNCHANGED <<batchVars, sampled>>
        BY <1>6 DEF UpdateState
    <2>. QED
        BY <1>1, <2>1, <2>2, <2>3 DEF TableTypeOK
<1>7. CASE Forward
    <2>1. tokens' \in [Requests -> 0 .. MaxTokens]
        <3>1. ASSUME NEW r \in Requests PROVE tokens'[r] \in 0 .. MaxTokens
            <4>1. tokens[r] \in 0 .. MaxTokens /\ MaxTokens \in Nat
                BY <1>1, WarmAssumption DEF TableTypeOK
            <4>2. CASE \A i \in Row : batch[i] # r
                BY <1>7, <4>1, <4>2, ForwardIs
            <4>3. CASE \E i \in Row : batch[i] = r
                <5>1. tokens'[r] = tokens[r] + 1 /\ tokens[r] < MaxTokens
                    BY <1>7, <4>3, ForwardIs
                <5>. QED
                    BY <4>1, <5>1
            <4>. QED
                BY <4>2, <4>3
        <3>2. tokens' = [r \in Requests |-> tokens'[r]]
            BY <1>7 DEF Forward
        <3>. QED
            BY <3>1, <3>2
    <2>2. \A i \in Row : entries[i] \in Entries
        BY <1>1 DEF TableTypeOK
    <2>3. sampled' \in [Requests -> Seq(Range(Signature) \cup {Std})]
        <3>1. ASSUME NEW r \in Requests PROVE sampled'[r] \in Seq(Range(Signature) \cup {Std})
            <4>1. sampled[r] \in Seq(Range(Signature) \cup {Std})
                BY <1>1 DEF TableTypeOK
            <4>2. CASE \A i \in Row : batch[i] # r
                BY <1>7, <4>1, <4>2, ForwardIs
            <4>3. CASE \E i \in Row : batch[i] = r
                <5>1. PICK i \in Row : sampled'[r] = Append(sampled[r],
                           IF Warm(entries[i]) THEN Signature[entries[i].request] ELSE Std)
                    BY <1>7, <4>3, ForwardIs
                <5>2. PICK d : d = IF Warm(entries[i]) THEN Signature[entries[i].request] ELSE Std
                    OBVIOUS
                <5>3. Warm(entries[i]) => entries[i].request \in DOMAIN Signature
                    BY <2>2, CutsAreRequests, RequestsAssumption, EntryIs DEF Warm
                <5>4. d \in Range(Signature) \cup {Std}
                    BY <5>2, <5>3 DEF Range
                <5>. QED
                    BY <4>1, <5>1, <5>2, <5>4
            <4>. QED
                BY <4>2, <4>3
        <3>2. sampled' = [r \in Requests |-> sampled'[r]]
            BY <1>7 DEF Forward
        <3>. QED
            BY <3>1, <3>2
    <2>4. entries' \in [Row -> Entries]
        <3>1. ASSUME NEW i \in Row PROVE entries'[i] \in Entries
            <4>1. entries'[i] = entries[i] \/ (entries[i] # NoEntry /\ entries'[i] = [entries[i] EXCEPT !.steps = @ + 1])
                BY <1>7 DEF Forward, Warm
            <4>2. ASSUME NEW e \in [request : Cuts, steps : Nat]
                  PROVE  [e EXCEPT !.steps = @ + 1] \in [request : Cuts, steps : Nat]
                OBVIOUS
            <4>3. entries[i] # NoEntry => entries[i] \in [request : Cuts, steps : Nat]
                BY <2>2 DEF Entries
            <4>4. [request : Cuts, steps : Nat] \subseteq Entries
                BY DEF Entries
            <4>. QED
                BY <2>2, <4>1, <4>2, <4>3, <4>4
        <3>2. entries' = [i \in Row |-> entries'[i]]
            BY <1>7 DEF Forward
        <3>. QED
            BY <3>1, <3>2
    <2>5. standing' \in [Requests -> {"waiting", "running", "evicted", "over"}]
        BY <1>1, <1>7 DEF Forward, TableTypeOK
    <2>6. phase' = "schedule" /\ UNCHANGED <<batch, stays, updateVars, records>>
        BY <1>7 DEF Forward
    <2>. QED
        BY <1>1, <2>1, <2>3, <2>4, <2>5, <2>6 DEF TableTypeOK
<1>8. CASE Close
    <2>1. entries' = [i \in Row |-> NoEntry] /\ records' \in [Requests -> Seq(Summaries)]
        BY <1>8, CloseIs
    <2>2. entries' \in [Row -> Entries]
        BY <2>1 DEF Entries
    <2>3. phase' = "closed" /\ UNCHANGED <<batchVars, updateVars, sampled>>
        BY <1>8 DEF Close
    <2>. QED
        BY <1>1, <2>1, <2>2, <2>3 DEF TableTypeOK
<1>9. CASE UNCHANGED tableVars
    BY <1>1, <1>9 DEF TableTypeOK, tableVars
<1>. QED
    BY <1>2, <1>3, <1>4, <1>5, <1>6, <1>7, <1>8, <1>9, Steps

\* Every step keeps each request on one row at most, and there exactly while it runs.
LEMMA SeatedKept ==
    ASSUME BatchInv, [TableNext]_tableVars
    PROVE  Seated'
<1>. USE CutsAreRequests DEF batchVars, updateVars
<1>1. TableTypeOK /\ Seated /\ \A i \in Row : batch[i] \in Requests \cup {Empty}
    BY DEF BatchInv, TableTypeOK
<1>2. ASSUME NEW r \in Requests, NEW why \in {"over", "evicted"}, Leave(r, why) PROVE Seated'
    <2>1. PICK i \in Row : batch[i] = r /\ batch' = [batch EXCEPT ![i] = Empty]
        BY <1>2 DEF Leave
    <2>2. \A j \in Row : batch'[j] = IF j = i THEN Empty ELSE batch[j]
        BY <1>1, <2>1 DEF TableTypeOK
    <2>3. \A q \in Requests : standing'[q] = IF q = r THEN why ELSE standing[q]
        BY <1>1, <1>2 DEF Leave, TableTypeOK
    <2>4. stays' = stays /\ (why = "evicted" => stays[r] < MaxStays)
        BY <1>2 DEF Leave
    <2>5. \A j \in Row : batch[j] = r => j = i
        BY <1>1, <2>1 DEF Seated
    <2>6. \A j, k \in Row : batch'[j] = batch'[k] /\ batch'[j] # Empty => j = k
        BY <1>1, <2>2 DEF Seated
    <2>7. \A j \in Row : batch'[j] # Empty => standing'[batch'[j]] = "running"
        BY <1>1, <2>2, <2>3, <2>5 DEF Seated
    <2>8. \A q \in Requests : standing'[q] = "running" => \E j \in Row : batch'[j] = q
        BY <1>1, <2>1, <2>2, <2>3 DEF Seated
    <2>9. \A q \in Requests : standing'[q] \in {"waiting", "evicted"} => stays'[q] < MaxStays
        BY <1>1, <2>3, <2>4 DEF Seated
    <2>. QED
        BY <2>6, <2>7, <2>8, <2>9 DEF Seated
<1>3. ASSUME NEW r \in Requests, NEW i \in Row, Join(r, i) PROVE Seated'
    <2>1. batch[i] = Empty /\ standing[r] = "waiting"
        BY <1>3 DEF Join
    <2>2. \A j \in Row : batch'[j] = IF j = i THEN r ELSE batch[j]
        BY <1>1, <1>3 DEF Join, TableTypeOK
    <2>3. \A q \in Requests : standing'[q] = IF q = r THEN "running" ELSE standing[q]
        BY <1>1, <1>3 DEF Join, TableTypeOK
    <2>4. \A q \in Requests : q # r => stays'[q] = stays[q]
        BY <1>1, <1>3 DEF Join, TableTypeOK
    <2>5. \A j \in Row : batch[j] # r
        BY <1>1, <2>1 DEF Seated
    <2>6. \A j, k \in Row : batch'[j] = batch'[k] /\ batch'[j] # Empty => j = k
        BY <1>1, <2>2, <2>5 DEF Seated
    <2>7. \A j \in Row : batch'[j] # Empty => standing'[batch'[j]] = "running"
        BY <1>1, <2>2, <2>3 DEF Seated
    <2>8. \A q \in Requests : standing'[q] = "running" => \E j \in Row : batch'[j] = q
        <3>. SUFFICES ASSUME NEW q \in Requests, standing'[q] = "running" PROVE \E j \in Row : batch'[j] = q
            OBVIOUS
        <3>1. CASE q = r
            BY <2>2, <3>1
        <3>2. CASE q # r
            <4>1. PICK j \in Row : batch[j] = q
                BY <1>1, <2>3, <3>2 DEF Seated
            <4>. QED
                BY <2>1, <2>2, <4>1
        <3>. QED
            BY <3>1, <3>2
    <2>9. \A q \in Requests : standing'[q] \in {"waiting", "evicted"} => stays'[q] < MaxStays
        BY <1>1, <2>3, <2>4 DEF Seated
    <2>. QED
        BY <2>6, <2>7, <2>8, <2>9 DEF Seated
<1>4. ASSUME NEW i \in Row, NEW j \in Row, MoveInto(i, j) PROVE Seated'
    <2>1. standing' = standing /\ stays' = stays /\ batch[j] = Empty /\ batch[i] # Empty
        BY <1>4 DEF MoveInto
    <2>2. \A k \in Row : batch'[k] = IF k = i THEN Empty ELSE IF k = j THEN batch[i] ELSE batch[k]
        BY <1>1, <1>4 DEF MoveInto, TableTypeOK
    <2>6. \A k, l \in Row : batch'[k] = batch'[l] /\ batch'[k] # Empty => k = l
        BY <1>1, <2>1, <2>2 DEF Seated
    <2>7. \A k \in Row : batch'[k] # Empty => standing'[batch'[k]] = "running"
        BY <1>1, <2>1, <2>2 DEF Seated
    <2>8. \A q \in Requests : standing'[q] = "running" => \E k \in Row : batch'[k] = q
        <3>. SUFFICES ASSUME NEW q \in Requests, standing[q] = "running" PROVE \E k \in Row : batch'[k] = q
            BY <2>1
        <3>1. PICK k \in Row : batch[k] = q
            BY <1>1 DEF Seated
        <3>2. CASE k = i
            BY <2>1, <2>2, <3>1, <3>2
        <3>3. CASE k # i
            BY <2>1, <2>2, <3>1, <3>3
        <3>. QED
            BY <3>2, <3>3
    <2>. QED
        BY <1>1, <2>1, <2>6, <2>7, <2>8 DEF Seated
<1>5. ASSUME NEW i \in Row, NEW j \in Row, SwapRows(i, j) PROVE Seated'
    <2>1. standing' = standing /\ stays' = stays
        BY <1>5 DEF SwapRows
    <2>2. \A k \in Row : batch'[k] = IF k = j THEN batch[i] ELSE IF k = i THEN batch[j] ELSE batch[k]
        BY <1>1, <1>5 DEF SwapRows, TableTypeOK
    <2>6. \A k, l \in Row : batch'[k] = batch'[l] /\ batch'[k] # Empty => k = l
        BY <1>1, <2>2 DEF Seated
    <2>7. \A k \in Row : batch'[k] # Empty => standing'[batch'[k]] = "running"
        BY <1>1, <2>1, <2>2 DEF Seated
    <2>8. \A q \in Requests : standing'[q] = "running" => \E k \in Row : batch'[k] = q
        <3>. SUFFICES ASSUME NEW q \in Requests, standing[q] = "running" PROVE \E k \in Row : batch'[k] = q
            BY <2>1
        <3>1. PICK k \in Row : batch[k] = q
            BY <1>1 DEF Seated
        <3>2. CASE k = i
            BY <2>2, <3>1, <3>2
        <3>3. CASE k # i
            BY <2>2, <3>1, <3>3
        <3>. QED
            BY <3>2, <3>3
    <2>. QED
        BY <1>1, <2>1, <2>6, <2>7, <2>8 DEF Seated
<1>6. CASE UpdateState \/ Close \/ UNCHANGED tableVars
    <2>1. batch' = batch /\ standing' = standing /\ stays' = stays
        BY <1>6 DEF UpdateState, Close, tableVars
    <2>. QED
        BY <1>1, <2>1 DEF Seated
<1>7. CASE Forward
    <2>1. batch' = batch /\ stays' = stays
        BY <1>7 DEF Forward
    <2>2. \A q \in Requests : standing'[q] = IF standing[q] = "evicted" THEN "waiting" ELSE standing[q]
        BY <1>7 DEF Forward
    <2>3. \A i \in Row : batch[i] # Empty => standing'[batch[i]] = "running"
        BY <1>1, <2>2 DEF Seated
    <2>4. \A q \in Requests : standing'[q] = "running" => \E i \in Row : batch[i] = q
        BY <1>1, <2>2 DEF Seated
    <2>5. \A q \in Requests : standing'[q] \in {"waiting", "evicted"} => stays[q] < MaxStays
        BY <1>1, <2>2 DEF Seated
    <2>. QED
        BY <1>1, <2>1, <2>3, <2>4, <2>5 DEF Seated
<1>. QED
    BY <1>2, <1>3, <1>4, <1>5, <1>6, <1>7, Steps

\* Every step keeps the added rows apart: each names a request of its own, which the table does not hold.
LEMMA IncomingKept ==
    ASSUME BatchInv, [TableNext]_tableVars
    PROVE  Incoming'
<1>. USE CutsAreRequests DEF batchVars, updateVars
<1>1. TableTypeOK /\ Seated /\ Incoming /\ Mirrored
    BY DEF BatchInv
<1>0. \A i \in Row : entries[i].request \in Cuts \cup {Empty}
    BY <1>1, EntryIs DEF TableTypeOK
<1>2. ASSUME NEW r \in Requests, NEW why \in {"over", "evicted"}, Leave(r, why) PROVE Incoming'
    <2>1. /\ \A q \in Requests : standing'[q] = IF q = r THEN why ELSE standing[q]
          /\ DOMAIN added = {} /\ phase' = "schedule"
          /\ entries' = entries /\ added' = added /\ moved' = moved
        BY <1>1, <1>2 DEF Leave, TableTypeOK
    <2>. QED
        BY <1>0, <1>1, <2>1 DEF Incoming
<1>3. ASSUME NEW r \in Requests, NEW i \in Row, Join(r, i) PROVE Incoming'
    <2>1. /\ \A q \in Requests : standing'[q] = IF q = r THEN "running" ELSE standing[q]
          /\ DOMAIN added' = DOMAIN added \cup {i}
          /\ \A j \in DOMAIN added' : added'[j] = IF j = i THEN r ELSE added[j]
          /\ phase' = "schedule" /\ entries' = entries /\ moved' = moved /\ standing[r] = "waiting"
        BY <1>1, <1>3 DEF Join, TableTypeOK
    <2>2. \A j \in DOMAIN added : added[j] # r /\ added[j] \in Requests
        BY <1>1, <2>1 DEF Incoming, TableTypeOK
    <2>3. \A j \in Row : entries[j].request # r
        BY <1>1, <2>1 DEF Incoming
    <2>4. \A j \in DOMAIN added' : j # i => j \in DOMAIN added /\ added'[j] = added[j]
        BY <2>1
    <2>5. \A j \in DOMAIN added' : standing'[added'[j]] = "running"
        BY <1>1, <2>1, <2>2, <2>4 DEF Incoming
    <2>6. \A j, k \in DOMAIN added' : added'[j] = added'[k] => j = k
        BY <1>1, <2>1, <2>2, <2>4 DEF Incoming
    <2>7. \A j \in Row : entries[j].request # Empty => standing'[entries[j].request] # "waiting"
        BY <1>0, <1>1, <2>1 DEF Incoming
    <2>8. \A j \in Row : \A k \in DOMAIN added' : added'[k] \in Cuts => entries[j].request # added'[k]
        BY <1>1, <2>1, <2>3, <2>4 DEF Incoming
    <2>9. \A n \in DOMAIN moved : moved[n].from # moved[n].to
        BY <1>1 DEF Incoming
    <2>. QED
        BY <2>1, <2>5, <2>6, <2>7, <2>8, <2>9 DEF Incoming
<1>4. ASSUME NEW i \in Row, NEW j \in Row, MoveInto(i, j) \/ SwapRows(i, j) PROVE Incoming'
    <2>1. /\ standing' = standing /\ added' = added /\ entries' = entries /\ phase' = "schedule"
          /\ \E sw \in BOOLEAN : moved' = Append(moved, [from |-> i, to |-> j, swap |-> sw])
          /\ moved \in Seq(Moves)
          /\ i < j \/ j < i
        BY <1>1, <1>4 DEF MoveInto, SwapRows, TableTypeOK
    <2>2. i # j
        BY <2>1 DEF Row
    <2>3. \A n \in DOMAIN moved' : moved'[n].from # moved'[n].to
        <3>1. PICK sw \in BOOLEAN : moved' = Append(moved, [from |-> i, to |-> j, swap |-> sw])
            BY <2>1
        <3>2. PICK m : m = [from |-> i, to |-> j, swap |-> sw]
            OBVIOUS
        <3>3. m \in Moves /\ m.from = i /\ m.to = j /\ moved' = Append(moved, m)
            BY <3>1, <3>2 DEF Moves
        <3>4. \A n \in DOMAIN moved' : moved'[n] = m \/ (n \in DOMAIN moved /\ moved'[n] = moved[n])
            BY <2>1, <3>3
        <3>. QED
            BY <1>1, <2>2, <3>3, <3>4 DEF Incoming
    <2>. QED
        BY <1>1, <2>1, <2>3 DEF Incoming
<1>5. CASE UpdateState
    <2>1. /\ removed' = {} /\ DOMAIN added' = {} /\ moved' = <<>> /\ DOMAIN moved' = {}
          /\ standing' = standing
        BY <1>5 DEF UpdateState
    <2>2. \A i \in Row : entries'[i].request = Mask(batch[i])
        BY <1>5, UpdateIs
    <2>3. \A i \in Row : entries'[i].request # Empty => standing[entries'[i].request] # "waiting"
        BY <1>1, <2>2 DEF Mask, Seated
    <2>. QED
        BY <2>1, <2>3 DEF Incoming
<1>6. CASE Forward
    <2>1. /\ phase' = "schedule" /\ removed' = removed /\ added' = added /\ moved' = moved
          /\ DOMAIN added = {} /\ phase = "forward"
          /\ \A q \in Requests : standing'[q] = IF standing[q] = "evicted" THEN "waiting" ELSE standing[q]
        BY <1>1, <1>6 DEF Forward, Incoming
    <2>2. ASSUME NEW i \in Row PROVE entries'[i].request = entries[i].request
        <3>1. entries'[i] = entries[i] \/ (entries[i] # NoEntry /\ entries'[i] = [entries[i] EXCEPT !.steps = @ + 1])
            BY <1>6 DEF Forward, Warm
        <3>2. entries[i] # NoEntry => entries[i] \in [request : Cuts, steps : Nat]
            BY <1>1 DEF TableTypeOK, Entries
        <3>. QED
            BY <3>1, <3>2
    <2>3. \A i \in Row : entries[i].request # Empty => standing[entries[i].request] = "running"
        BY <1>1, <2>1 DEF Mirrored, Mask, Seated
    <2>4. \A i \in Row : entries'[i].request # Empty => standing'[entries'[i].request] # "waiting"
        BY <1>0, <2>1, <2>2, <2>3
    <2>. QED
        BY <1>1, <2>1, <2>4 DEF Incoming
<1>7. CASE Close
    <2>1. entries' = [i \in Row |-> NoEntry] /\ \A i \in Row : entries'[i].request = Empty
        BY <1>7, CloseIs DEF NoEntry
    <2>2. phase' = "closed" /\ added' = added /\ moved' = moved /\ standing' = standing
        BY <1>7 DEF Close
    <2>. QED
        BY <1>1, <2>1, <2>2 DEF Incoming
<1>8. CASE UNCHANGED tableVars
    BY <1>1, <1>8 DEF Incoming, tableVars
<1>. QED
    BY <1>2, <1>3, <1>4, <1>5, <1>6, <1>7, <1>8, Steps

\* Only apply_batch_update starts a forward pass, and it leaves the table a mirror of the batch.
LEMMA MirroredKept ==
    ASSUME BatchInv, [TableNext]_tableVars
    PROVE  Mirrored'
<1>. USE DEF batchVars, updateVars
<1>1. CASE UpdateState
    <2>1. batch' = batch
        BY <1>1 DEF UpdateState
    <2>. QED
        BY <1>1, <2>1, UpdateIs DEF Mirrored
<1>2. CASE UNCHANGED tableVars
    BY <1>2 DEF Mirrored, BatchInv, tableVars
<1>3. CASE phase' # "forward"
    BY <1>3 DEF Mirrored
<1>. QED
    BY <1>1, <1>2, <1>3, Steps DEF Leave, Join, MoveInto, SwapRows, Forward, Close

\* Every step keeps the noted moves replayable.
LEMMA ReplayableKept ==
    ASSUME BatchInv, [TableNext]_tableVars
    PROVE  Replayable'
<1>. USE DEF batchVars, updateVars
<1>1. Replayable /\ moved \in Seq(Moves)
    BY DEF BatchInv, TableTypeOK
<1>2. ASSUME NEW i \in Row, NEW j \in Row, MoveInto(i, j) \/ SwapRows(i, j) PROVE Replayable'
    <2>1. /\ \E sw \in BOOLEAN : moved' = Append(moved, [from |-> i, to |-> j, swap |-> sw])
          /\ i < j \/ j < i
        BY <1>2 DEF MoveInto, SwapRows
    <2>2. PICK sw \in BOOLEAN : moved' = Append(moved, [from |-> i, to |-> j, swap |-> sw])
        BY <2>1
    <2>3. PICK m : m = [from |-> i, to |-> j, swap |-> sw]
        OBVIOUS
    <2>4. i # j
        BY <2>1 DEF Row
    <2>5. m \in Moves /\ m.from # m.to /\ moved' = Append(moved, m)
        BY <2>2, <2>3, <2>4 DEF Moves
    <2>. QED
        BY <1>1, <2>5, ReplayOne
<1>3. CASE moved' = moved
    BY <1>1, <1>3, ReplayStays
<1>4. CASE moved' = <<>>
    <2>1. \A s \in Tables : Same(s, s)
        BY DEF Same
    <2>. QED
        BY <1>4, <2>1, ReplayNone DEF Replayable
<1>. QED
    BY <1>2, <1>3, <1>4, Steps DEF Leave, Join, UpdateState, Forward, Close, tableVars

\* Before any move, the rows that are gone are free and the others show their request.
Flat == /\ \A i \in Gone : batch[i] = Empty
        /\ \A i \in Row \ Gone : Start(i) = Mask(batch[i])

\* An update without moves says of each row whether it is gone, or whose it is.
LEMMA FlatFrom ==
    ASSUME TableTypeOK, Followed, phase = "schedule", moved = <<>>
    PROVE  Flat
<1>1. Untouched = Gone
    BY NoneAdded DEF Untouched
<1>. DEFINE s == [entries |-> [i \in Row |-> IF Start(i) \in Cuts THEN [request |-> Start(i), steps |-> 0]
                                             ELSE NoEntry],
                  records |-> [r \in Requests |-> <<>>], live |-> [r \in Requests |-> 0]]
<1>2. s \in Tables
    <2>1. <<>> \in Seq(Summaries)
        OBVIOUS
    <2>2. [r \in Requests |-> <<>>] \in [Requests -> Seq(Summaries)]
        BY <2>1
    <2>3. [r \in Requests |-> 0] \in [Requests -> Nat]
        OBVIOUS
    <2>4. s.entries \in [Row -> Entries]
        BY DEF Entries
    <2>. QED
        BY <2>2, <2>3, <2>4 DEF Tables
<1>3. \A i \in Row : Start(i) \in Cuts \cup {Empty}
    <2>1. \A i \in Row : entries[i].request \in Cuts \cup {Empty}
        BY EntryIs DEF TableTypeOK
    <2>. QED
        BY <2>1 DEF Start, Mask
<1>4. \A i \in Row : s.entries[i].request = Start(i)
    <2>. SUFFICES ASSUME NEW i \in Row PROVE s.entries[i].request = Start(i)
        OBVIOUS
    <2>1. CASE Start(i) \in Cuts
        BY <2>1
    <2>2. CASE Start(i) \notin Cuts
        <3>1. s.entries[i] = NoEntry /\ Start(i) = Empty
            BY <1>3, <2>2
        <3>. QED
            BY <3>1 DEF NoEntry
    <2>. QED
        BY <2>1, <2>2
<1>. HIDE DEF s
<1>5. Replay(s, moved) = s
    BY ReplayNone
<1>6. \A i \in Row : s.entries[i].request = IF i \in Untouched THEN s.entries[i].request ELSE Mask(batch[i])
    BY <1>2, <1>4, <1>5 DEF Followed
<1>. QED
    BY <1>1, <1>4, <1>6 DEF Flat, Followed

\* The converse of FlatFrom, for the state after a step.
LEMMA FlatGives ==
    ASSUME moved' = <<>>, Flat'
    PROVE  Followed'
<1>1. Untouched' = Gone'
    BY NoneAdded DEF Untouched
<1>2. \A s : Replay(s, moved') = s
    BY ReplayNone
<1>. QED
    BY <1>1, <1>2 DEF Flat, Followed

\* One more move, noted in the update and made in the batch.
LEMMA FollowedOne ==
    ASSUME TableTypeOK, Followed, Replayable, phase = "schedule",
           NEW m \in Moves, m.from # m.to, moved' = Append(moved, m),
           entries' = entries, added' = added,
           removed' = removed \/ removed' = removed \ {m.to},
           batch[m.from] # Empty, m.swap => batch[m.to] # Empty,
           \A i \in Row : batch'[i] = IF i = m.to THEN batch[m.from]
                                      ELSE IF i = m.from THEN (IF m.swap THEN batch[m.to] ELSE Empty)
                                      ELSE batch[i]
    PROVE  Followed'
<1>1. m.from \in Row /\ m.to \in Row /\ m.swap \in BOOLEAN /\ moved \in Seq(Moves)
    BY DEF Moves, TableTypeOK
<1>2. Gone' \subseteq Gone /\ Gone \ {m.to} \subseteq Gone'
    BY DEF Gone
<1>3. \A i \in Row : i \in Untouched' <=> i \in Untouched /\ i # m.to
    <2>1. DOMAIN moved' = DOMAIN moved \cup {Len(moved) + 1}
        BY <1>1
    <2>2. moved'[Len(moved) + 1] = m /\ \A n \in DOMAIN moved : moved'[n] = moved[n]
        BY <1>1
    <2>3. (\A n \in DOMAIN moved' : moved'[n].to # m.to) <=> FALSE
        BY <2>1, <2>2
    <2>4. ASSUME NEW i \in Row, i # m.to
          PROVE  (\A n \in DOMAIN moved' : moved'[n].to # i) <=> (\A n \in DOMAIN moved : moved[n].to # i)
        BY <2>1, <2>2, <2>4
    <2>5. \A i \in Row : i # m.to => (i \in Gone' <=> i \in Gone)
        BY <1>2
    <2>6. ASSUME NEW i \in Row, i # m.to PROVE i \in Untouched' <=> i \in Untouched
        BY <2>4, <2>5, <2>6 DEF Untouched
    <2>7. m.to \notin Untouched'
        BY <2>3 DEF Untouched
    <2>. QED
        BY <2>6, <2>7
<1>4. Gone \subseteq Row /\ Gone' \subseteq Row
    BY <1>2 DEF Gone, TableTypeOK
<1>5. \A i \in Untouched : i \in Row /\ batch[i] = Empty
    BY <1>4 DEF Untouched, Followed
<1>6. m.from \notin Untouched
    BY <1>5
<1>7. \A i \in Untouched' : batch'[i] = Empty
    <2>1. \A i \in Untouched' : i \in Row
        BY <1>4 DEF Untouched
    <2>. QED
        BY <1>3, <1>5, <1>6, <2>1
<1>8. ASSUME NEW s \in Tables, \A i \in Row \ Gone' : s.entries[i].request = Start(i)', NEW i \in Row
      PROVE  Replay(s, moved').entries[i].request = IF i \in Untouched' THEN s.entries[i].request ELSE Mask(batch'[i])
    <2>1. \A k \in Row \ Gone : s.entries[k].request = Start(k)
        BY <1>2, <1>8 DEF Start
    <2>2. PICK t : t = Replay(s, moved)
        OBVIOUS
    <2>3. t \in Tables
        BY <2>2 DEF Replayable, Same
    <2>4. \A k \in Row : t.entries[k].request = IF k \in Untouched THEN s.entries[k].request ELSE Mask(batch[k])
        BY <2>1, <2>2 DEF Followed
    <2>5. Replay(s, moved') = Move(t, m)
        BY <1>1, <2>2, ReplayAppend
    <2>6. Move(t, m).entries[i] = IF i = m.to THEN t.entries[m.from]
                                  ELSE IF i = m.from THEN (IF m.swap THEN t.entries[m.to] ELSE NoEntry)
                                  ELSE t.entries[i]
        <3>1. Move(t, m).entries = [k \in Row |->
                  IF k = m.to THEN t.entries[m.from]
                  ELSE IF k = m.from THEN (IF m.swap THEN t.entries[m.to] ELSE NoEntry)
                  ELSE t.entries[k]]
            BY <2>3, MoveIs
        <3>. QED
            BY <3>1
    <2>7. CASE i = m.to
        <3>1. Move(t, m).entries[i].request = Mask(batch[m.from])
            BY <1>1, <1>6, <2>4, <2>6, <2>7
        <3>. QED
            BY <1>3, <2>5, <2>7, <3>1
    <2>8. CASE i = m.from /\ m.swap
        <3>1. m.to \notin Untouched
            BY <1>5, <2>8
        <3>2. Move(t, m).entries[i].request = Mask(batch[m.to])
            BY <1>1, <2>4, <2>6, <2>8, <3>1
        <3>. QED
            BY <1>3, <1>6, <2>5, <2>8, <3>2
    <2>9. CASE i = m.from /\ ~m.swap
        <3>1. Move(t, m).entries[i] = NoEntry
            BY <2>6, <2>9
        <3>2. Mask(batch'[i]) = Empty
            BY <2>9, CutsAreRequests DEF Mask
        <3>. QED
            BY <1>3, <1>6, <2>5, <2>9, <3>1, <3>2 DEF NoEntry
    <2>10. CASE i # m.from /\ i # m.to
        <3>1. Move(t, m).entries[i] = t.entries[i] /\ batch'[i] = batch[i]
            BY <2>6, <2>10
        <3>. QED
            BY <1>3, <2>4, <2>5, <2>10, <3>1
    <2>. QED
        BY <2>7, <2>8, <2>9, <2>10
<1>. QED
    BY <1>7, <1>8 DEF Followed

\* Every step that changes the batch notes it in the update.
LEMMA FollowedKept ==
    ASSUME BatchInv, [TableNext]_tableVars
    PROVE  Followed'
<1>. USE CutsAreRequests DEF batchVars, updateVars
<1>1. TableTypeOK /\ Followed /\ Replayable
    BY DEF BatchInv
<1>2. ASSUME NEW r \in Requests, NEW why \in {"over", "evicted"}, Leave(r, why) PROVE Followed'
    <2>1. PICK i \in Row : batch' = [batch EXCEPT ![i] = Empty] /\ removed' = removed \cup {i}
        BY <1>2 DEF Leave
    <2>2. /\ \A j \in Row : batch'[j] = IF j = i THEN Empty ELSE batch[j]
          /\ DOMAIN added = {} /\ added' = added /\ entries' = entries /\ moved = <<>> /\ moved' = <<>>
          /\ phase = "schedule"
        BY <1>1, <1>2, <2>1 DEF Leave, TableTypeOK
    <2>3. Flat
        BY <1>1, <2>2, FlatFrom
    <2>4. Gone = removed /\ Gone' = removed \cup {i} /\ removed \subseteq Row
        BY <1>1, <2>1, <2>2 DEF Gone, TableTypeOK
    <2>5. \A j \in Row : Start(j)' = Start(j)
        BY <2>2 DEF Start
    <2>6. \A j \in Gone' : batch'[j] = Empty
        BY <2>2, <2>3, <2>4 DEF Flat
    <2>7. \A j \in Row \ Gone' : Start(j)' = Mask(batch'[j])
        BY <2>2, <2>3, <2>4, <2>5 DEF Flat
    <2>8. Flat'
        BY <2>6, <2>7 DEF Flat
    <2>. QED
        BY <2>2, <2>8, FlatGives
<1>3. ASSUME NEW r \in Requests, NEW i \in Row, Join(r, i) PROVE Followed'
    <2>1. /\ \A j \in Row : batch'[j] = IF j = i THEN r ELSE batch[j]
          /\ DOMAIN added' = DOMAIN added \cup {i}
          /\ \A j \in DOMAIN added' : added'[j] = IF j = i THEN r ELSE added[j]
          /\ entries' = entries /\ moved = <<>> /\ moved' = <<>> /\ phase = "schedule"
          /\ removed' = removed \/ removed' = removed \ {i}
        BY <1>1, <1>3 DEF Join, Listed, TableTypeOK
    <2>2. Flat
        BY <1>1, <2>1, FlatFrom
    <2>3. Gone' = Gone \ {i} /\ Gone \subseteq Row
        BY <1>1, <2>1 DEF Gone, TableTypeOK
    <2>4. \A j \in Row : j # i => Start(j)' = Start(j)
        BY <2>1 DEF Start
    <2>5. Start(i)' = Mask(r) /\ batch'[i] = r
        BY <2>1 DEF Start
    <2>6. \A j \in Gone' : batch'[j] = Empty
        BY <2>1, <2>2, <2>3 DEF Flat
    <2>7. \A j \in Row \ Gone' : Start(j)' = Mask(batch'[j])
        <3>. SUFFICES ASSUME NEW j \in Row \ Gone' PROVE Start(j)' = Mask(batch'[j])
            OBVIOUS
        <3>1. CASE j = i
            BY <2>5, <3>1
        <3>2. CASE j # i
            BY <2>1, <2>2, <2>3, <2>4, <3>2 DEF Flat
        <3>. QED
            BY <3>1, <3>2
    <2>8. Flat'
        BY <2>6, <2>7 DEF Flat
    <2>. QED
        BY <2>1, <2>8, FlatGives
<1>4. ASSUME NEW i \in Row, NEW j \in Row, MoveInto(i, j) PROVE Followed'
    <2>1. PICK m : m = [from |-> i, to |-> j, swap |-> FALSE]
        OBVIOUS
    <2>2. /\ m \in Moves /\ m.from = i /\ m.to = j /\ ~m.swap
          /\ moved' = Append(moved, m)
        BY <1>4, <2>1 DEF Moves, MoveInto
    <2>3. /\ i # j /\ batch[i] # Empty /\ phase = "schedule"
          /\ entries' = entries /\ added' = added /\ (removed' = removed \/ removed' = removed \ {j})
        BY <1>4 DEF MoveInto, Listed
    <2>4. \A k \in Row : batch'[k] = IF k = j THEN batch[i] ELSE IF k = i THEN Empty ELSE batch[k]
        BY <1>1, <1>4, <2>3 DEF MoveInto, TableTypeOK
    <2>. QED
        BY <1>1, <2>2, <2>3, <2>4, FollowedOne
<1>5. ASSUME NEW i \in Row, NEW j \in Row, SwapRows(i, j) PROVE Followed'
    <2>1. PICK m : m = [from |-> i, to |-> j, swap |-> TRUE]
        OBVIOUS
    <2>2. /\ m \in Moves /\ m.from = i /\ m.to = j /\ m.swap
          /\ moved' = Append(moved, m)
        BY <1>5, <2>1 DEF Moves, SwapRows
    <2>3. /\ i < j /\ batch[i] # Empty /\ batch[j] # Empty /\ phase = "schedule"
          /\ entries' = entries /\ added' = added /\ removed' = removed
        BY <1>5 DEF SwapRows
    <2>4. i # j
        BY <2>3 DEF Row
    <2>5. \A k \in Row : batch'[k] = IF k = j THEN batch[i] ELSE IF k = i THEN batch[j] ELSE batch[k]
        BY <1>1, <1>5, <2>4 DEF SwapRows, TableTypeOK
    <2>. QED
        BY <1>1, <2>2, <2>3, <2>4, <2>5, FollowedOne
<1>6. CASE Forward
    <2>1. /\ removed' = {} /\ DOMAIN added' = {} /\ moved' = <<>> /\ batch' = batch /\ phase = "forward"
        BY <1>6 DEF Forward, BatchInv, Incoming
    <2>2. ASSUME NEW i \in Row PROVE entries'[i].request = entries[i].request
        <3>1. entries'[i] = entries[i] \/ (entries[i] # NoEntry /\ entries'[i] = [entries[i] EXCEPT !.steps = @ + 1])
            BY <1>6 DEF Forward, Warm
        <3>2. entries[i] # NoEntry => entries[i] \in [request : Cuts, steps : Nat]
            BY <1>1 DEF TableTypeOK, Entries
        <3>. QED
            BY <3>1, <3>2
    <2>3. Gone' = {} /\ \A i \in Row : Start(i)' = entries'[i].request
        BY <2>1 DEF Gone, Start
    <2>4. \A i \in Row : entries[i].request = Mask(batch[i])
        BY <2>1 DEF BatchInv, Mirrored
    <2>5. Flat'
        BY <2>1, <2>2, <2>3, <2>4 DEF Flat
    <2>. QED
        BY <2>1, <2>5, FlatGives
<1>7. CASE UNCHANGED tableVars
    BY <1>1, <1>7 DEF Followed, Untouched, Gone, Start, tableVars
<1>8. CASE UpdateState \/ Close
    BY <1>8 DEF UpdateState, Close, Followed
<1>. QED
    BY <1>2, <1>3, <1>4, <1>5, <1>6, <1>7, <1>8, Steps

\* One more token, counted if it comes after T_warm.
LEMMA OverOneMore ==
    ASSUME NEW a \in Nat, NEW b \in Nat, a <= b
    PROVE  Over(a, b + 1) = IF b >= TWarm THEN Over(a, b) + 1 ELSE Over(a, b)
<1>1. TWarm \in Nat
    BY WarmAssumption
<1>2. CASE b >= TWarm /\ a > TWarm
    BY <1>1, <1>2 DEF Over
<1>3. CASE b >= TWarm /\ ~(a > TWarm)
    BY <1>1, <1>3 DEF Over
<1>4. CASE ~(b >= TWarm)
    BY <1>1, <1>4 DEF Over
<1>. QED
    BY <1>2, <1>3, <1>4

\* A forward pass counts the step of a CUTS request exactly when its token comes after T_warm.
LEMMA ForwardKeepsBooks ==
    ASSUME BatchInv, Forward, NEW r \in Cuts
    PROVE  BooksOf(Table', r) /\ Counted(Table', r) = Counted(Table, r)
<1>. DEFINE s == Table
            t == Table'
<1>1. /\ TableTypeOK /\ BooksOf(s, r) /\ s \in Tables /\ t \in Tables /\ r \in Requests
      /\ \A i \in Row : entries[i].request = Mask(batch[i])
      /\ \A i \in Row : entries[i] \in Entries
    <2>1. TableTypeOK'
        BY TypesKept DEF TableNext
    <2>2. Table' \in Tables
        BY <2>1 DEF TableTypeOK, Table, Tables
    <2>. QED
        BY <2>2, TableTyped, CutsAreRequests DEF BatchInv, Booked, Books, Mirrored, Forward, TableTypeOK
<1>2. /\ s.entries = entries /\ s.records = records /\ s.live = tokens
      /\ t.entries = entries' /\ t.records = records /\ t.live = tokens'
    BY DEF Table, Forward
<1>. HIDE DEF s, t
<1>3. ASSUME NEW i \in Row
      PROVE  /\ entries'[i].request = entries[i].request
             /\ entries[i].request = r => entries'[i].steps =
                    IF tokens[r] >= TWarm THEN entries[i].steps + 1 ELSE entries[i].steps
    <2>1. CASE entries[i] = NoEntry
        <3>1. entries'[i] = entries[i]
            BY <2>1 DEF Forward, Warm
        <3>. QED
            BY <1>1, <2>1, <3>1, CutsAreRequests DEF NoEntry
    <2>2. CASE entries[i] # NoEntry
        <3>1. entries[i] \in [request : Cuts, steps : Nat]
            BY <1>1, <2>2 DEF Entries
        <3>2. entries[i].request = batch[i] /\ i \in Occupied
            BY <1>1, <3>1, CutsAreRequests DEF Mask, Occupied
        <3>3. entries'[i] = IF tokens[entries[i].request] >= TWarm THEN [entries[i] EXCEPT !.steps = @ + 1]
                            ELSE entries[i]
            BY <2>2, <3>2 DEF Forward, Warm
        <3>. QED
            BY <3>1, <3>3
    <2>. QED
        BY <2>1, <2>2
<1>4. Has(t, r) <=> Has(s, r)
    BY <1>2, <1>3 DEF Has
<1>5. OneRow(t, r)
    BY <1>1, <1>2, <1>3 DEF BooksOf, OneRow
<1>6. ToldWell(t, r) /\ ToldLast(t, r) = ToldLast(s, r)
    BY <1>1, <1>2 DEF BooksOf, ToldWell, ToldLast
<1>7. Counted(t, r) = Counted(s, r)
    BY <1>2, <1>4 DEF Counted
<1>8. tokens[r] \in Nat /\ records[r] \in Seq(Summaries)
    BY <1>1 DEF TableTypeOK
<1>9. ToldLast(s, r) \in Nat /\ ToldLast(s, r) <= tokens[r]
    <2>1. PICK n \in Nat : n = Len(records[r])
        BY <1>8
    <2>2. \A k \in 1 .. n : records[r][k] \in Summaries
        BY <1>8, <2>1
    <2>3. UpTo(records[r], n) \in Nat
        BY <2>2 DEF UpTo, Summaries
    <2>. QED
        BY <1>1, <1>2, <2>1, <2>3 DEF BooksOf, ToldSoFar, ToldLast
<1>10. CASE Has(s, r)
    <2>1. PICK i \in Row : entries[i].request = r
        BY <1>2, <1>10 DEF Has
    <2>2. batch[i] = r
        BY <1>1, <2>1, CutsAreRequests DEF Mask
    <2>3. tokens'[r] = tokens[r] + 1
        BY <1>1, <2>2, ForwardIs
    <2>4. ToldSoFar(t, r)
        <3>. SUFFICES ASSUME NEW n \in 0 .. Len(records[r]) PROVE UpTo(records[r], n) <= tokens[r] + 1
            BY <1>2, <2>3 DEF ToldSoFar
        <3>1. UpTo(records[r], n) <= tokens[r]
            BY <1>1, <1>2 DEF BooksOf, ToldSoFar
        <3>2. UpTo(records[r], n) \in Nat
            <4>1. n # 0 => records[r][n] \in Summaries
                BY <1>8
            <4>. QED
                BY <4>1 DEF UpTo, Summaries
        <3>. QED
            BY <1>8, <3>1, <3>2
    <2>5. ASSUME NEW j \in Row, entries'[j].request = r
          PROVE  entries'[j].steps = Over(ToldLast(s, r), tokens'[r])
        <3>1. entries[j].request = r
            BY <1>3, <2>5
        <3>2. entries[j].steps = Over(ToldLast(s, r), tokens[r])
            BY <1>1, <1>2, <3>1 DEF BooksOf, Counts
        <3>3. entries'[j].steps = IF tokens[r] >= TWarm THEN entries[j].steps + 1 ELSE entries[j].steps
            BY <1>3, <3>1
        <3>. QED
            BY <1>8, <1>9, <2>3, <3>2, <3>3, OverOneMore
    <2>6. Counts(t, r)
        BY <1>2, <1>6, <2>5 DEF Counts
    <2>. QED
        BY <1>4, <1>5, <1>6, <1>7, <1>10, <2>4, <2>6 DEF BooksOf, s, t
<1>11. CASE ~Has(s, r)
    <2>1. \A i \in Row : batch[i] # r
        BY <1>1, <1>2, <1>11 DEF Has, Mask
    <2>2. tokens'[r] = tokens[r]
        BY <1>1, <2>1, ForwardIs
    <2>3. ToldSoFar(t, r)
        BY <1>1, <1>2, <2>2 DEF BooksOf, ToldSoFar
    <2>4. Counts(t, r)
        BY <1>4, <1>11 DEF Counts, Has
    <2>5. ToldLast(t, r) = t.live[r]
        BY <1>1, <1>2, <1>6, <1>11, <2>2 DEF BooksOf
    <2>. QED
        BY <1>5, <1>6, <1>7, <2>3, <2>4, <2>5 DEF BooksOf, s, t
<1>. QED
    BY <1>10, <1>11

\* Every step keeps the books, and a stay is known to the table, to its records or to the update.
LEMMA BookedKept ==
    ASSUME BatchInv, [TableNext]_tableVars
    PROVE  Booked'
<1>. USE DEF batchVars, updateVars
<1>1. TableTypeOK /\ Incoming /\ Booked
    BY DEF BatchInv
<1>2. CASE UNCHANGED <<entries, records, tokens, stays, added>>
    <2>1. Table' = Table /\ \A r \in Cuts : IsAdded(r)' <=> IsAdded(r)
        BY <1>2 DEF Table, IsAdded
    <2>. QED
        BY <1>1, <1>2, <2>1 DEF Booked
<1>3. ASSUME NEW r \in Requests, NEW i \in Row, Join(r, i) PROVE Booked'
    <2>1. /\ \A q \in Requests : stays'[q] = IF q = r THEN stays[q] + 1 ELSE stays[q]
          /\ DOMAIN added' = DOMAIN added \cup {i}
          /\ \A j \in DOMAIN added' : added'[j] = IF j = i THEN r ELSE added[j]
          /\ batch[i] = Empty /\ standing[r] = "waiting" /\ moved = <<>> /\ phase = "schedule"
        BY <1>1, <1>3 DEF Join, TableTypeOK
    <2>2. Table' = Table
        BY <1>3 DEF Join, Table
    <2>3. ~IsAdded(r)
        BY <1>1, <2>1 DEF Incoming, IsAdded
    <2>4. IsAdded(r)'
        BY <2>1 DEF IsAdded
    <2>5. i \in DOMAIN added => added[i] \notin Cuts
        <3>1. Flat
            BY <1>1, <2>1, FlatFrom DEF BatchInv
        <3>2. i \in DOMAIN added => Start(i) = Mask(Empty)
            BY <2>1, <3>1 DEF Flat, Gone
        <3>. QED
            BY <3>2, CutsAreRequests DEF Start, Mask
    <2>6. \A q \in Cuts : q # r => (IsAdded(q)' <=> IsAdded(q))
        BY <2>1, <2>5 DEF IsAdded
    <2>7. ASSUME NEW q \in Cuts
          PROVE  stays'[q] = Counted(Table, q) + (IF IsAdded(q)' THEN 1 ELSE 0)
        <3>1. /\ q \in Requests /\ stays[q] = Counted(Table, q) + (IF IsAdded(q) THEN 1 ELSE 0)
              /\ stays[q] \in Nat
            BY <1>1, CutsAreRequests DEF Booked, TableTypeOK
        <3>3. Len(records[q]) \in Nat
            BY <1>1, <3>1 DEF TableTypeOK
        <3>2. Counted(Table, q) \in Nat
            <4>1. CASE Has(Table, q)
                BY <3>3, <4>1 DEF Counted, Table
            <4>2. CASE ~Has(Table, q)
                BY <3>3, <4>2 DEF Counted, Table
            <4>. QED
                BY <4>1, <4>2
        <3>4. CASE q = r
            BY <2>1, <2>3, <2>4, <3>1, <3>2, <3>4
        <3>5. CASE q # r
            BY <2>1, <2>6, <3>1, <3>2, <3>5
        <3>. QED
            BY <3>4, <3>5
    <2>. QED
        BY <1>1, <2>2, <2>7 DEF Booked
<1>4. CASE UpdateState
    BY <1>4, UpdateIs
<1>5. CASE Close
    BY <1>5, CloseIs
<1>6. CASE Forward
    <2>1. stays' = stays /\ DOMAIN added = {} /\ added' = added
        BY <1>1, <1>6 DEF Forward, Incoming
    <2>2. \A r \in Cuts : BooksOf(Table', r) /\ Counted(Table', r) = Counted(Table, r)
        BY <1>6, ForwardKeepsBooks
    <2>3. \A r \in Cuts : ~IsAdded(r) /\ ~IsAdded(r)'
        BY <2>1 DEF IsAdded
    <2>. QED
        BY <1>1, <2>1, <2>2, <2>3 DEF Booked, Books
<1>. QED
    BY <1>2, <1>3, <1>4, <1>5, <1>6, Steps DEF Leave, MoveInto, SwapRows, tableVars

\* Every step draws tokens as asked, one per request and forward pass.
LEMMA DrawnKept ==
    ASSUME BatchInv, [TableNext]_tableVars
    PROVE  Drawn'
<1>. USE DEF batchVars, updateVars
<1>1. TableTypeOK /\ Drawn
    BY DEF BatchInv
<1>2. CASE UNCHANGED <<sampled, tokens>>
    BY <1>1, <1>2 DEF Drawn, SampledAsAsked
<1>3. CASE Forward
    <2>. SUFFICES ASSUME NEW r \in Requests
                  PROVE  /\ Len(sampled'[r]) = tokens'[r]
                         /\ \A n \in DOMAIN sampled'[r] : sampled'[r][n] = IF n > TWarm THEN Signature[r] ELSE Std
        BY DEF Drawn, SampledAsAsked
    <2>1. /\ Len(sampled[r]) = tokens[r] /\ tokens[r] \in Nat
          /\ sampled[r] \in Seq(Range(Signature) \cup {Std})
          /\ \A n \in DOMAIN sampled[r] : sampled[r][n] = IF n > TWarm THEN Signature[r] ELSE Std
        BY <1>1 DEF Drawn, SampledAsAsked, TableTypeOK
    <2>2. CASE \A i \in Row : batch[i] # r
        BY <1>3, <2>1, <2>2, ForwardIs
    <2>3. CASE \E i \in Row : batch[i] = r
        <3>1. PICK i \in Row : batch[i] = r
            BY <2>3
        <3>2. PICK d : d = IF Warm(entries[i]) THEN Signature[entries[i].request] ELSE Std
            OBVIOUS
        <3>3. tokens'[r] = tokens[r] + 1 /\ sampled'[r] = Append(sampled[r], d)
            BY <1>3, <3>1, <3>2, ForwardIs
        <3>4. entries[i].request = Mask(r) /\ entries[i] \in Entries
            BY <1>1, <1>3, <3>1 DEF BatchInv, Mirrored, Forward, TableTypeOK
        <3>5. d = IF tokens[r] >= TWarm THEN Signature[r] ELSE Std
            <4>1. CASE r \in Cuts
                <5>1. entries[i].request = r /\ entries[i] # NoEntry
                    BY <3>4, <4>1, CutsAreRequests DEF Mask, NoEntry
                <5>. QED
                    BY <3>2, <5>1 DEF Warm
            <4>2. CASE r \notin Cuts
                <5>1. entries[i] = NoEntry /\ Signature[r] = Std
                    BY <3>4, <4>2, EntryIs DEF Mask, Cuts
                <5>. QED
                    BY <3>2, <5>1 DEF Warm
            <4>. QED
                BY <4>1, <4>2
        <3>6. d \in Range(Signature) \cup {Std}
            BY <3>5, RequestsAssumption DEF Range
        <3>7. /\ Len(sampled'[r]) = tokens[r] + 1
              /\ DOMAIN sampled'[r] = 1 .. (tokens[r] + 1)
              /\ sampled'[r][tokens[r] + 1] = d
              /\ \A n \in 1 .. tokens[r] : sampled'[r][n] = sampled[r][n] /\ n \in DOMAIN sampled[r]
            BY <2>1, <3>3, <3>6
        <3>8. ASSUME NEW n \in 1 .. (tokens[r] + 1)
              PROVE  sampled'[r][n] = IF n > TWarm THEN Signature[r] ELSE Std
            <4>1. CASE n = tokens[r] + 1
                BY <2>1, <3>5, <3>7, <4>1, WarmAssumption
            <4>2. CASE n # tokens[r] + 1
                <5>1. n \in 1 .. tokens[r]
                    BY <2>1, <4>2
                <5>. QED
                    BY <2>1, <3>7, <5>1
            <4>. QED
                BY <4>1, <4>2
        <3>. QED
            BY <3>3, <3>7, <3>8
    <2>. QED
        BY <2>2, <2>3
<1>. QED
    BY <1>2, <1>3, Steps DEF Leave, Join, MoveInto, SwapRows, UpdateState, Close, tableVars

\* The invariant holds of the empty batch.
LEMMA BatchInvInit == TableInit => BatchInv
<1>. SUFFICES ASSUME TableInit PROVE BatchInv
    OBVIOUS
<1>. USE CutsAreRequests, NoneAdded DEF TableInit
<1>1. TableTypeOK
    <2>1. <<>> \in Seq(Moves) /\ <<>> \in Seq(Summaries) /\ <<>> \in Seq(Range(Signature) \cup {Std})
        OBVIOUS
    <2>2. MaxTokens \in Nat /\ MaxStays \in Nat
        BY WarmAssumption
    <2>3. /\ records \in [Requests -> Seq(Summaries)]
          /\ sampled \in [Requests -> Seq(Range(Signature) \cup {Std})]
        BY <2>1
    <2>. QED
        BY <2>1, <2>2, <2>3 DEF TableTypeOK, Entries
<1>2. Seated
    BY WarmAssumption DEF Seated
<1>3. Incoming
    BY DEF Incoming, NoEntry
<1>4. Mirrored
    BY DEF Mirrored
<1>5. Followed
    <2>1. \A s : Replay(s, moved) = s
        BY ReplayNone
    <2>2. Gone = {} /\ Untouched = {}
        BY DEF Gone, Untouched
    <2>3. \A i \in Row : Start(i) = Empty /\ Mask(batch[i]) = Empty
        BY DEF Start, Mask, NoEntry
    <2>. QED
        BY <2>1, <2>2, <2>3 DEF Followed
<1>6. Replayable
    <2>1. \A s \in Tables : Same(s, s)
        BY DEF Same
    <2>. QED
        BY <2>1, ReplayNone DEF Replayable
<1>7. Booked
    <2>. SUFFICES ASSUME NEW r \in Cuts
                  PROVE  BooksOf(Table, r) /\ stays[r] = Counted(Table, r) + (IF IsAdded(r) THEN 1 ELSE 0)
        BY DEF Booked, Books
    <2>1. /\ Table.records[r] = <<>> /\ Table.live[r] = 0 /\ stays[r] = 0
          /\ \A i \in Row : Table.entries[i].request # r
        BY DEF Table, NoEntry
    <2>2. ~Has(Table, r) /\ ~IsAdded(r) /\ Len(<<>>) = 0
        BY <2>1 DEF Has, IsAdded
    <2>3. ToldWell(Table, r) /\ ToldSoFar(Table, r) /\ ToldLast(Table, r) = 0
        BY <2>1, <2>2 DEF ToldWell, ToldSoFar, ToldLast, UpTo
    <2>4. Counts(Table, r) /\ OneRow(Table, r)
        BY <2>1 DEF Counts, OneRow
    <2>5. Counted(Table, r) = 0
        BY <2>1, <2>2 DEF Counted
    <2>. QED
        BY <2>1, <2>2, <2>3, <2>4, <2>5 DEF BooksOf
<1>8. Drawn
    BY DEF Drawn, SampledAsAsked
<1>. QED
    BY <1>1, <1>2, <1>3, <1>4, <1>5, <1>6, <1>7, <1>8 DEF BatchInv

\* The invariant is inductive.
LEMMA BatchInvKept == BatchInv /\ [TableNext]_tableVars => BatchInv'
    BY TypesKept, SeatedKept, IncomingKept, MirroredKept, FollowedKept, ReplayableKept, BookedKept,
       DrawnKept DEF BatchInv

\* The invariant holds throughout.
LEMMA BatchInvHolds == TableSpec => []BatchInv
    BY BatchInvInit, BatchInvKept, PTL DEF TableSpec

-----------------------------------------------------------------------------
\* When the forward pass starts, the table holds exactly the CUTS requests of the batch, each at
\* its own row, whatever was removed, added, condensed and swapped since the last one; and every
\* variable keeps its type.
THEOREM TableMirrorsTheBatch == TableSpec => []MirrorsBatch
<1>1. BatchInv => MirrorsBatch
    BY DEF BatchInv, Mirrored, MirrorsBatch, Mask
<1>. QED
    BY <1>1, BatchInvHolds, PTL

\* Every token is drawn under the request's own setting once T_warm tokens are out, and from the
\* plain distribution before that or if it did not ask for CUTS.
THEOREM TokensAreDrawnAsAsked == TableSpec => []SampledAsAsked
<1>1. BatchInv => SampledAsAsked
    BY DEF BatchInv, Drawn
<1>. QED
    BY <1>1, BatchInvHolds, PTL

\* The tokens drawn under CUTS are those after the first T_warm.
LEMMA CutsTokensAreOver ==
    ASSUME BatchInv, NEW r \in Cuts, NEW a \in Nat, NEW b \in Nat, b <= tokens[r]
    PROVE  Cardinality(CutsTokens(r, a, b)) = Over(a, b)
<1>1. /\ r \in Requests /\ Signature[r] # Std
      /\ TWarm \in Nat /\ tokens[r] \in Nat
      /\ sampled[r] \in Seq(Range(Signature) \cup {Std}) /\ Len(sampled[r]) = tokens[r]
      /\ \A n \in DOMAIN sampled[r] : sampled[r][n] = IF n > TWarm THEN Signature[r] ELSE Std
    BY WarmAssumption DEF BatchInv, TableTypeOK, Drawn, SampledAsAsked, Cuts
<1>2. PICK c \in Nat : c = IF a > TWarm THEN a ELSE TWarm
    BY <1>1
<1>3. CutsTokens(r, a, b) = (c + 1) .. b
    <2>1. ASSUME NEW n \in (a + 1) .. b PROVE sampled[r][n] # Std <=> n > TWarm
        <3>1. n \in DOMAIN sampled[r]
            BY <1>1
        <3>. QED
            BY <1>1, <3>1
    <2>2. CutsTokens(r, a, b) = {n \in (a + 1) .. b : n > TWarm}
        BY <2>1 DEF CutsTokens
    <2>3. ASSUME NEW n \in Int PROVE n \in (a + 1) .. b /\ n > TWarm <=> n \in (c + 1) .. b
        BY <1>1, <1>2
    <2>. QED
        BY <2>2, <2>3
<1>4. Cardinality((c + 1) .. b) = IF c + 1 > b THEN 0 ELSE b - (c + 1) + 1
    BY FS_Interval
<1>5. Over(a, b) = IF c + 1 > b THEN 0 ELSE b - (c + 1) + 1
    BY <1>1, <1>2 DEF Over
<1>. QED
    BY <1>3, <1>4, <1>5

\* Each stay of a CUTS request in the batch ends in exactly one record, the last of which tells
\* its full length; each record, and the live entry, counts exactly the tokens that the request
\* drew under CUTS in that stay.
THEOREM EveryStayIsAccountedFor == TableSpec => []RecordsAreComplete
<1>1. BatchInv => OneRecordPerStay
    <2>. SUFFICES ASSUME BatchInv, phase \in {"forward", "closed"}, NEW r \in Cuts
                  PROVE  LET inTable == {i \in Row : entries[i].request = r}
                         IN  /\ phase = "forward" => Len(records[r]) + Cardinality(inTable) = stays[r]
                             /\ records[r] # <<>> /\ inTable = {} => Last(records[r]).n_generated = tokens[r]
        BY DEF OneRecordPerStay
    <2>. DEFINE inTable == {i \in Row : entries[i].request = r}
    <2>1. /\ BooksOf(Table, r) /\ stays[r] = Counted(Table, r) + (IF IsAdded(r) THEN 1 ELSE 0)
          /\ Table.entries = entries /\ Table.records = records /\ Table.live = tokens
          /\ records[r] \in Seq(Summaries)
        BY CutsAreRequests DEF BatchInv, Booked, Books, Table, TableTypeOK
    <2>2. Len(records[r]) \in Nat
        BY <2>1
    <2>3. ASSUME phase = "forward" PROVE Len(records[r]) + Cardinality(inTable) = stays[r]
        <3>1. ~IsAdded(r)
            BY <2>3 DEF BatchInv, Incoming, IsAdded
        <3>2. CASE Has(Table, r)
            <4>1. PICK i \in Row : entries[i].request = r
                BY <2>1, <3>2 DEF Has
            <4>2. inTable = {i}
                BY <2>1, <4>1 DEF BooksOf, OneRow
            <4>3. Cardinality(inTable) = 1
                BY <4>2, FS_Singleton
            <4>. QED
                BY <2>1, <2>2, <3>1, <3>2, <4>3 DEF Counted
        <3>3. CASE ~Has(Table, r)
            <4>1. inTable = {}
                BY <2>1, <3>3 DEF Has
            <4>2. Cardinality(inTable) = 0
                BY <4>1, FS_EmptySet
            <4>. QED
                BY <2>1, <2>2, <3>1, <3>3, <4>2 DEF Counted
        <3>. QED
            BY <3>2, <3>3
    <2>4. ASSUME records[r] # <<>>, inTable = {} PROVE Last(records[r]).n_generated = tokens[r]
        <3>1. ~Has(Table, r)
            BY <2>1, <2>4 DEF Has
        <3>2. Len(records[r]) # 0
            BY <2>1, <2>4
        <3>. QED
            BY <2>1, <3>1, <3>2 DEF BooksOf, ToldLast, UpTo, Last
    <2>. QED
        BY <2>3, <2>4
<1>2. BatchInv => StepsAddUp
    <2>. SUFFICES ASSUME BatchInv, NEW r \in Cuts
                  PROVE  LET upTo(n) == IF n = 0 THEN 0 ELSE records[r][n].n_generated
                         IN  /\ \A n \in DOMAIN records[r] : records[r][n].n_cuts_steps
                                    = Cardinality(CutsTokens(r, upTo(n - 1), upTo(n)))
                             /\ \A i \in Row : entries[i].request = r => entries[i].steps
                                    = Cardinality(CutsTokens(r, upTo(Len(records[r])), tokens[r]))
        BY DEF StepsAddUp
    <2>1. /\ BooksOf(Table, r) /\ Table.entries = entries /\ Table.records = records /\ Table.live = tokens
          /\ records[r] \in Seq(Summaries) /\ tokens[r] \in Nat
        BY CutsAreRequests DEF BatchInv, Booked, Books, Table, TableTypeOK
    <2>2. PICK k \in Nat : k = Len(records[r]) /\ DOMAIN records[r] = 1 .. k
        BY <2>1
    <2>3. ASSUME NEW n \in 0 .. k
          PROVE  UpTo(records[r], n) \in Nat /\ UpTo(records[r], n) <= tokens[r]
        <3>1. n # 0 => records[r][n] \in Summaries
            BY <2>1, <2>2
        <3>. QED
            BY <2>1, <2>2, <3>1 DEF UpTo, Summaries, BooksOf, ToldSoFar
    <2>4. ASSUME NEW n \in 1 .. k
          PROVE  records[r][n].n_cuts_steps
                   = Cardinality(CutsTokens(r, UpTo(records[r], n - 1), UpTo(records[r], n)))
        <3>1. n \in 0 .. k /\ n - 1 \in 0 .. k
            OBVIOUS
        <3>2. records[r][n].n_cuts_steps = Over(UpTo(records[r], n - 1), UpTo(records[r], n))
            BY <2>1, <2>2 DEF BooksOf, ToldWell
        <3>. QED
            BY <2>3, <3>1, <3>2, CutsTokensAreOver
    <2>5. ASSUME NEW i \in Row, entries[i].request = r
          PROVE  entries[i].steps = Cardinality(CutsTokens(r, UpTo(records[r], k), tokens[r]))
        <3>1. entries[i].steps = Over(UpTo(records[r], k), tokens[r])
            BY <2>1, <2>2, <2>5 DEF BooksOf, Counts, ToldLast
        <3>2. k \in 0 .. k /\ tokens[r] <= tokens[r]
            BY <2>1
        <3>. QED
            BY <2>1, <2>3, <3>1, <3>2, CutsTokensAreOver
    <2>. QED
        BY <2>2, <2>4, <2>5 DEF UpTo
<1>. QED
    BY <1>1, <1>2, BatchInvHolds, PTL DEF RecordsAreComplete
=============================================================================
