---------------------------- MODULE MemoryProfile ----------------------------
(***************************************************************************)
(* scripts/profile_memory.py and mixed_cuts/phases.py: a sidecar samples   *)
(* the memory, the trainer writes a window for each phase that ends, and   *)
(* the report joins the two.  A run is a trace of events, [do, ...], one   *)
(* after the other; the time of an event is its place in the trace.        *)
(***************************************************************************)
EXTENDS Integers, Sequences, FiniteSets, SequencesExt, FiniteSetsExt

Phases == {"rollout", "update_actor"}

\* A trainer: the time, the phase it is in and since when, its PhaseLog._open (the rollout's begin, 0
\* if there is none), and the two files.  Two ghosts say what really happened: a sample carries the
\* phase it was taken in, and `ended` has the begins of the phases that came to their end.
NewProfile == [t |-> 1, phase |-> "none", since |-> 0, open |-> 0, windows |-> <<>>, samples |-> <<>>, ended |-> {}]

\* record
Record(p, from) == [p EXCEPT !.windows = Append(@, [phase |-> p.phase, from |-> from, to |-> p.t])]
Left(p) == [p EXCEPT !.phase = "none", !.t = @ + 1]

\* begin, in on_sample_begin; and the entry of the context manager `phase`.
Begin(p, phase) ==
    [p EXCEPT !.phase = phase, !.since = p.t, !.open = IF phase = "rollout" THEN p.t ELSE @, !.t = @ + 1]

\* Mutant: the begin of a phase is that of the last rollout.
EndFromOpen(p) == Left([Record(p, p.open) EXCEPT !.ended = @ \cup {p.since}])

\* end takes the begin away; the context manager records when its body is left.
End(p) ==
    LET ended == [p EXCEPT !.ended = @ \cup {p.since}]
    IN  Left(IF p.phase = "rollout" THEN [Record(ended, p.open) EXCEPT !.open = 0] ELSE Record(ended, p.since))

\* watch
Sample(p, mib) ==
    [p EXCEPT !.samples = Append(@, [t |-> p.t, mib |-> mib, phase |-> p.phase, since |-> p.since]), !.t = @ + 1]

\* An exception leaves the context manager, which records, but not on_sample_end; a kill leaves
\* nothing.  The next attempt has a PhaseLog of its own and appends to the same files.
Raise(p) == IF p.phase = "rollout" THEN [Left(p) EXCEPT !.open = 0] ELSE End(p)
Kill(p) == [Left(p) EXCEPT !.open = 0]

----------------------------------------------------------------------------
\* report: the peak over the samples in any window of the phase, and the peak of the job.
Covers(windows, phase, t) == \E w \in ToSet(windows) : w.phase = phase /\ w.from <= t /\ t <= w.to
Report(p) ==
    LET Peak(S) == Max({s.mib : s \in S} \cup {0})
        all == ToSet(p.samples)
    IN  [peak |-> [phase \in Phases |-> Peak({s \in all : Covers(p.windows, phase, s.t)})], whole |-> Peak(all)]

\* "Peak memory per GPU per phase": over any raises, kills and restarts a phase's row is the peak of
\* the samples that were taken in it, those of a phase that a kill (or, in the rollout, an exception)
\* cut short excepted; "whole job" has these too, and no sample counts for two phases.
ProfileIsOfTheRun(p) ==
    LET all == ToSet(p.samples)
        Taken(phase) == {s.mib : s \in {s \in all : s.phase = phase /\ s.since \in p.ended}}
    IN  /\ \A phase \in Phases : Report(p).peak[phase] = Max(Taken(phase) \cup {0})
        /\ \A s \in all : Cardinality({phase \in Phases : Covers(p.windows, phase, s.t)}) <= 1
        /\ \A s \in all : s.mib <= Report(p).whole
=============================================================================
