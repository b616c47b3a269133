----------------------------- MODULE CutsBatch -----------------------------
(***************************************************************************)
(* The table of in-flight CUTS requests that the logits processor keeps    *)
(* beside vLLM's persistent batch (src/src/cuts/state.py).  Between two    *)
(* forward passes the engine (external) lets requests leave, join and move *)
(* between rows, and notes each of it in a BatchUpdate; before the forward *)
(* pass the processor replays the whole update, removed rows first, then   *)
(* added, then moved; in the forward pass it rewrites the logits of the    *)
(* rows its table says are active.                                         *)
(***************************************************************************)
EXTENDS Naturals, Sequences, FiniteSets, FiniteSetsExt, SequencesExt, Functions

CONSTANTS Rows,        \* number of rows of the persistent batch (max_num_seqs)
          Requests,
          Std,         \* the signature of a request that does not ask for CUTS
          Signature,   \* Signature[r]: the (k, delta, fallback) r asks for, or Std
          TWarm,       \* t_warm: tokens generated before CUTS applies
          MaxTokens,   \* bound: output tokens of a request (max_tokens)
          MaxStays     \* bound: times a request joins the batch

ASSUME RowsAssumption == Rows \in Nat \ {0}
ASSUME WarmAssumption == TWarm \in Nat /\ MaxTokens \in Nat /\ MaxStays \in Nat \ {0}
ASSUME RequestsAssumption == DOMAIN Signature = Requests /\ "empty" \notin Requests

Row == 0 .. Rows - 1
Cuts == {r \in Requests : Signature[r] # Std}
Empty == "empty"
NoEntry == [request |-> Empty, steps |-> 0]

VARIABLES
    phase,     \* "schedule": between forward passes; "forward": update applied; "closed"
    batch,     \* engine: the request in each row, or Empty
    standing,    \* engine: a request is waiting, running, evicted in this round, or over
    tokens,    \* engine: length of each request's live output list
    removed,   \* BatchUpdate.removed
    added,     \* BatchUpdate.added, row -> request
    moved,     \* BatchUpdate.moved, in order
    stays,     \* history: how often each request has joined the batch
    entries,   \* _entries: the processor's table, row -> RequestEntry or NoEntry
    records,   \* what on_request_finished received, per request and in order
    sampled    \* history: the signature each output token was drawn under

batchVars == <<batch, standing, tokens, stays>>
updateVars == <<removed, added, moved>>
tableVars == <<phase, batchVars, updateVars, entries, records, sampled>>

Occupied == {i \in Row : batch[i] # Empty}
Compact == \A i \in Occupied : \A j \in 0 .. i : j \in Occupied

TableInit ==
    /\ phase = "schedule"
    /\ batch = [i \in Row |-> Empty]
    /\ standing = [r \in Requests |-> "waiting"]
    /\ tokens = [r \in Requests |-> 0]
    /\ removed = {} /\ added = <<>> /\ moved = <<>>
    /\ stays = [r \in Requests |-> 0]
    /\ entries = [i \in Row |-> NoEntry]
    /\ records = [r \in Requests |-> <<>>]
    /\ sampled = [r \in Requests |-> <<>>]

-----------------------------------------------------------------------------
(* The engine between two forward passes.  The update lists requests that    *)
(* left before those that joined before the moves, as the processor replays  *)
(* them.  A row that is refilled may be dropped from `removed`: "added/moved *)
(* requests may replace whatever previously lived at the target index".      *)

Listed(i) == removed' = removed \/ removed' = removed \ {i}

\* A request is over, aborted, or evicted, to be resumed in a later round.
Leave(r, why) ==
    /\ phase = "schedule" /\ added = <<>> /\ moved = <<>>
    /\ standing[r] = "running"
    /\ why = "evicted" => stays[r] < MaxStays
    /\ standing' = [standing EXCEPT ![r] = why]
    /\ \E i \in Row : /\ batch[i] = r
                      /\ batch' = [batch EXCEPT ![i] = Empty]
                      /\ removed' = removed \cup {i}
    /\ UNCHANGED <<phase, tokens, stays, added, moved, entries, records, sampled>>

Join(r, i) ==
    /\ phase = "schedule" /\ moved = <<>>
    /\ standing[r] = "waiting" /\ batch[i] = Empty
    /\ standing' = [standing EXCEPT ![r] = "running"]
    /\ stays' = [stays EXCEPT ![r] = @ + 1]
    /\ batch' = [batch EXCEPT ![i] = r]
    /\ added' = [j \in DOMAIN added \cup {i} |-> IF j = i THEN r ELSE added[j]]
    /\ Listed(i)
    /\ UNCHANGED <<phase, tokens, moved, entries, records, sampled>>

\* Condense: the request of a higher row moves into a vacated one.
MoveInto(from, to) ==
    /\ phase = "schedule"
    /\ to < from /\ batch[to] = Empty /\ batch[from] # Empty
    /\ batch' = [batch EXCEPT ![to] = batch[from], ![from] = Empty]
    /\ moved' = Append(moved, [from |-> from, to |-> to, swap |-> FALSE])
    /\ Listed(to)
    /\ UNCHANGED <<phase, standing, tokens, stays, added, entries, records, sampled>>

\* The attention backend reorders the batch.
SwapRows(a, b) ==
    /\ phase = "schedule" /\ Compact
    /\ a < b /\ batch[a] # Empty /\ batch[b] # Empty
    /\ \A n \in DOMAIN moved : ~moved[n].swap
    /\ batch' = [batch EXCEPT ![a] = batch[b], ![b] = batch[a]]
    /\ moved' = Append(moved, [from |-> a, to |-> b, swap |-> TRUE])
    /\ UNCHANGED <<phase, standing, tokens, stays, removed, added, entries, records, sampled>>

-----------------------------------------------------------------------------
(* The processor's table, as a value that the loops of apply_batch_update    *)
(* hand on: the entries, the summaries emitted so far, and the live output   *)
(* lists that the entries refer to.                                          *)

Table == [entries |-> entries, records |-> records, live |-> tokens]

\* F of every row of S, in some order.
PerRow(S, F(_)) == LET rows == SetToSeq(S) IN [n \in DOMAIN rows |-> F(rows[n])]

\* summary(): n_generated is read off the live list.
Summary(s, e) == [n_generated |-> s.live[e.request], n_cuts_steps |-> e.steps]

Emit(s, e) ==
    IF e = NoEntry THEN s
    ELSE [s EXCEPT !.records[e.request] = Append(@, Summary(s, e))]

\* _finish on every row of S: pop its entry and emit it.  The update names a row at most once
\* in each of its lists of removed and added rows, so their loops are written row by row.
Finish(s, S) ==
    [s EXCEPT !.entries = [i \in Row |-> IF i \in S THEN NoEntry ELSE s.entries[i]],
              !.records = [r \in Requests |->
                  s.records[r] \o PerRow({i \in S : s.entries[i].request = r},
                                         LAMBDA i : Summary(s, s.entries[i]))]]

\* A fresh entry for every row of S, the added ones whose request asks for CUTS.
Enter(s, S) ==
    [s EXCEPT !.entries = [i \in Row |-> IF i \in S THEN [request |-> added[i], steps |-> 0]
                                         ELSE s.entries[i]]]
AddedCuts == {i \in DOMAIN added : added[i] \in Cuts}

\* Mutant: the previous occupant of the row is overwritten, not finished.
AddOverwrites(s) == Enter(Finish(s, DOMAIN added \ AddedCuts), AddedCuts)

\* The `added` loop.
Add(s) == Enter(Finish(s, DOMAIN added), AddedCuts)

\* Mutant: a swap that forgets the second entry.
MoveForgets(s, m) ==
    LET from == s.entries[m.from]
        to   == s.entries[m.to]
    IN  IF m.swap
        THEN [s EXCEPT !.entries[m.from] = NoEntry, !.entries[m.to] = from]
        ELSE [Emit(s, to) EXCEPT !.entries[m.from] = NoEntry, !.entries[m.to] = from]

\* One iteration of the `moved` loop: pop both rows, then place them.
Move(s, m) ==
    LET from == s.entries[m.from]
        to   == s.entries[m.to]
    IN  IF m.swap
        THEN [s EXCEPT !.entries[m.from] = to, !.entries[m.to] = from]
        ELSE [Emit(s, to) EXCEPT !.entries[m.from] = NoEntry, !.entries[m.to] = from]

\* The `moved` loop.
Replay(s, moves) == FoldLeft(Move, s, moves)

\* apply_batch_update: the whole handler, before every forward pass.
UpdateState ==
    /\ phase = "schedule" /\ Occupied # {} /\ Compact
    /\ LET s == Replay(Add(Finish(Table, removed)), moved)
       IN  entries' = s.entries /\ records' = s.records
    /\ phase' = "forward"
    /\ removed' = {} /\ added' = <<>> /\ moved' = <<>>
    /\ UNCHANGED <<batchVars, sampled>>

\* Mutant: an off-by-one in prefix protection.
WarmEarly(e) == e # NoEntry /\ tokens[e.request] + 1 >= TWarm

\* is_active: prefix protection.
Warm(e) == e # NoEntry /\ tokens[e.request] >= TWarm

\* apply: rewrite the active rows by their entry's signature and count the step; then the
\* engine samples one token for every row of the logits.
Forward ==
    /\ phase = "forward"
    /\ \A i \in Occupied : tokens[batch[i]] < MaxTokens
    /\ LET hit == {i \in Occupied : Warm(entries[i])}
           drawn(i) == IF i \in hit THEN Signature[entries[i].request] ELSE Std
           rows(r) == {i \in Occupied : batch[i] = r}
           resumable == {r \in Requests : standing[r] = "evicted"}
       IN  /\ entries' = [i \in Row |-> IF i \in hit THEN [entries[i] EXCEPT !.steps = @ + 1]
                                        ELSE entries[i]]
           /\ tokens' = [r \in Requests |-> tokens[r] + Cardinality(rows(r))]
           /\ sampled' = [r \in Requests |-> sampled[r] \o PerRow(rows(r), drawn)]
           /\ standing' = [r \in Requests |-> IF r \in resumable THEN "waiting" ELSE standing[r]]
    /\ phase' = "schedule"
    /\ UNCHANGED <<batch, stays, updateVars, records>>

\* close, at engine shutdown: clear() finishes every entry.
Close ==
    /\ phase # "closed"
    /\ LET s == Finish(Table, Row)
       IN  entries' = s.entries /\ records' = s.records
    /\ phase' = "closed"
    /\ UNCHANGED <<batchVars, updateVars, sampled>>

-----------------------------------------------------------------------------
TableNext ==
    \/ \E r \in Requests : \/ \E why \in {"over", "evicted"} : Leave(r, why)
                           \/ \E i \in Row : Join(r, i)
    \/ \E i, j \in Row : MoveInto(i, j) \/ SwapRows(i, j)
    \/ UpdateState \/ Forward \/ Close

TableSpec == TableInit /\ [][TableNext]_tableVars

-----------------------------------------------------------------------------
(* Properties *)

Entries == [request : Cuts, steps : Nat] \cup {NoEntry}
Summaries == [n_generated : Nat, n_cuts_steps : Nat]
Moves == [from : Row, to : Row, swap : BOOLEAN]

\* Every variable keeps its type.
TableTypeOK ==
    /\ phase \in {"schedule", "forward", "closed"}
    /\ batch \in [Row -> Requests \cup {Empty}]
    /\ standing \in [Requests -> {"waiting", "running", "evicted", "over"}]
    /\ tokens \in [Requests -> 0 .. MaxTokens]
    /\ stays \in [Requests -> 0 .. MaxStays]
    /\ removed \subseteq Row
    /\ DOMAIN added \subseteq Row /\ \A i \in DOMAIN added : added[i] \in Requests
    /\ moved \in Seq(Moves)
    /\ entries \in [Row -> Entries]
    /\ records \in [Requests -> Seq(Summaries)]
    /\ sampled \in [Requests -> Seq(Range(Signature) \cup {Std})]

\* Well-typed; and when the forward pass starts, the table holds exactly the CUTS requests of the batch,
\* each at its own row, whatever was removed, added, condensed and swapped (132-163).
MirrorsBatch ==
    /\ TableTypeOK
    /\ phase = "forward" =>
         \A i \in Row : entries[i].request = IF batch[i] \in Cuts THEN batch[i] ELSE Empty

\* Every token is drawn under the request's own setting: CUTS for a CUTS request once T_warm
\* tokens are out, the plain distribution otherwise, also after an eviction (15-20, 181-209).
SampledAsAsked ==
    \A r \in Requests : \A n \in DOMAIN sampled[r] :
        sampled[r][n] = IF n > TWarm THEN Signature[r] ELSE Std

\* Each stay of a CUTS request in the batch ends in one record, also when its row was
\* refilled without being listed as removed; the last one tells the full length (165-173).
OneRecordPerStay ==
    phase \in {"forward", "closed"} =>
        \A r \in Cuts :
            LET inTable == {i \in Row : entries[i].request = r}
            IN  /\ phase = "forward" => Len(records[r]) + Cardinality(inTable) = stays[r]
                /\ records[r] # <<>> /\ inTable = {}
                     => Last(records[r]).n_generated = tokens[r]

\* The tokens of r after the first `from`, up to the `to`-th, that were drawn under CUTS.
CutsTokens(r, from, to) == {n \in from + 1 .. to : sampled[r][n] # Std}

\* Each record counts the tokens its request drew under CUTS in that stay, from the length the
\* record before tells to the length it tells itself, and the live entry those of the stay that
\* goes on: no move, eviction or replacement loses or repeats one (69-80, 154-163).
StepsAddUp ==
    \A r \in Cuts :
        LET upTo(n) == IF n = 0 THEN 0 ELSE records[r][n].n_generated
        IN  /\ \A n \in DOMAIN records[r] :
                 records[r][n].n_cuts_steps = Cardinality(CutsTokens(r, upTo(n - 1), upTo(n)))
            /\ \A i \in Row : entries[i].request = r =>
                 entries[i].steps = Cardinality(CutsTokens(r, upTo(Len(records[r])), tokens[r]))

\* The records account for every stay and for every CUTS step, each once.
RecordsAreComplete == OneRecordPerStay /\ StepsAddUp
=============================================================================
