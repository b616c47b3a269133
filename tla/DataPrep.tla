------------------------------ MODULE DataPrep ------------------------------
(***************************************************************************)
(* scripts/prepare_data.py and src/mc_data: the parquets made from the     *)
(* raw datasets and the manifest that describes them.  A raw example is    *)
(* [index, prompt, answer], the answer None (nothing boxed, or not given), *)
(* one with a digit or one without; a record is [source, index, prompt,    *)
(* answer].  A directory is [files, manifest, staged], a file the sequence *)
(* of its records; check_staged asks no more than whether there is a       *)
(* manifest.                                                               *)
(***************************************************************************)
EXTENDS Integers, Sequences, FiniteSets, SequencesExt

CONSTANTS
    NoAnswer,       \* what last_boxed_content gives without a box
    Digitless       \* the answers without a digit

NoIndex == 0                    \* an example without an index or id

\* The elements of s at some places, in the order of s (SelectSeq with the test of the place).
Only(s, places) ==
    [n \in 1 .. Cardinality(places) |->
        s[CHOOSE i \in places : Cardinality({j \in places : j < i}) = n - 1]]

----------------------------------------------------------------------------
\* schema.Row.to_record; math.rows_from_hf skips a solution without a box and numbers the rows of
\* the raw file, dapo.rows_from_hf and eval_sets.rows_from_hf take every row.
Record(source, index, ex) == [source |-> source, index |-> index, prompt |-> ex.prompt, answer |-> ex.answer]
MathRows(raw) ==
    LET rows == [i \in DOMAIN raw |-> Record("math", i, raw[i])]
    IN  Only(rows, {i \in DOMAIN raw : raw[i].answer # NoAnswer})
DapoRows(raw) == [i \in DOMAIN raw |-> Record("math_dapo", raw[i].index, raw[i])]
EvalRows(name, raw) ==
    [i \in DOMAIN raw |-> Record(name, IF raw[i].index = NoIndex THEN i ELSE raw[i].index, raw[i])]

\* dapo._key and deduplicate: the first row of each problem.
Key(ex) == IF ex.index # NoIndex THEN <<"index", ex.index>> ELSE <<"prompt", ex.prompt>>

\* Mutant: rows without an index are all one problem.
DeduplicateByIndex(raw) ==
    FoldLeft(LAMBDA unique, ex : IF \E u \in ToSet(unique) : u.index = ex.index THEN unique ELSE Append(unique, ex),
             <<>>, raw)

Deduplicate(raw) ==
    FoldLeft(LAMBDA unique, ex : IF \E u \in ToSet(unique) : Key(u) = Key(ex) THEN unique ELSE Append(unique, ex),
             <<>>, raw)

\* filter_rewardable: training prompts whose ground truth has a digit.
FilterRewardable(rows) == Only(rows, {i \in DOMAIN rows : rows[i].answer \notin Digitless})
Prefix(rows, n) == SubSeq(rows, 1, IF n < Len(rows) THEN n ELSE Len(rows))

----------------------------------------------------------------------------
(* A call is [raw, skip, smoke]: the raw datasets that were fetched, by     *)
(* name, --skip and --smoke-train.                                         *)

EvalSources == <<"math500", "gpqa_diamond">>    \* two of the five: one that must be there, one gated

\* The parquets a dataset gives, in the order they are written, with what the manifest says of each.
Parquets(call, name) ==
    LET raw == call.raw[name]
        train == FilterRewardable(MathRows(raw))
        unique == Deduplicate(raw)
        dapo == FilterRewardable(DapoRows(unique))
        rows == EvalRows(name, raw)
    IN  CASE name = "math" ->
               <<[file |-> "math_train", rows |-> train,
                  info |-> [skipped |-> Len(raw) - Len(MathRows(raw)), dropped |-> Len(MathRows(raw)) - Len(train)]],
                 [file |-> "smoke_train", rows |-> Prefix(train, call.smoke), info |-> <<>>]>>
          [] name = "dapo" ->
               <<[file |-> "dapo_train", rows |-> dapo,
                  info |-> [raw |-> Len(raw), dropped |-> Len(unique) - Len(dapo)]]>>
          [] name = "math500" ->
               <<[file |-> "math500", rows |-> rows, info |-> <<>>],
                 [file |-> "smoke_val", rows |-> Prefix(rows, call.smoke), info |-> <<>>]>>
          [] OTHER -> <<[file |-> name, rows |-> rows, info |-> <<>>]>>

\* main: the datasets not skipped, in turn.  A missing training set raises, a missing benchmark ends
\* the call with 1, only the gated GPQA may be missing.
Datasets(call) ==
    LET all == <<"math", "dapo">> \o EvalSources
    IN  Only(all, {i \in DOMAIN all :
                     all[i] \notin call.skip /\ (all[i] = "gpqa_diamond" => all[i] \in DOMAIN call.raw)})
Refuses(call) == {i \in DOMAIN Datasets(call) : Datasets(call)[i] \notin DOMAIN call.raw}
Made(call) ==
    LET upTo == IF Refuses(call) = {} THEN Len(Datasets(call))
                ELSE (CHOOSE i \in Refuses(call) : \A j \in Refuses(call) : i <= j) - 1
    IN  FlattenSeq([i \in 1 .. upTo |-> Parquets(call, Datasets(call)[i])])

\* _write: the parquet, then its entry in the manifest, which is a file only at the end of main.
Entry(p) == [rows |-> Len(p.rows), content |-> p.rows, info |-> p.info]
Write(dir, p) == [dir EXCEPT !.files = [f \in DOMAIN @ \cup {p.file} |-> IF f = p.file THEN p.rows ELSE @[f]]]
Manifest(call) ==
    [f \in {p.file : p \in ToSet(Made(call))} |-> Entry(CHOOSE p \in ToSet(Made(call)) : p.file = f)]

\* The directory after the first `done` parquets of a call, and, if it was not killed and refused
\* nothing, its manifest.
Prepare(dir, call, done) ==
    LET after == FoldLeft(Write, dir, SubSeq(Made(call), 1, done))
        finished == done = Len(Made(call)) /\ Refuses(call) = {}
    IN  [after EXCEPT !.manifest = IF finished THEN Manifest(call) ELSE @, !.staged = @ \/ finished,
                      !.finished = finished, !.call = call]

NewDir ==
    [files |-> [f \in {} |-> <<>>], manifest |-> [f \in {} |-> <<>>], staged |-> FALSE,
     finished |-> FALSE, call |-> [skip |-> {}]]

----------------------------------------------------------------------------
\* What a finished call leaves: the manifest describes every parquet it lists, whatever earlier calls
\* left; the training sets hold each problem with a digit in its answer once, under the row it has
\* in the raw file, and nothing else; every raw row is kept, skipped, dropped or a repetition; and
\* the smoke sets are the first rows of the sets they stand for.
MathFits(raw, info, train, smoke) ==
    /\ Len(raw) = Len(train) + info.skipped + info.dropped
    /\ IsPrefix(smoke, train)
    /\ \A i \in DOMAIN raw : (\E r \in ToSet(train) : r.index = i /\ r.prompt = raw[i].prompt)
                             <=> raw[i].answer \notin Digitless \cup {NoAnswer}
DapoFits(raw, train) ==
    /\ \A i, j \in DOMAIN train : Key(train[i]) = Key(train[j]) => i = j
    /\ \A i \in DOMAIN raw :
         (\A j \in 1 .. i - 1 : Key(raw[j]) # Key(raw[i])) /\ raw[i].answer \notin Digitless
           => \E r \in ToSet(train) : Key(r) = Key(raw[i]) /\ r.answer = raw[i].answer
BenchmarkFits(raw, rows, smoke) == Len(rows) = Len(raw) /\ IsPrefix(smoke, rows)

DataAreAsListed(dir) ==
    dir.finished =>
        LET raw == dir.call.raw
            Lists(f) == f \in DOMAIN dir.manifest
            Rows(f) == dir.files[f]
        IN  /\ \A f \in DOMAIN dir.manifest : f \in DOMAIN dir.files /\ dir.manifest[f].content = Rows(f)
            /\ Lists("math_train") => MathFits(raw["math"], dir.manifest["math_train"].info,
                                              Rows("math_train"), Rows("smoke_train"))
            /\ Lists("dapo_train") => DapoFits(raw["dapo"], Rows("dapo_train"))
            /\ Lists("math500") => BenchmarkFits(raw["math500"], Rows("math500"), Rows("smoke_val"))
=============================================================================
