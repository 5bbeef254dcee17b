----------------------------- MODULE BulkExport -----------------------------
(***************************************************************************)
(* One export of a bucket to a CSV file by export_influxdb_data.py: the    *)
(* count that guards it, the windows the range is cut into, the retried    *)
(* query of each, the join of the chunks and the rename.  Collectors write *)
(* to the bucket meanwhile.  A row is its time; a file is a sequence of    *)
(* lines.  The range is given by absolute times, without aggregation.      *)
(***************************************************************************)
EXTENDS Integers, Sequences, FiniteSets, SequencesExt

CONSTANTS
    Start, Stop,      \* the range asked for
    ChunkSizes,       \* --chunk-hours, 0 for a single window
    MaxRetries,       \* --max-retries
    MaxRows,          \* --max-rows
    LargeThreshold    \* INFLUX_LARGE_EXPORT_THRESHOLD, above it none is confirmed

ASSUME ExportAssumption ==
    /\ Start \in Nat /\ Stop \in Nat /\ ChunkSizes \subseteq Nat
    /\ MaxRetries \in Nat /\ MaxRows \in Nat /\ LargeThreshold \in Nat

Times == Start .. Stop
\* A line that is not a row has a number that is no time.
Header == -1
Absent == <<-2>>       \* no such file
Previous == <<-3>>    \* what an earlier export left under this name

VARIABLES
    bucket,     \* the rows in the database
    atStart,    \* those that were there when the export began
    chunk,      \* the chunk size chosen
    step,       \* where the export is
    attempt,    \* failed attempts of the current window
    chunks,     \* the windows done, one file each
    part,       \* the staging file
    output      \* the file the operator asked for

exportVars == <<bucket, atStart, chunk, step, attempt, chunks, part, output>>

ExportInit ==
    /\ bucket \in SUBSET Times /\ atStart = bucket /\ chunk \in ChunkSizes
    /\ step = "check" /\ attempt = 0 /\ chunks = << >>
    /\ part = Absent /\ output = Previous

(***************************************************************************)
(* Windows and what they hold                                              *)
(***************************************************************************)
\* The ends of the windows.
windows ==
    IF chunk = 0
    THEN << <<Start, Stop>> >>
    ELSE LET n == IF Start < Stop THEN (Stop - Start + chunk - 1) \div chunk ELSE 0
         IN  [i \in 1 .. n |->
                <<Start + (i - 1) * chunk,
                  IF Start + i * chunk < Stop THEN Start + i * chunk ELSE Stop>>]

\* Mutant: a window takes the row at its end, and so does the next one.
build_export_query_closed(w) == {t \in bucket : w[1] <= t /\ t <= w[2]}

\* The rows a query returns: the end of a range is exclusive.
build_export_query(w) == {t \in bucket : w[1] <= t /\ t < w[2]}

count_records_in_range == Cardinality({t \in bucket : Start <= t /\ t < Stop})

InTimeOrder(ts) ==
    CHOOSE s \in [1 .. Cardinality(ts) -> ts] : \A i, j \in DOMAIN s : i < j => s[i] < s[j]

\* The file an attempt writes: the columns are known from the first record.
stream_window_once(ts) == IF ts = {} THEN << >> ELSE <<Header>> \o InTimeOrder(ts)

\* A file without its first line.
Body(f) == IF f = << >> THEN << >> ELSE Tail(f)

\* The chunks one after the other, the first line of each but the first skipped.
concat_chunk_files(files) ==
    FlattenSeq([i \in DOMAIN files |-> IF i = 1 THEN files[i] ELSE Body(files[i])])

total_written == Len(FlattenSeq([i \in DOMAIN chunks |-> Body(chunks[i])]))

Single == Len(windows) = 1

(***************************************************************************)
(* The export                                                              *)
(***************************************************************************)
InfluxWrite(t) ==
    /\ t \notin bucket /\ bucket' = bucket \cup {t}
    /\ UNCHANGED <<atStart, chunk, step, attempt, chunks, part, output>>

\* The process ends; the temporary directory goes with it.
Exits == step' = "ended" /\ chunks' = << >>

bucket_exists ==
    /\ step = "check"
    /\ step' \in {"count", "ended"}
    /\ UNCHANGED <<bucket, atStart, chunk, attempt, chunks, part, output>>

\* What the count lets through: a failed one (-1) passes every guard.
Refused(n) == n > MaxRows \/ (n > LargeThreshold /\ chunk = 0) \/ n = 0

preflight ==
    /\ step = "count"
    /\ \E n \in {count_records_in_range, -1} :
          IF Refused(n) THEN Exits
          ELSE step' = "window" /\ UNCHANGED chunks
    /\ UNCHANGED <<bucket, atStart, chunk, attempt, part, output>>

\* A single window goes to the staging file, each of several to a chunk file.
Writes(f) == part' = IF Single THEN f ELSE part

GivesUp == attempt = MaxRetries

Current == build_export_query(windows[Len(chunks) + 1])

WindowDone ==
    /\ step = "window" /\ Len(chunks) < Len(windows)
    /\ LET f == stream_window_once(Current)
       IN  chunks' = Append(chunks, f) /\ Writes(f)
    /\ attempt' = 0
    /\ UNCHANGED <<bucket, atStart, chunk, step, output>>

\* A transient error, after any part of the rows: the next attempt starts a
\* fresh file.
WindowFails ==
    /\ step = "window" /\ Len(chunks) < Len(windows) /\ ~GivesUp
    /\ \E ts \in SUBSET Current : Writes(stream_window_once(ts))
    /\ attempt' = attempt + 1
    /\ UNCHANGED <<bucket, atStart, chunk, step, chunks, output>>

\* Any other error, or the last attempt: the staging file is removed.
ExportFails ==
    /\ step \in {"window", "concat"}
    /\ part' = Absent /\ Exits
    /\ UNCHANGED <<bucket, atStart, chunk, attempt, output>>

WindowsDone ==
    /\ step = "window" /\ Len(chunks) = Len(windows)
    /\ step' = IF Single THEN "rename" ELSE "concat"
    /\ UNCHANGED <<bucket, atStart, chunk, attempt, chunks, part, output>>

Concat ==
    /\ step = "concat"
    /\ part' = concat_chunk_files(chunks) /\ step' = "rename"
    /\ UNCHANGED <<bucket, atStart, chunk, attempt, chunks, output>>

\* The staging file replaces the output, or goes when it is empty.
Rename ==
    /\ step = "rename"
    /\ output' = IF total_written = 0 THEN output ELSE part
    /\ part' = Absent /\ Exits
    /\ UNCHANGED <<bucket, atStart, chunk, attempt>>

\* Ctrl-C at any time: a half-joined staging file is kept, the chunks are not.
Interrupt ==
    /\ step # "ended" /\ Exits
    /\ IF step = "concat" THEN part' \in {part} \cup Prefixes(concat_chunk_files(chunks))
                          ELSE UNCHANGED part
    /\ UNCHANGED <<bucket, atStart, chunk, attempt, output>>

ExportStep ==
    \/ bucket_exists \/ preflight \/ WindowDone \/ WindowFails \/ WindowsDone
    \/ Concat \/ Rename \/ ExportFails

ExportNext == ExportStep \/ Interrupt \/ \E t \in Times : InfluxWrite(t)

ExportSpec == ExportInit /\ [][ExportNext]_exportVars

(***************************************************************************)
(* Properties                                                              *)
(***************************************************************************)
ExportTypeOK ==
    /\ bucket \subseteq Times /\ attempt \in 0 .. MaxRetries
    /\ step \in {"check", "count", "window", "concat", "rename", "ended"}
    /\ Len(chunks) <= Len(windows)

\* A whole export: o is rows, or a header and rows; every row of the range that
\* was there at the start, none twice, none from outside the range.
ExactFile(o) ==
    \E rows \in {o, Tail(o)} :
       /\ o \in {rows, <<Header>> \o rows}
       /\ Len(rows) = Cardinality(ToSet(rows))
       /\ {t \in atStart : t < Stop} \subseteq ToSet(rows)
       /\ ToSet(rows) \subseteq bucket \cap (Start .. Stop - 1)
       /\ build_export_query(windows[1]) \cap atStart # {} => Head(o) = Header

\* Whatever fails or is interrupted, the output is the previous file or a
\* whole new one: every row that the range held when the export began, none
\* twice however the windows were cut and retried, no row outside the range,
\* and a header on the first line or (when the first window had no rows) nowhere
\* (stream_window_with_retry, _concat_chunk_files, the rename).
OutputExact == output = Previous \/ ExactFile(output)
=============================================================================
