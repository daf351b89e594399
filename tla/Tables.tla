------------------------------- MODULE Tables -------------------------------
(***************************************************************************)
(* The table functions of crates/yara-worker/src/table: yara_scan,         *)
(* yara_string_matches and yara_modules.                                   *)
(*                                                                         *)
(* DuckDB binds a call (on_bind), opens it (producer, where the whole scan *)
(* takes place) and pulls batches (next_batch) until it gets none; it may  *)
(* leave at any time, as under a LIMIT.  The producer is the worker's only *)
(* state and lives as long as the call; received is what the caller has    *)
(* been given.                                                             *)
(***************************************************************************)
EXTENDS Scanning, TableCalls, Announced

VARIABLES phase, request, schema, producer, received

vars == <<phase, request, schema, producer, received>>

-----------------------------------------------------------------------------
(* Arguments and columns.                                                  *)

\* arguments.const_bytes(0) and const_str(0): the constant, if it is of the
\* type asked for.
ConstBytes(r) == IF r.dataType = "blob" THEN r.data ELSE Null
ConstStr(r) == IF r.dataType = "varchar" THEN r.data ELSE Null

\* Mutant: a VARCHAR is not taken for data.
ConstDataBytesBlob(r) == ConstBytes(r)

\* const_data_bytes: a BLOB or a VARCHAR; a constant of another type is absent.
ConstDataBytes(r) == IF ConstBytes(r) # Null THEN ConstBytes(r) ELSE ConstStr(r)

\* n as i64: two's complement, 2 * OffsetLimit wide.
AsI64(n) ==
  LET m == n % (2 * OffsetLimit)
  IN  IF m < OffsetLimit THEN m ELSE m - 2 * OffsetLimit

\* The types of the columns next_batch builds, in their order.  None of them
\* is ever given a NULL cell.
ScanColumns == <<Utf8, Utf8, ListVarcharBuilder>>
StringMatchesColumns == <<Utf8, Utf8, Int64, Utf8>>
ModulesColumns == <<Utf8, Utf8>>

BuiltColumns(f) ==
  CASE f = "yara_scan" -> ScanColumns
    [] f = "yara_string_matches" -> StringMatchesColumns
    [] f = "yara_modules" -> ModulesColumns

\* RecordBatch::try_new accepts columns without NULL for fields of their types.
Accepts(fields, columns) == [i \in DOMAIN fields |-> fields[i].type] = columns

\* The batch next_batch builds of the producer's rows.
BatchOf(f, rows) ==
  IF f = "yara_string_matches"
  THEN [n \in DOMAIN rows |-> [rows[n] EXCEPT !.offset = AsI64(@)]]
  ELSE rows

\* What scanning the data with the compiled rules may give.
ScanRows(f, rules, data) ==
  IF f = "yara_scan" THEN ScanRules(rules, data) ELSE ScanStrings(rules, data)

-----------------------------------------------------------------------------

Init ==
  /\ phase = "idle"
  /\ request = Null
  /\ schema = Null
  /\ producer = Null
  /\ received = <<>>

\* on_bind: announces the columns and looks at no argument.
Bind(r) ==
  /\ phase = "idle"
  /\ phase' = "bound"
  /\ request' = r
  /\ schema' = OutputSchema(r.fn)
  /\ UNCHANGED <<producer, received>>

Open(rows) ==
  /\ phase' = "open"
  /\ producer' = [rows |-> rows, done |-> FALSE]
  /\ UNCHANGED <<request, schema, received>>

\* producer of a scan: no rules, no rows.
OpenNoRules ==
  /\ phase = "bound" /\ request.fn \in ScanTables
  /\ request.rules = Null
  /\ Open(<<>>)

\* The rules are compiled before the data is looked at.
OpenInvalid ==
  /\ phase = "bound" /\ request.fn \in ScanTables
  /\ request.rules # Null
  /\ CompileRules(request.rules) = Error
  /\ phase' = "failed"
  /\ UNCHANGED <<request, schema, producer, received>>

OpenNoData ==
  /\ phase = "bound" /\ request.fn \in ScanTables
  /\ request.rules # Null
  /\ CompileRules(request.rules) # Error
  /\ ConstDataBytes(request) = Null
  /\ Open(<<>>)

OpenScan ==
  /\ phase = "bound" /\ request.fn \in ScanTables
  /\ request.rules # Null
  /\ CompileRules(request.rules) # Error
  /\ ConstDataBytes(request) # Null
  /\ \E rows \in ScanRows(request.fn, CompileRules(request.rules),
                          ConstDataBytes(request)) :
       Open(rows)

\* producer of yara_modules.
OpenModules ==
  /\ phase = "bound" /\ request.fn = "yara_modules"
  /\ Open(MODULES)

\* Mutant: done stays unset, and the next pull gets the same batch again.
NextBatchAgain ==
  /\ phase = "open"
  /\ ~producer.done
  /\ received' = received \o BatchOf(request.fn, producer.rows)
  /\ UNCHANGED <<phase, request, schema, producer>>

\* next_batch, the first time: all rows in one batch, empty or not.  Columns
\* other than the announced ones are an error, after done was set.
NextBatch ==
  /\ phase = "open"
  /\ ~producer.done
  /\ producer' = [producer EXCEPT !.done = TRUE]
  /\ IF Accepts(schema, BuiltColumns(request.fn))
     THEN /\ received' = received \o BatchOf(request.fn, producer.rows)
          /\ UNCHANGED phase
     ELSE /\ phase' = "failed"
          /\ UNCHANGED received
  /\ UNCHANGED <<request, schema>>

\* Mutant: the stream of a result without rows does not end.
EndOfStreamRows ==
  /\ phase = "open"
  /\ producer.done
  /\ producer.rows # <<>>
  /\ phase' = "ended"
  /\ UNCHANGED <<request, schema, producer, received>>

\* next_batch, every later time: Ok(None).
EndOfStream ==
  /\ phase = "open"
  /\ producer.done
  /\ phase' = "ended"
  /\ UNCHANGED <<request, schema, producer, received>>

\* The caller leaves, finished or not, and the producer is dropped.
Leave ==
  /\ phase # "idle"
  /\ phase' = "idle"
  /\ request' = Null
  /\ schema' = Null
  /\ producer' = Null
  /\ received' = <<>>

\* The steps of the worker, one for each call it is sent.
Work ==
  \/ OpenNoRules
  \/ OpenInvalid
  \/ OpenNoData
  \/ OpenScan
  \/ OpenModules
  \/ NextBatch
  \/ EndOfStream

Next ==
  \/ \E r \in Requests : Bind(r)
  \/ Work
  \/ Leave

\* A caller that stays goes on to open and to pull, and the worker's code for
\* either has no loop it could stay in; the caller may leave all the same.
Fairness == WF_vars(Work)

Spec == Init /\ [][Next]_vars /\ Fairness

-----------------------------------------------------------------------------
(* Properties.                                                             *)

ScanRow == [rule : RuleName, namespace : Namespace, tags : Seq(Tag)]

\* Rendered bytes, as text or as hex digits.
Rendered == [form : {"text", "hex"}, of : Seq(Byte)]

HitRow == [rule : RuleName, identifier : PatternName, offset : Int,
           matched : Rendered]

RowType(f) ==
  CASE f = "yara_scan" -> ScanRow
    [] f = "yara_string_matches" -> HitRow
    [] f = "yara_modules" -> Features

\* Every variable holds a value of its kind; there is a producer from the open
\* to the end of the call, and its rows are of the function's row type.
TypeOK ==
  /\ phase \in {"idle", "bound", "open", "ended", "failed"}
  /\ IF phase = "idle"
     THEN request = Null /\ schema = Null /\ received = <<>>
     ELSE /\ request \in Requests
          /\ schema = OutputSchema(request.fn)
          /\ received \in Seq(RowType(request.fn))
  /\ IF phase \in {"open", "ended"}
     THEN /\ producer.rows \in Seq(RowType(request.fn))
          /\ producer.done \in BOOLEAN
     ELSE producer = Null
  /\ phase \in {"bound", "failed"} => received = <<>>

\* README.md:68 and 73: a hit is where it says it is: the bytes rendered as
\* matched are those at its offset in the caller's data, truncated or not.
MatchedIsData ==
  phase # "idle" /\ request.fn = "yara_string_matches" =>
    \A n \in DOMAIN received :
      LET hit == received[n]
          end == hit.offset + Len(hit.matched.of)
      IN  /\ hit.offset >= 0
          /\ end <= Len(request.data)
          /\ SubSeq(request.data, hit.offset + 1, end) = hit.matched.of

\* README.md:87 says that "NULL input" gives "no rows": a call whose data or
\* rules are NULL does not fail.
NullYieldsNoRows ==
  phase = "failed" => request.data # Null /\ request.rules # Null

\* scanning.rs:39-40 says of the bound that "truncation is safe for the matching
\* use case": a scan reports the rules that the data as a whole matches.
TruncationIsSafe ==
  /\ phase = "ended" /\ request.fn = "yara_scan"
  /\ request.rules \in Compilable
  /\ ConstDataBytes(request) # Null
  /\ Bounded(request.data) \notin Fallible
  => received = RuleMatches(Engine[<<request.rules, request.data>>])

Contract == INSTANCE TableContract
  WITH phase <- IF phase = "bound" THEN "open" ELSE phase

\* README.md:62-90: seen by its caller, a table function streams the rows of
\* its result in order and each once, and fails before the first row or never.
ImplementsContract == Contract!ContractSafety

\* scan.rs:144: whoever goes on pulling comes to the end of the stream.
StreamsEnd == phase \in {"bound", "open"} ~> phase \notin {"bound", "open"}

=============================================================================
