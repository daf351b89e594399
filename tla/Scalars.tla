------------------------------ MODULE Scalars ------------------------------
(***************************************************************************)
(* The scalar functions of crates/yara-worker/src/scalar: yara_matches,    *)
(* yara_first_rule and yara_match_count (process_kind in matches.rs, with  *)
(* its one-entry RuleCache) and yara_check (process in check.rs).          *)
(*                                                                         *)
(* A call works through its batch one row per step: it reads the cells,    *)
(* compiles the row's rules unless they are the cached ones, scans, and    *)
(* appends one output cell; the first error returns from the function.     *)
(* Calls follow one another, as the batches of a query do.  The locals of  *)
(* process (row, out, cache) live from the call to its return; compiles is *)
(* a history variable that counts the calls of compile_rules.              *)
(***************************************************************************)
EXTENDS Scanning, ScalarCalls, Announced, FiniteSets

VARIABLES phase, fn, batch, reply, row, out, cache, compiles

interfaceVars == <<phase, fn, batch, reply>>
localVars == <<row, out, cache>>
vars == <<phase, fn, batch, reply, row, out, cache, compiles>>

Contract == INSTANCE ScalarContract

-----------------------------------------------------------------------------
(* Reading the input cells (arrow_io.rs).                                  *)

\* Mutant: the type of the column is checked before the cell for NULL.
BlobBytesTypeFirst(b, i) ==
  IF b.dataType = "other" THEN Error ELSE b.rows[i].data

\* blob_bytes: NULL comes before the column's type.
BlobBytes(b, i) ==
  IF b.rows[i].data = Null THEN Null
  ELSE IF b.dataType \in {"binary", "utf8"} THEN b.rows[i].data
  ELSE Error

\* text_str
TextStr(b, i) ==
  IF b.rows[i].rules = Null THEN Null
  ELSE IF b.rulesType = "utf8" THEN b.rows[i].rules
  ELSE Error

-----------------------------------------------------------------------------
(* The rule cache and the projections of a scan (matches.rs).              *)

\* RuleCache::default()
EmptyCache == [lastSrc |-> Null, lastRules |-> Null]

\* Mutant: any cached rules will do.
IsCachedAny(src) == cache.lastSrc # Null

\* Mutant: the cache does not outlive its row.
IsCachedNever(src) == FALSE

\* RuleCache::get finds its key in the cache.
IsCached(src) == cache.lastSrc = src

\* Mutant: the rules are stored in an empty cache only (get_or_insert).
RefilledOnce(src) ==
  [lastSrc |-> src,
   lastRules |-> IF cache = EmptyCache THEN CompileRules(src) ELSE cache.lastRules]

\* The cache after RuleCache::get compiled src.
Refilled(src) == [lastSrc |-> src, lastRules |-> CompileRules(src)]

\* n as i32: two's complement, 2 * CountLimit wide.
AsI32(n) ==
  LET m == n % (2 * CountLimit)
  IN  IF m < CountLimit THEN m ELSE m - 2 * CountLimit

\* Mutant: no matching rule gives an empty name.
ProjectDefault(f, matched) ==
  CASE f = "yara_matches" -> matched # <<>>
    [] f = "yara_first_rule" -> IF matched = <<>> THEN "" ELSE matched[1].rule
    [] f = "yara_match_count" -> AsI32(Len(matched))

\* The cell Out::append makes of the matching rules.
Project(f, matched) ==
  CASE f = "yara_matches" -> matched # <<>>
    [] f = "yara_first_rule" ->
         IF matched = <<>> THEN Null ELSE matched[1].rule
    [] f = "yara_match_count" -> AsI32(Len(matched))

\* The type of the array the builder makes.
BuilderType(f) ==
  CASE f = "yara_matches" -> Boolean
    [] f = "yara_first_rule" -> Utf8
    [] f = "yara_match_count" -> Int32
    [] f = "yara_check" -> Boolean

-----------------------------------------------------------------------------
(* The phases of a call.                                                   *)

Init ==
  /\ phase = "idle"
  /\ fn = Null
  /\ batch = Null
  /\ reply = Null
  /\ row = 1
  /\ out = <<>>
  /\ cache = EmptyCache
  /\ compiles = 0

\* DuckDB calls process with a batch: Out::new, RuleCache::default().
Call(f, b) ==
  /\ phase = "idle"
  /\ phase' = "busy"
  /\ fn' = f
  /\ batch' = b
  /\ row' = 1
  /\ out' = <<>>
  /\ cache' = EmptyCache
  /\ compiles' = 0
  /\ UNCHANGED reply

\* process returns r, and its locals are dropped.
Return(r) ==
  /\ phase' = "replied"
  /\ reply' = r
  /\ row' = 1
  /\ out' = <<>>
  /\ cache' = EmptyCache
  /\ UNCHANGED <<fn, batch>>

Fail(error, about) ==
  Return([status |-> "error", fault |-> [error |-> error, about |-> about]])

\* The iteration ends with one more cell, for the next row to be read.
AppendCell(c) ==
  /\ out' = Append(out, c)
  /\ row' = row + 1
  /\ UNCHANGED interfaceVars

AtRow == phase = "busy" /\ row <= Len(batch.rows)

\* The two operands of the row, once both columns were read without an error.
DataCell == BlobBytes(batch, row)
RulesCell == TextStr(batch, row)

Readable == DataCell # Error /\ RulesCell # Error
Live == Readable /\ DataCell # Null /\ RulesCell # Null

-----------------------------------------------------------------------------
(* One iteration of process_kind: the data cell is read before the rules.  *)

RejectData ==
  /\ AtRow /\ fn \in ScanScalars
  /\ DataCell = Error
  /\ Fail("data_type", Null)
  /\ UNCHANGED compiles

RejectRules ==
  /\ AtRow
  /\ fn \in ScanScalars => DataCell # Error
  /\ RulesCell = Error
  /\ Fail("rules_type", Null)
  /\ UNCHANGED compiles

NullRow ==
  /\ AtRow /\ fn \in ScanScalars
  /\ Readable /\ ~Live
  /\ AppendCell(Null)
  /\ UNCHANGED <<cache, compiles>>

\* The rules are those of the last live row.
ScanCached ==
  /\ AtRow /\ fn \in ScanScalars
  /\ Live
  /\ IsCached(RulesCell)
  /\ \E m \in ScanRules(cache.lastRules, DataCell) : AppendCell(Project(fn, m))
  /\ UNCHANGED <<cache, compiles>>

\* The rules are compiled, cached, and scanned with.
ScanCompiled ==
  /\ AtRow /\ fn \in ScanScalars
  /\ Live
  /\ ~IsCached(RulesCell)
  /\ CompileRules(RulesCell) # Error
  /\ compiles' = compiles + 1
  /\ cache' = Refilled(RulesCell)
  /\ \E m \in ScanRules(cache'.lastRules, DataCell) : AppendCell(Project(fn, m))

\* The rules do not compile: the whole call fails, rows already done included.
CompileFails ==
  /\ AtRow /\ fn \in ScanScalars
  /\ Live
  /\ ~IsCached(RulesCell)
  /\ CompileRules(RulesCell) = Error
  /\ compiles' = compiles + 1
  /\ Fail("invalid_rules", RulesCell)

-----------------------------------------------------------------------------
(* One iteration of yara_check, which compiles the rules of every row.     *)

\* Mutant: a NULL row goes back to the top of the loop without moving on.
CheckNullStuck ==
  /\ AtRow /\ fn = "yara_check"
  /\ RulesCell = Null
  /\ UNCHANGED vars

CheckNull ==
  /\ AtRow /\ fn = "yara_check"
  /\ RulesCell = Null
  /\ AppendCell(Null)
  /\ UNCHANGED <<cache, compiles>>

CheckRow ==
  /\ AtRow /\ fn = "yara_check"
  /\ RulesCell \notin {Null, Error}
  /\ AppendCell(RulesCompile(RulesCell))
  /\ compiles' = compiles + 1
  /\ UNCHANGED cache

-----------------------------------------------------------------------------

\* After the last row: RecordBatch::try_new refuses an array whose type is not
\* the one announced by on_bind.
Finish ==
  /\ phase = "busy"
  /\ row > Len(batch.rows)
  /\ IF ReturnType(fn) = BuilderType(fn)
     THEN Return([status |-> "ok", column |-> out])
     ELSE Fail("runtime", Null)
  /\ UNCHANGED compiles

\* The caller takes the answer.
Take ==
  /\ phase = "replied"
  /\ phase' = "idle"
  /\ fn' = Null
  /\ batch' = Null
  /\ reply' = Null
  /\ compiles' = 0
  /\ UNCHANGED localVars

\* A step of process itself.
Process ==
  \/ RejectData
  \/ RejectRules
  \/ NullRow
  \/ ScanCached
  \/ ScanCompiled
  \/ CompileFails
  \/ CheckNull
  \/ CheckRow
  \/ Finish

Next ==
  \/ \E f \in ScalarFns, b \in Batches : Call(f, b)
  \/ Process
  \/ Take

\* The loop of process is straight-line code: it goes on while it can.  The
\* caller need neither call nor take an answer.
Fairness == WF_vars(Process)

Spec == Init /\ [][Next]_vars /\ Fairness

-----------------------------------------------------------------------------
(* Properties.                                                             *)

CellType(f) ==
  CASE f = "yara_first_rule" -> RuleName \cup {Null}
    [] f = "yara_match_count" -> (-CountLimit)..(CountLimit - 1) \cup {Null}
    [] OTHER -> BOOLEAN \cup {Null}

Faults == [error : {"data_type", "rules_type", "invalid_rules", "runtime"},
           about : Source \cup {Null}]

\* Every variable holds a value of its kind: the call under way, the position
\* in its batch, the cells of the builder's type, the cache, the answer.
TypeOK ==
  /\ \/ phase = "idle" /\ fn = Null /\ batch = Null
     \/ phase \in {"busy", "replied"} /\ fn \in ScalarFns /\ batch \in Batches
  /\ row \in Nat
  /\ phase = "busy" => out \in Seq(CellType(fn))
  /\ phase # "busy" => out = <<>>
  /\ cache \in [lastSrc : Source \cup {Null}, lastRules : Compilable \cup {Null}]
  /\ compiles \in Nat
  /\ phase # "replied" => reply = Null
  /\ phase = "replied" =>
       \/ /\ reply.status = "ok"
          /\ reply.column \in Seq(CellType(fn))
       \/ /\ reply.status = "error"
          /\ reply.fault \in Faults

\* matches.rs:37: the cached rules are always those of the cached source, and a
\* cached source has rules: the expect("just set") of RuleCache::get, reached
\* after any mix of rows, finds them.
CacheSound ==
  cache.lastSrc # Null =>
    /\ cache.lastSrc \in Compilable
    /\ cache.lastRules = cache.lastSrc

\* Row i has both operands, so it is scanned.
LiveRow(i) == batch.rows[i].data # Null /\ batch.rows[i].rules # Null

\* The live rows among the first n whose rules are not those of the live row
\* before them.
Changes(n) ==
  {i \in 1..n :
     /\ LiveRow(i)
     /\ \A j \in 1..(i - 1) :
          /\ LiveRow(j)
          /\ \A k \in (j + 1)..(i - 1) : ~LiveRow(k)
          => batch.rows[j].rules # batch.rows[i].rules}

\* matches.rs:30: a scan function compiles exactly when the rules change from
\* one live row to the next; NULL rows in between neither compile nor evict, so
\* a constant rules column compiles once per batch.
CompilesOnlyOnChange ==
  phase = "busy" /\ fn \in ScanScalars =>
    compiles = Cardinality(Changes(row - 1))

\* main.rs:172 says of the scan functions that "Rules are compiled once per
\* batch and reused": no source is compiled a second time in a batch.
CompiledOncePerSource ==
  phase = "busy" /\ fn \in ScanScalars =>
    compiles <= Cardinality({batch.rows[i].rules : i \in Changes(row - 1)})

\* The loop invariant of process: the rows read so far are not at fault, and
\* each has the one cell that the contract allows for it.
RowsAnswered ==
  phase = "busy" =>
    /\ row \in 1..(Len(batch.rows) + 1)
    /\ Len(out) = row - 1
    /\ \A i \in 1..(row - 1) :
         /\ ~Contract!AtFault(fn, batch, i)
         /\ Contract!IsCell(fn, batch.rows[i], out[i])

\* README.md:75-90, matches.rs:151: seen by its caller, a scalar call is one
\* step that answers every row by its own operands or the whole batch with its
\* first fault: the loop, the cache, hostile neighbours and earlier calls do
\* not show.
ImplementsContract == Contract!ContractSafety

\* matches.rs:158: a call that was made is answered, whatever its rows hold.
EveryCallAnswered == Contract!Answered

=============================================================================
