--------------------------- MODULE ScalarContract ---------------------------
(***************************************************************************)
(* What the worker's scalar functions promise a caller, one call at a time *)
(* and whatever the loop, the builders and the cache behind it.  A call    *)
(* names a function and carries a batch of rows; one step answers it:      *)
(*                                                                         *)
(*   - with an error if a row at fault is in the batch, and then about the *)
(*     first such row;                                                     *)
(*   - else with one cell per row, each the cell of its own row alone.     *)
(*                                                                         *)
(* Scalars implements this specification; the definitions here are written *)
(* from the engine's report and share none of the worker's helpers.        *)
(***************************************************************************)
EXTENDS ScalarCalls

VARIABLES
  phase,   \* "idle", "busy" with a call, or "replied" to it
  fn,      \* the function called
  batch,   \* its input
  reply    \* the answer, once there is one

contractVars == <<phase, fn, batch, reply>>

-----------------------------------------------------------------------------

\* The part of the data that counts: its first MaxDataLen bytes.
View(d) == SubSeq(d, 1, IF Len(d) < MaxDataLen THEN Len(d) ELSE MaxDataLen)

\* The faults of a row, in the order in which they count.
DataFault(f, b, i) ==
  /\ f \in ScanScalars
  /\ b.rows[i].data # Null
  /\ b.dataType = "other"

RulesFault(b, i) == b.rows[i].rules # Null /\ b.rulesType = "other"

\* An operand that is NULL shields the row from an invalid rule source.
SourceFault(f, b, i) ==
  /\ f \in ScanScalars
  /\ b.rows[i].data # Null
  /\ b.rows[i].rules # Null
  /\ b.rows[i].rules \notin Compilable

AtFault(f, b, i) ==
  DataFault(f, b, i) \/ RulesFault(b, i) \/ SourceFault(f, b, i)

FaultOf(f, b, i) ==
  CASE DataFault(f, b, i) -> [error |-> "data_type", about |-> Null]
    [] ~DataFault(f, b, i) /\ RulesFault(b, i) ->
         [error |-> "rules_type", about |-> Null]
    [] OTHER -> [error |-> "invalid_rules", about |-> b.rows[i].rules]

\* c is what function f makes of the engine's report m.
IsVerdict(f, m, c) ==
  \/ f = "yara_matches" /\ c = (Len(m) > 0)
  \/ f = "yara_first_rule" /\ Len(m) > 0 /\ c = m[1].identifier
  \/ f = "yara_first_rule" /\ Len(m) = 0 /\ c = Null
  \/ f = "yara_match_count" /\ c = Len(m)

\* c is a cell that function f may give for a row that is not at fault.  Data
\* on which the scanner fails gives the verdict of no matching rule.
IsCell(f, r, c) ==
  \/ f = "yara_check" /\ r.rules = Null /\ c = Null
  \/ f = "yara_check" /\ r.rules # Null /\ c = (r.rules \in Compilable)
  \/ f \in ScanScalars /\ (r.data = Null \/ r.rules = Null) /\ c = Null
  \/ /\ f \in ScanScalars /\ r.data # Null /\ r.rules # Null
     /\ \/ IsVerdict(f, Engine[<<r.rules, View(r.data)>>], c)
        \/ View(r.data) \in Fallible /\ IsVerdict(f, <<>>, c)

IsColumn(f, b, col) ==
  /\ \A i \in 1..Len(b.rows) : ~AtFault(f, b, i)
  /\ Len(col) = Len(b.rows)
  /\ \A i \in 1..Len(b.rows) : IsCell(f, b.rows[i], col[i])

IsFirstFault(f, b, i) ==
  /\ i \in 1..Len(b.rows)
  /\ AtFault(f, b, i)
  /\ \A j \in 1..(i - 1) : ~AtFault(f, b, j)

IsAnswer(f, b, r) ==
  \/ r.status = "ok" /\ IsColumn(f, b, r.column)
  \/ /\ r.status = "error"
     /\ \E i \in 1..Len(b.rows) :
          IsFirstFault(f, b, i) /\ r.fault = FaultOf(f, b, i)

-----------------------------------------------------------------------------

ContractInit ==
  /\ phase = "idle"
  /\ fn = Null
  /\ batch = Null
  /\ reply = Null

Ask ==
  /\ phase = "idle"
  /\ phase' = "busy"
  /\ fn' \in ScalarFns
  /\ batch' \in Batches
  /\ reply' = Null

Answer ==
  /\ phase = "busy"
  /\ phase' = "replied"
  /\ IsAnswer(fn, batch, reply')
  /\ UNCHANGED <<fn, batch>>

Collect ==
  /\ phase = "replied"
  /\ phase' = "idle"
  /\ fn' = Null
  /\ batch' = Null
  /\ reply' = Null

ContractNext == Ask \/ Answer \/ Collect

ContractSafety == ContractInit /\ [][ContractNext]_contractVars

\* Every call is answered.
Answered == phase = "busy" ~> phase = "replied"

=============================================================================
