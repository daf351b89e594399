--------------------------- MODULE TableContract ---------------------------
(***************************************************************************)
(* What the worker's table functions promise a caller, whatever the bind,  *)
(* the producer and its batches behind them.  A call streams the rows of   *)
(* its result in order, each once, in as many pieces as it likes, and then *)
(* ends; rules that do not compile end it before the first row.  The       *)
(* caller may leave at any time.                                           *)
(*                                                                         *)
(* Tables implements this specification; the definitions here are written  *)
(* from the engine's report and share none of the worker's helpers.        *)
(***************************************************************************)
EXTENDS TableCalls, FiniteSets

VARIABLES
  phase,     \* "idle", "open" with a call, "ended", or "failed"
  request,   \* the call
  received   \* the rows the caller has so far

contractVars == <<phase, request, received>>

-----------------------------------------------------------------------------
(* The result of a call.                                                   *)

\* The part of the data that counts: its first MaxDataLen bytes.
View(d) == SubSeq(d, 1, IF Len(d) < MaxDataLen THEN Len(d) ELSE MaxDataLen)

Invalid(r) ==
  /\ r.fn \in ScanTables
  /\ r.rules # Null
  /\ r.rules \notin Compilable

\* Data that is NULL, or of a type that is neither BLOB nor VARCHAR, is not
\* there to be scanned.
Scanned(r) ==
  /\ r.fn \in ScanTables
  /\ r.rules \in Compilable
  /\ r.data # Null
  /\ r.dataType # "other"

Report(r) == Engine[<<r.rules, View(r.data)>>]

\* A hit is the position of its rule, of its pattern therein, and its own.
Hits(m) ==
  UNION {UNION {{<<i, p, k>> : k \in DOMAIN m[i].patterns[p].matches} :
                  p \in DOMAIN m[i].patterns} : i \in DOMAIN m}

Earlier(g, h) ==
  \/ g[1] < h[1]
  \/ g[1] = h[1] /\ g[2] < h[2]
  \/ g[1] = h[1] /\ g[2] = h[2] /\ g[3] < h[3]

Rank(m, h) == Cardinality({g \in Hits(m) : Earlier(g, h)}) + 1

\* Printable bytes: printable ASCII, tabs, and printable characters of two
\* bytes, both of them there.
Printable(bytes) ==
  \A i \in DOMAIN bytes :
    \/ bytes[i] \in {"print", "tab"}
    \/ bytes[i] = "lead" /\ i < Len(bytes) /\ bytes[i + 1] = "contPrint"
    \/ bytes[i] = "contPrint" /\ i > 1 /\ bytes[i - 1] = "lead"

\* row is the n-th row of the engine's report m on the bytes b.
IsRow(f, m, b, n, row) ==
  \/ /\ f = "yara_scan"
     /\ n <= Len(m)
     /\ row = [rule |-> m[n].identifier, namespace |-> m[n].namespace,
               tags |-> m[n].tags]
  \/ /\ f = "yara_string_matches"
     /\ \E h \in Hits(m) :
          LET pattern == m[h[1]].patterns[h[2]]
              range == pattern.matches[h[3]]
              bytes == SubSeq(b, range.start + 1, range.end)
          IN  /\ Rank(m, h) = n
              /\ row.rule = m[h[1]].identifier
              /\ row.identifier = pattern.identifier
              /\ row.offset = range.start
              /\ row.matched.of = bytes
              /\ row.matched.form = IF Printable(bytes) THEN "text" ELSE "hex"

RowCount(f, m) ==
  IF f = "yara_scan" THEN Len(m) ELSE Cardinality(Hits(m))

\* rows may be the beginning of the result.
IsPartial(r, rows) ==
  \/ rows = <<>>
  \/ /\ Scanned(r)
     /\ \A n \in DOMAIN rows :
          IsRow(r.fn, Report(r), View(r.data), n, rows[n])
  \/ /\ r.fn = "yara_modules"
     /\ \A n \in DOMAIN rows : rows[n] \in Features
     /\ \A n, k \in DOMAIN rows : n # k => rows[n] # rows[k]

\* rows may be all of the result.
IsWhole(r, rows) ==
  /\ ~Invalid(r)
  /\ IsPartial(r, rows)
  /\ Scanned(r) => \/ Len(rows) = RowCount(r.fn, Report(r))
                   \/ rows = <<>> /\ View(r.data) \in Fallible
  /\ r.fn = "yara_modules" => Len(rows) = Cardinality(Features)

Extends(longer, shorter) ==
  /\ Len(longer) >= Len(shorter)
  /\ \A n \in DOMAIN shorter : longer[n] = shorter[n]

-----------------------------------------------------------------------------

ContractInit ==
  /\ phase = "idle"
  /\ request = Null
  /\ received = <<>>

Ask ==
  /\ phase = "idle"
  /\ phase' = "open"
  /\ request' \in Requests
  /\ received' = <<>>

Deliver ==
  /\ phase = "open"
  /\ ~Invalid(request)
  /\ Extends(received', received)
  /\ IsPartial(request, received')
  /\ UNCHANGED <<phase, request>>

End ==
  /\ phase = "open"
  /\ IsWhole(request, received)
  /\ phase' = "ended"
  /\ UNCHANGED <<request, received>>

Fail ==
  /\ phase = "open"
  /\ Invalid(request)
  /\ received = <<>>
  /\ phase' = "failed"
  /\ UNCHANGED <<request, received>>

Leave ==
  /\ phase # "idle"
  /\ phase' = "idle"
  /\ request' = Null
  /\ received' = <<>>

ContractNext == Ask \/ Deliver \/ End \/ Fail \/ Leave

ContractSafety == ContractInit /\ [][ContractNext]_contractVars

=============================================================================
