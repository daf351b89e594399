--------------------------- MODULE ScalarsProofs ---------------------------
(***************************************************************************)
(* Proofs about Scalars, for every engine, every set of batches and every  *)
(* width: type correctness, the coherence of the rule cache, the loop      *)
(* invariant, that Scalars implements ScalarContract, how often the scan   *)
(* functions compile, and how many steps a call takes.                     *)
(***************************************************************************)
EXTENDS Scalars, SequenceTheorems, FiniteSetTheorems, WellFoundedInduction, TLAPS

USE DEF interfaceVars, localVars

-----------------------------------------------------------------------------
(* The operators a step of process is built from.                          *)

\* What the scanner is given is what the contract calls the view of the data.
LEMMA BoundedIsView ==
  ASSUME NEW d \in Data
  PROVE  Bounded(d) = Contract!View(d) /\ Bounded(d) \in Data
<1>1. d \in Seq(Byte) /\ MaxDataLen \in Nat
  BY EngineAssumption
<1>2. CASE Len(d) > MaxDataLen
  <2>1. Bounded(d) = SubSeq(d, 1, MaxDataLen)
    BY <1>2 DEF Bounded
  <2>2. Contract!View(d) = SubSeq(d, 1, MaxDataLen)
    BY <1>1, <1>2 DEF Contract!View
  <2> QED
    BY <2>1, <2>2, <1>2, EngineAssumption
<1>3. CASE ~(Len(d) > MaxDataLen)
  <2>1. Bounded(d) = d
    BY <1>3 DEF Bounded
  <2>2. Contract!View(d) = SubSeq(d, 1, Len(d))
    BY <1>1, <1>3 DEF Contract!View
  <2>3. SubSeq(d, 1, Len(d)) = d
    BY <1>1, SubSeqFull
  <2> QED
    BY <2>1, <2>2, <2>3
<1> QED
  BY <1>2, <1>3

\* A scan returns the rules the engine reports of the view, or none at all
\* where the scanner may fail.
LEMMA ScanOutcome ==
  ASSUME NEW s \in Compilable, NEW d \in Data, NEW m \in ScanRules(s, d)
  PROVE  \E r \in Seq(EngineRule) :
           /\ \/ r = Engine[<<s, Contract!View(d)>>]
              \/ Contract!View(d) \in Fallible /\ r = <<>>
           /\ m = RuleMatches(r)
           /\ Len(r) < CountLimit
<1> DEFINE v == Contract!View(d)
<1>1. v \in Data /\ Bounded(d) = v
  BY BoundedIsView
<1>2. Engine[<<s, v>>] \in Seq(EngineRule) /\ Len(Engine[<<s, v>>]) < CountLimit
  BY <1>1, EngineAssumption, CountAssumption
<1>3. Engine[<<s, v>>] # Error
  BY <1>2, MarkerAssumption
<1>4. PICK r \in ScanResults(s, v) :
        m = IF r = Error THEN <<>> ELSE RuleMatches(r)
  BY <1>1 DEF ScanRules
<1>5. CASE r = Engine[<<s, v>>]
  BY <1>2, <1>3, <1>4, <1>5
<1>6. CASE r = Error /\ v \in Fallible
  <2>1. m = <<>>
    BY <1>4, <1>6
  <2>2. RuleMatches(<<>>) = <<>>
    BY DEF RuleMatches
  <2>3. <<>> \in Seq(EngineRule) /\ Len(<<>>) = 0
    OBVIOUS
  <2>4. Len(<<>>) < CountLimit
    BY <2>3, <1>2, CountAssumption
  <2> QED
    BY <2>1, <2>2, <2>3, <2>4, <1>6
<1> QED
  BY <1>4, <1>5, <1>6 DEF ScanResults

\* RuleMatches keeps the number, the order and the names of the rules.
LEMMA RuleMatchesKeep ==
  ASSUME NEW r \in Seq(EngineRule)
  PROVE  /\ Len(RuleMatches(r)) = Len(r)
         /\ RuleMatches(r) = <<>> <=> Len(r) = 0
         /\ Len(r) > 0 => /\ RuleMatches(r)[1].rule = r[1].identifier
                          /\ r[1].identifier \in RuleName
<1>0. /\ DOMAIN r = 1..Len(r) /\ Len(r) \in Nat
      /\ \A i \in 1..Len(r) : r[i] \in EngineRule
  BY ElementOfSeq
<1>4. /\ DOMAIN RuleMatches(r) = 1..Len(r)
      /\ \A i \in 1..Len(r) : /\ RuleMatches(r)[i].rule = r[i].identifier
                              /\ RuleMatches(r)[i] \in RuleMatch
  BY <1>0 DEF RuleMatches, RuleMatch, EngineRule
<1>1. RuleMatches(r) \in Seq(RuleMatch) /\ Len(RuleMatches(r)) = Len(r)
  <2>1. RuleMatches(r) = [i \in 1..Len(r) |-> RuleMatches(r)[i]]
    BY <1>0 DEF RuleMatches
  <2> QED
    BY <1>0, <1>4, <2>1
<1>2. RuleMatches(r) = <<>> <=> Len(r) = 0
  BY <1>1, EmptySeq
<1>3. ASSUME Len(r) > 0
      PROVE  /\ RuleMatches(r)[1].rule = r[1].identifier
             /\ r[1].identifier \in RuleName
  BY <1>0, <1>4, <1>3 DEF EngineRule
<1> QED
  BY <1>1, <1>2, <1>3

\* A count below the limit survives the conversion to an Int32.
LEMMA AsI32Small ==
  ASSUME NEW n \in Nat, n < CountLimit
  PROVE  AsI32(n) = n
<1>1. CountLimit \in Nat
  BY CountAssumption
<1>2. n % (2 * CountLimit) = n
  BY <1>1, SMT
<1> QED
  BY <1>2 DEF AsI32

\* The projection of a scan is the verdict the contract asks for, and fits the
\* builder.
LEMMA ProjectIsVerdict ==
  ASSUME NEW f \in ScanScalars, NEW r \in Seq(EngineRule), Len(r) < CountLimit
  PROVE  /\ Contract!IsVerdict(f, r, Project(f, RuleMatches(r)))
         /\ Project(f, RuleMatches(r)) \in CellType(f)
<1> DEFINE m == RuleMatches(r)
<1>0. /\ Len(m) = Len(r)
      /\ m = <<>> <=> Len(r) = 0
      /\ Len(r) > 0 => m[1].rule = r[1].identifier /\ r[1].identifier \in RuleName
      /\ Len(r) \in Nat
  BY RuleMatchesKeep
<1> HIDE DEF m
<1>1. CASE f = "yara_matches"
  <2>1. Project(f, m) = (m # <<>>)
    BY <1>1 DEF Project
  <2>2. (m # <<>>) = (Len(r) > 0)
    BY <1>0
  <2>3. CellType(f) = BOOLEAN \cup {Null}
    BY <1>1 DEF CellType
  <2> QED
    BY <1>1, <2>1, <2>2, <2>3 DEF Contract!IsVerdict, m
<1>2. CASE f = "yara_first_rule"
  <2>1. Project(f, m) = IF m = <<>> THEN Null ELSE m[1].rule
    BY <1>2 DEF Project
  <2>2. CellType(f) = RuleName \cup {Null}
    BY <1>2 DEF CellType
  <2> QED
    BY <1>0, <1>2, <2>1, <2>2 DEF Contract!IsVerdict, m
<1>3. CASE f = "yara_match_count"
  <2>1. Project(f, m) = Len(r)
    BY <1>0, <1>3, AsI32Small DEF Project
  <2>2. CellType(f) = (-CountLimit)..(CountLimit - 1) \cup {Null}
    BY <1>3 DEF CellType
  <2>3. Len(r) \in (-CountLimit)..(CountLimit - 1)
    BY <1>0, CountAssumption
  <2> QED
    BY <1>3, <2>1, <2>2, <2>3 DEF Contract!IsVerdict, m
<1> QED
  BY <1>1, <1>2, <1>3 DEF ScanScalars

-----------------------------------------------------------------------------
(* The inductive invariant.  The cell appended for a row is right because  *)
(* the cached rules are those of the cached source; the cache is coherent  *)
(* because only sources that compiled enter it, together with their rules. *)

IInv == TypeOK /\ CacheSound /\ RowsAnswered

\* The operands of the row under way, and how they relate to its faults.
LEMMA RowFacts ==
  ASSUME IInv, AtRow
  PROVE  /\ batch \in Batches /\ fn \in ScalarFns
         /\ row \in 1..Len(batch.rows) /\ Len(batch.rows) \in Nat
         /\ batch.rows[row] \in Row
         /\ batch.dataType \in {"binary", "utf8", "other"}
         /\ batch.rulesType \in {"utf8", "other"}
         /\ DataCell \in Data \cup {Null, Error}
         /\ RulesCell \in Source \cup {Null, Error}
         /\ DataCell = Error <=>
              batch.rows[row].data # Null /\ batch.dataType = "other"
         /\ RulesCell = Error <=>
              batch.rows[row].rules # Null /\ batch.rulesType = "other"
         /\ DataCell # Error => DataCell = batch.rows[row].data
         /\ RulesCell # Error => RulesCell = batch.rows[row].rules
<1>1. /\ phase = "busy" /\ fn \in ScalarFns /\ batch \in Batches
      /\ row \in Nat /\ row <= Len(batch.rows) /\ row \in 1..(Len(batch.rows) + 1)
  BY DEF IInv, TypeOK, RowsAnswered, AtRow
<1>2. batch \in Batch
  BY <1>1, BatchAssumption
<1>3. /\ batch.rows \in Seq(Row)
      /\ batch.dataType \in {"binary", "utf8", "other"}
      /\ batch.rulesType \in {"utf8", "other"}
  BY <1>2 DEF Batch
<1>4. Len(batch.rows) \in Nat /\ row \in 1..Len(batch.rows)
  BY <1>1, <1>3
<1>5. batch.rows[row] \in Row
  BY <1>3, <1>4, ElementOfSeq
<1>6. /\ batch.rows[row].data \in Data \cup {Null}
      /\ batch.rows[row].rules \in Source \cup {Null}
  BY <1>5 DEF Row
<1>7. /\ batch.rows[row].data # Error
      /\ batch.rows[row].rules # Error
  BY <1>6, MarkerAssumption
<1>8. /\ DataCell \in Data \cup {Null, Error}
      /\ DataCell = Error <=>
           batch.rows[row].data # Null /\ batch.dataType = "other"
      /\ DataCell # Error => DataCell = batch.rows[row].data
  BY <1>3, <1>6, <1>7, MarkerAssumption DEF DataCell, BlobBytes
<1>9. /\ RulesCell \in Source \cup {Null, Error}
      /\ RulesCell = Error <=>
           batch.rows[row].rules # Null /\ batch.rulesType = "other"
      /\ RulesCell # Error => RulesCell = batch.rows[row].rules
  BY <1>3, <1>6, <1>7, MarkerAssumption DEF RulesCell, TextStr
<1> QED
  BY <1>1, <1>3, <1>4, <1>5, <1>8, <1>9

\* A live row has data and a source.
LEMMA LiveFacts ==
  ASSUME IInv, AtRow, Live
  PROVE  /\ DataCell \in Data /\ DataCell = batch.rows[row].data
         /\ RulesCell \in Source /\ RulesCell = batch.rows[row].rules
         /\ batch.rows[row].data # Null /\ batch.rows[row].rules # Null
         /\ batch.dataType # "other" /\ batch.rulesType # "other"
  BY RowFacts, MarkerAssumption DEF Live, Readable

\* Scanning a live row with its own rules gives a cell of the contract.
LEMMA ScannedCell ==
  ASSUME IInv, AtRow, fn \in ScanScalars, Live, RulesCell \in Compilable,
         NEW m \in ScanRules(RulesCell, DataCell)
  PROVE  /\ ~Contract!AtFault(fn, batch, row)
         /\ Contract!IsCell(fn, batch.rows[row], Project(fn, m))
         /\ Project(fn, m) \in CellType(fn)
<1> DEFINE d == batch.rows[row].data
           s == batch.rows[row].rules
<1>1. d \in Data /\ DataCell = d /\ d # Null /\ s # Null /\ RulesCell = s
  BY LiveFacts
<1>2. PICK r \in Seq(EngineRule) :
        /\ \/ r = Engine[<<s, Contract!View(d)>>]
           \/ Contract!View(d) \in Fallible /\ r = <<>>
        /\ m = RuleMatches(r)
        /\ Len(r) < CountLimit
  BY <1>1, ScanOutcome
<1>3. /\ Contract!IsVerdict(fn, r, Project(fn, m))
      /\ Project(fn, m) \in CellType(fn)
  BY <1>2, ProjectIsVerdict
<1>4. Contract!IsCell(fn, batch.rows[row], Project(fn, m))
  BY <1>1, <1>2, <1>3 DEF Contract!IsCell, Contract!ScanScalars, ScanScalars
<1>5. ~Contract!AtFault(fn, batch, row)
  BY LiveFacts DEF Contract!AtFault, Contract!DataFault, Contract!RulesFault,
                   Contract!SourceFault
<1> QED
  BY <1>3, <1>4, <1>5

\* A right cell appended for the row under way keeps the invariant, if what the
\* step does to the cache does.
LEMMA AppendKeeps ==
  ASSUME IInv, AtRow,
         NEW c \in CellType(fn), AppendCell(c),
         ~Contract!AtFault(fn, batch, row),
         Contract!IsCell(fn, batch.rows[row], c),
         cache' \in [lastSrc : Source \cup {Null}, lastRules : Compilable \cup {Null}],
         CacheSound', compiles' \in Nat
  PROVE  IInv'
<1>1. /\ phase = "busy" /\ fn \in ScalarFns /\ batch \in Batches
      /\ row \in 1..Len(batch.rows) /\ Len(batch.rows) \in Nat
      /\ out \in Seq(CellType(fn)) /\ reply = Null
      /\ Len(out) = row - 1
  BY RowFacts DEF IInv, TypeOK, RowsAnswered, AtRow
<1>2. /\ phase' = "busy" /\ fn' = fn /\ batch' = batch /\ reply' = Null
      /\ row' = row + 1 /\ out' = Append(out, c)
  BY <1>1 DEF AppendCell
<1>3. /\ out' \in Seq(CellType(fn)) /\ Len(out') = row
      /\ \A i \in 1..(row - 1) : out'[i] = out[i]
      /\ out'[row] = c
  BY <1>1, <1>2, AppendProperties, SMTT(30)
<1>4. TypeOK'
  BY <1>1, <1>2, <1>3 DEF TypeOK, CellType
<1>5. \A i \in 1..row : /\ ~Contract!AtFault(fn, batch, i)
                        /\ Contract!IsCell(fn, batch.rows[i], out'[i])
  <2> TAKE i \in 1..row
  <2>1. CASE i = row
    BY <2>1, <1>3
  <2>2. CASE i # row
    <3>1. i \in 1..(row - 1)
      BY <1>1, <2>2
    <3>2. /\ ~Contract!AtFault(fn, batch, i)
          /\ Contract!IsCell(fn, batch.rows[i], out[i])
      BY <1>1, <3>1 DEF IInv, RowsAnswered
    <3> QED
      BY <1>3, <3>1, <3>2
  <2> QED
    BY <2>1, <2>2
<1>6. /\ row' \in 1..(Len(batch'.rows) + 1) /\ Len(out') = row' - 1
      /\ row' - 1 = row
  BY <1>1, <1>2, <1>3
<1>7. RowsAnswered'
  BY <1>2, <1>5, <1>6 DEF RowsAnswered
<1> QED
  BY <1>4, <1>7 DEF IInv

\* Returning a column of the builder's type, or an error, keeps the invariant.
LEMMA ReturnKeeps ==
  ASSUME IInv, phase = "busy", NEW r, Return(r), compiles' \in Nat,
         \/ r.status = "ok" /\ r.column \in Seq(CellType(fn))
         \/ r.status = "error" /\ r.fault \in Faults
  PROVE  IInv'
<1>1. fn \in ScalarFns /\ batch \in Batches
  BY DEF IInv, TypeOK
<1>2. /\ phase' = "replied" /\ reply' = r /\ row' = 1 /\ out' = <<>>
      /\ cache' = EmptyCache /\ fn' = fn /\ batch' = batch
  BY DEF Return
<1>3. TypeOK'
  BY <1>1, <1>2 DEF TypeOK, EmptyCache, CellType
<1>4. CacheSound' /\ RowsAnswered'
  BY <1>2 DEF CacheSound, EmptyCache, RowsAnswered
<1> QED
  BY <1>3, <1>4 DEF IInv

LEMMA FailKeeps ==
  ASSUME IInv, phase = "busy", compiles' \in Nat,
         NEW e \in {"data_type", "rules_type", "invalid_rules", "runtime"},
         NEW a \in Source \cup {Null},
         Fail(e, a)
  PROVE  IInv'
<1> DEFINE r == [status |-> "error", fault |-> [error |-> e, about |-> a]]
<1>1. r.status = "error" /\ r.fault \in Faults
  BY DEF Faults
<1>2. Return(r)
  BY DEF Fail
<1> HIDE DEF r
<1> QED
  BY <1>1, <1>2, ReturnKeeps

LEMMA InitIInv == Init => IInv
<1> SUFFICES ASSUME Init PROVE IInv
  OBVIOUS
<1>1. TypeOK
  BY DEF Init, TypeOK, EmptyCache
<1>2. CacheSound /\ RowsAnswered
  BY DEF Init, CacheSound, EmptyCache, RowsAnswered
<1> QED
  BY <1>1, <1>2 DEF IInv

\* Each iteration that appends: the cell is of the builder's type and right.
LEMMA NullRowKeeps == IInv /\ NullRow => IInv'
<1> SUFFICES ASSUME IInv, NullRow PROVE IInv'
  OBVIOUS
<1>1. /\ AtRow /\ fn \in ScanScalars /\ AppendCell(Null)
      /\ cache' = cache /\ compiles' = compiles
      /\ DataCell # Error /\ RulesCell # Error
      /\ DataCell = Null \/ RulesCell = Null
  BY DEF NullRow, Readable, Live
<1>2. batch.rows[row].data = Null \/ batch.rows[row].rules = Null
  BY <1>1, RowFacts
<1>3. ~Contract!AtFault(fn, batch, row)
  BY <1>1, <1>2, RowFacts DEF Contract!AtFault, Contract!DataFault,
                              Contract!RulesFault, Contract!SourceFault
<1>4. Contract!IsCell(fn, batch.rows[row], Null)
  BY <1>1, <1>2 DEF Contract!IsCell, ScanScalars, Contract!ScanScalars
<1>5. Null \in CellType(fn)
  BY <1>1 DEF CellType, ScanScalars
<1>6. /\ cache' \in [lastSrc : Source \cup {Null}, lastRules : Compilable \cup {Null}]
      /\ CacheSound' /\ compiles' \in Nat
  BY <1>1 DEF IInv, TypeOK, CacheSound
<1> QED
  BY <1>1, <1>3, <1>4, <1>5, <1>6, AppendKeeps

LEMMA ScanCachedKeeps == IInv /\ ScanCached => IInv'
<1> SUFFICES ASSUME IInv, ScanCached PROVE IInv'
  OBVIOUS
<1>1. /\ AtRow /\ fn \in ScanScalars /\ Live
      /\ cache.lastSrc = RulesCell
      /\ cache' = cache /\ compiles' = compiles
  BY DEF ScanCached, IsCached
<1>2. PICK m \in ScanRules(cache.lastRules, DataCell) : AppendCell(Project(fn, m))
  BY DEF ScanCached
<1>3. RulesCell \in Source /\ RulesCell # Null
  BY <1>1, LiveFacts
<1>4. RulesCell \in Compilable /\ cache.lastRules = RulesCell
  BY <1>1, <1>3 DEF IInv, CacheSound
<1>5. /\ ~Contract!AtFault(fn, batch, row)
      /\ Contract!IsCell(fn, batch.rows[row], Project(fn, m))
      /\ Project(fn, m) \in CellType(fn)
  BY <1>1, <1>2, <1>4, ScannedCell
<1>6. /\ cache' \in [lastSrc : Source \cup {Null}, lastRules : Compilable \cup {Null}]
      /\ CacheSound' /\ compiles' \in Nat
  BY <1>1 DEF IInv, TypeOK, CacheSound
<1> QED
  BY <1>1, <1>2, <1>5, <1>6, AppendKeeps

LEMMA ScanCompiledKeeps == IInv /\ ScanCompiled => IInv'
<1> SUFFICES ASSUME IInv, ScanCompiled PROVE IInv'
  OBVIOUS
<1>1. /\ AtRow /\ fn \in ScanScalars /\ Live
      /\ CompileRules(RulesCell) # Error
      /\ cache' = Refilled(RulesCell) /\ compiles' = compiles + 1
  BY DEF ScanCompiled
<1>2. RulesCell \in Source /\ RulesCell \in Compilable
  BY <1>1, LiveFacts DEF CompileRules
<1>3. cache' = [lastSrc |-> RulesCell, lastRules |-> RulesCell]
  BY <1>1, <1>2 DEF Refilled, CompileRules
<1>4. PICK m \in ScanRules(RulesCell, DataCell) : AppendCell(Project(fn, m))
  BY <1>3 DEF ScanCompiled
<1>5. /\ ~Contract!AtFault(fn, batch, row)
      /\ Contract!IsCell(fn, batch.rows[row], Project(fn, m))
      /\ Project(fn, m) \in CellType(fn)
  BY <1>1, <1>2, <1>4, ScannedCell
<1>6. /\ cache' \in [lastSrc : Source \cup {Null}, lastRules : Compilable \cup {Null}]
      /\ CacheSound'
  BY <1>2, <1>3 DEF CacheSound
<1>7. compiles' \in Nat
  BY <1>1 DEF IInv, TypeOK
<1> QED
  BY <1>1, <1>4, <1>5, <1>6, <1>7, AppendKeeps

LEMMA CheckKeeps == IInv /\ (CheckNull \/ CheckRow) => IInv'
<1> SUFFICES ASSUME IInv, CheckNull \/ CheckRow PROVE IInv'
  OBVIOUS
<1>1. /\ AtRow /\ fn = "yara_check" /\ RulesCell # Error
      /\ cache' = cache /\ compiles' \in Nat
  BY MarkerAssumption DEF CheckNull, CheckRow, IInv, TypeOK
<1>2. /\ CacheSound'
      /\ cache' \in [lastSrc : Source \cup {Null}, lastRules : Compilable \cup {Null}]
  BY <1>1 DEF IInv, TypeOK, CacheSound
<1>3. ~Contract!AtFault(fn, batch, row)
  BY <1>1, RowFacts DEF Contract!AtFault, Contract!DataFault, Contract!RulesFault,
                        Contract!SourceFault, Contract!ScanScalars
<1>4. CellType(fn) = BOOLEAN \cup {Null}
  BY <1>1 DEF CellType
<1>5. CASE CheckNull
  <2>1. AppendCell(Null) /\ batch.rows[row].rules = Null
    BY <1>1, <1>5, RowFacts DEF CheckNull
  <2>2. Contract!IsCell(fn, batch.rows[row], Null)
    BY <1>1, <2>1 DEF Contract!IsCell
  <2>3. Null \in CellType(fn)
    BY <1>4
  <2> QED
    BY <1>1, <1>2, <1>3, <2>1, <2>2, <2>3, AppendKeeps
<1>6. CASE CheckRow
  <2> DEFINE c == RulesCompile(RulesCell)
  <2>1. AppendCell(c) /\ batch.rows[row].rules = RulesCell /\ RulesCell \in Source
        /\ RulesCell # Null
    BY <1>1, <1>6, RowFacts DEF CheckRow
  <2>2. c = (RulesCell \in Compilable)
    BY <2>1, EngineAssumption, MarkerAssumption DEF RulesCompile, CompileRules
  <2>3. Contract!IsCell(fn, batch.rows[row], c)
    BY <1>1, <2>1, <2>2 DEF Contract!IsCell
  <2>4. c \in CellType(fn)
    BY <1>4, <2>2
  <2> HIDE DEF c
  <2> QED
    BY <1>1, <1>2, <1>3, <2>1, <2>3, <2>4, AppendKeeps
<1> QED
  BY <1>5, <1>6

\* The iterations that return an error, and the return of the column.
LEMMA ReturnsKeep ==
  IInv /\ (RejectData \/ RejectRules \/ CompileFails \/ Finish) => IInv'
<1> SUFFICES ASSUME IInv, RejectData \/ RejectRules \/ CompileFails \/ Finish
             PROVE  IInv'
  OBVIOUS
<1>1. phase = "busy" /\ compiles' \in Nat
  BY DEF RejectData, RejectRules, CompileFails, Finish, AtRow, IInv, TypeOK
<1>2. CASE RejectData
  BY <1>1, <1>2, FailKeeps DEF RejectData
<1>3. CASE RejectRules
  BY <1>1, <1>3, FailKeeps DEF RejectRules
<1>4. CASE CompileFails
  <2>1. RulesCell \in Source
    BY <1>4, LiveFacts DEF CompileFails
  <2> QED
    BY <1>1, <1>4, <2>1, FailKeeps DEF CompileFails
<1>5. CASE Finish
  <2>1. CASE ReturnType(fn) = BuilderType(fn)
    <3> DEFINE r == [status |-> "ok", column |-> out]
    <3>1. r.status = "ok" /\ r.column \in Seq(CellType(fn))
      BY <1>1 DEF IInv, TypeOK
    <3>2. Return(r)
      BY <1>5, <2>1 DEF Finish
    <3> HIDE DEF r
    <3> QED
      BY <1>1, <3>1, <3>2, ReturnKeeps
  <2>2. CASE ReturnType(fn) # BuilderType(fn)
    BY <1>1, <1>5, <2>2, FailKeeps DEF Finish
  <2> QED
    BY <2>1, <2>2
<1> QED
  BY <1>2, <1>3, <1>4, <1>5

LEMMA CallerKeeps ==
  IInv /\ (Take \/ \E f \in ScalarFns, b \in Batches : Call(f, b)) => IInv'
<1> SUFFICES ASSUME IInv, Take \/ \E f \in ScalarFns, b \in Batches : Call(f, b)
             PROVE  IInv'
  OBVIOUS
<1>1. CASE Take
  <2>1. TypeOK'
    BY <1>1 DEF Take, IInv, TypeOK
  <2>2. CacheSound' /\ RowsAnswered'
    BY <1>1 DEF Take, IInv, CacheSound, RowsAnswered
  <2> QED
    BY <2>1, <2>2 DEF IInv
<1>2. ASSUME NEW f \in ScalarFns, NEW b \in Batches, Call(f, b)
      PROVE  IInv'
  <2>1. b.rows \in Seq(Row)
    BY BatchAssumption DEF Batch
  <2>2. TypeOK'
    <3>1. /\ phase' = "busy" /\ fn' = f /\ batch' = b /\ row' = 1 /\ out' = <<>>
          /\ cache' = EmptyCache /\ compiles' = 0 /\ reply' = Null
      BY <1>2 DEF Call, IInv, TypeOK
    <3>2. <<>> \in Seq(CellType(fn'))
      OBVIOUS
    <3> QED
      BY <3>1, <3>2 DEF TypeOK, EmptyCache, CellType
  <2>3. CacheSound' /\ RowsAnswered'
    <3>1. Len(b.rows) \in Nat /\ Len(<<>>) = 0
      BY <2>1
    <3> QED
      BY <1>2, <3>1 DEF Call, CacheSound, EmptyCache, RowsAnswered
  <2> QED
    BY <2>2, <2>3 DEF IInv
<1> QED
  BY <1>1, <1>2

LEMMA NextIInv == IInv /\ [Next]_vars => IInv'
<1> SUFFICES ASSUME IInv, [Next]_vars PROVE IInv'
  OBVIOUS
<1>1. CASE UNCHANGED vars
  <2>1. TypeOK'
    BY <1>1 DEF IInv, TypeOK, vars
  <2>2. CacheSound'
    BY <1>1 DEF IInv, CacheSound, vars
  <2>3. RowsAnswered'
    BY <1>1 DEF IInv, RowsAnswered, vars
  <2> QED
    BY <2>1, <2>2, <2>3 DEF IInv
<1>2. CASE Next
  BY <1>2, NullRowKeeps, ScanCachedKeeps, ScanCompiledKeeps, CheckKeeps,
     ReturnsKeep, CallerKeeps DEF Next, Process
<1> QED
  BY <1>1, <1>2

LEMMA Inductive == Spec => []IInv
<1> QED
  BY InitIInv, NextIInv, PTL DEF Spec

\* Every variable holds a value of its kind, in every reachable state.
THEOREM TypeCorrect == Spec => []TypeOK
<1>1. IInv => TypeOK
  BY DEF IInv
<1> QED
  BY <1>1, Inductive, PTL

\* RuleCache::get never answers with another source's rules, and its
\* expect("just set") never fails.
THEOREM CacheIsSound == Spec => []CacheSound
<1>1. IInv => CacheSound
  BY DEF IInv
<1> QED
  BY <1>1, Inductive, PTL

\* Wherever process is in its loop, the cells built so far are those the
\* contract allows for the rows read so far, none of which is at fault.
THEOREM LoopInvariant == Spec => []RowsAnswered
<1>1. IInv => RowsAnswered
  BY DEF IInv
<1> QED
  BY <1>1, Inductive, PTL

-----------------------------------------------------------------------------
(* Scalars implements ScalarContract.                                      *)

\* An iteration that appends does not show.
LEMMA AppendStutters ==
  ASSUME NEW c, AppendCell(c)
  PROVE  UNCHANGED Contract!contractVars
BY DEF AppendCell, Contract!contractVars

\* The first row at fault is the one the call fails for, and with its fault.
LEMMA FailAnswers ==
  ASSUME IInv, AtRow, NEW e, NEW a, Fail(e, a),
         Contract!AtFault(fn, batch, row),
         Contract!FaultOf(fn, batch, row) = [error |-> e, about |-> a]
  PROVE  Contract!Answer
<1>1. /\ phase = "busy" /\ row \in 1..Len(batch.rows)
  BY RowFacts DEF AtRow
<1>2. \A j \in 1..(row - 1) : ~Contract!AtFault(fn, batch, j)
  BY <1>1 DEF IInv, RowsAnswered
<1>3. Contract!IsFirstFault(fn, batch, row)
  BY <1>1, <1>2 DEF Contract!IsFirstFault
<1>4. /\ reply' = [status |-> "error", fault |-> [error |-> e, about |-> a]]
      /\ phase' = "replied" /\ fn' = fn /\ batch' = batch
  BY DEF Fail, Return
<1>5. Contract!IsAnswer(fn, batch, reply')
  <2>1. /\ reply'.status = "error"
        /\ reply'.fault = Contract!FaultOf(fn, batch, row)
    BY <1>4
  <2> QED
    BY <1>1, <1>3, <2>1 DEF Contract!IsAnswer
<1> QED
  BY <1>1, <1>4, <1>5 DEF Contract!Answer

LEMMA StepRefines == IInv /\ [Next]_vars => [Contract!ContractNext]_(Contract!contractVars)
<1> SUFFICES ASSUME IInv, [Next]_vars
             PROVE  Contract!ContractNext \/ UNCHANGED Contract!contractVars
  OBVIOUS
<1>1. CASE UNCHANGED vars
  BY <1>1 DEF vars, Contract!contractVars
<1>2. ASSUME NEW f \in ScalarFns, NEW b \in Batches, Call(f, b)
      PROVE  Contract!Ask
  <2>1. /\ phase = "idle" /\ phase' = "busy" /\ fn' = f /\ batch' = b
        /\ reply' = Null
    BY <1>2 DEF Call, IInv, TypeOK
  <2> QED
    BY <2>1 DEF Contract!Ask, ScalarFns, ScanScalars, Contract!ScalarFns,
                Contract!ScanScalars
<1>3. CASE Take
  BY <1>3 DEF Take, Contract!Collect, Contract!ContractNext
<1>4. CASE NullRow \/ ScanCached \/ ScanCompiled \/ CheckNull \/ CheckRow
  BY <1>4, AppendStutters DEF NullRow, ScanCached, ScanCompiled, CheckNull, CheckRow
<1>5. CASE RejectData
  <2>1. /\ AtRow /\ fn \in ScanScalars /\ Fail("data_type", Null)
        /\ batch.rows[row].data # Null /\ batch.dataType = "other"
    BY <1>5, RowFacts DEF RejectData
  <2>2. Contract!DataFault(fn, batch, row)
    BY <2>1 DEF Contract!DataFault, ScanScalars, Contract!ScanScalars
  <2>3. /\ Contract!AtFault(fn, batch, row)
        /\ Contract!FaultOf(fn, batch, row) = [error |-> "data_type", about |-> Null]
    BY <2>2 DEF Contract!AtFault, Contract!FaultOf
  <2> QED
    BY <2>1, <2>3, FailAnswers DEF Contract!ContractNext
<1>6. CASE RejectRules
  <2>1. /\ AtRow /\ Fail("rules_type", Null)
        /\ fn \in ScanScalars => DataCell # Error
        /\ batch.rows[row].rules # Null /\ batch.rulesType = "other"
    BY <1>6, RowFacts DEF RejectRules
  <2>2. Contract!RulesFault(batch, row) /\ ~Contract!DataFault(fn, batch, row)
    BY <2>1, RowFacts DEF Contract!RulesFault, Contract!DataFault, ScanScalars,
                          Contract!ScanScalars
  <2>3. /\ Contract!AtFault(fn, batch, row)
        /\ Contract!FaultOf(fn, batch, row) = [error |-> "rules_type", about |-> Null]
    BY <2>2 DEF Contract!AtFault, Contract!FaultOf
  <2> QED
    BY <2>1, <2>3, FailAnswers DEF Contract!ContractNext
<1>7. CASE CompileFails
  <2>1. /\ AtRow /\ fn \in ScanScalars /\ Live
        /\ RulesCell \notin Compilable /\ Fail("invalid_rules", RulesCell)
    BY <1>7, LiveFacts, MarkerAssumption DEF CompileFails, CompileRules
  <2>2. /\ Contract!SourceFault(fn, batch, row)
        /\ ~Contract!RulesFault(batch, row) /\ ~Contract!DataFault(fn, batch, row)
        /\ batch.rows[row].rules = RulesCell
    BY <2>1, LiveFacts DEF Contract!SourceFault, Contract!RulesFault,
                           Contract!DataFault, ScanScalars, Contract!ScanScalars
  <2>3. /\ Contract!AtFault(fn, batch, row)
        /\ Contract!FaultOf(fn, batch, row)
             = [error |-> "invalid_rules", about |-> RulesCell]
    BY <2>2 DEF Contract!AtFault, Contract!FaultOf
  <2> QED
    BY <2>1, <2>3, FailAnswers DEF Contract!ContractNext
<1>8. CASE Finish
  <2>1. /\ phase = "busy" /\ row > Len(batch.rows) /\ fn \in ScalarFns
        /\ batch.rows \in Seq(Row) /\ row \in 1..(Len(batch.rows) + 1)
    BY <1>8, BatchAssumption DEF Finish, IInv, TypeOK, RowsAnswered, Batch
  <2>2. ReturnType(fn) = BuilderType(fn)
    BY <2>1 DEF ReturnType, BuilderType, ScalarFns, ScanScalars
  <2>3. /\ phase' = "replied" /\ fn' = fn /\ batch' = batch
        /\ reply' = [status |-> "ok", column |-> out]
    BY <1>8, <2>2 DEF Finish, Return
  <2>4. row - 1 = Len(batch.rows)
    BY <2>1
  <2>5. Contract!IsColumn(fn, batch, out)
    BY <2>1, <2>4 DEF IInv, RowsAnswered, Contract!IsColumn
  <2>6. Contract!IsAnswer(fn, batch, reply')
    BY <2>3, <2>5 DEF Contract!IsAnswer
  <2> QED
    BY <2>1, <2>3, <2>6 DEF Contract!Answer, Contract!ContractNext
<1> QED
  BY <1>1, <1>2, <1>3, <1>4, <1>5, <1>6, <1>7, <1>8
     DEF Next, Process, Contract!ContractNext

\* Seen by its caller, a scalar call is one step that answers every row by its
\* own operands, or the whole batch with its first fault.
THEOREM Implementation == Spec => ImplementsContract
<1>1. Init => Contract!ContractInit
  BY DEF Init, Contract!ContractInit
<1> QED
  BY <1>1, Inductive, StepRefines, PTL
     DEF Spec, ImplementsContract, Contract!ContractSafety

-----------------------------------------------------------------------------
(* How often the scan functions compile: once for each change of the rules *)
(* from one live row to the next.                                          *)

\* Row i is live, and its rules are not those of the live row before it.
IsChange(i) ==
  /\ LiveRow(i)
  /\ \A j \in 1..(i - 1) :
       LiveRow(j) /\ (\A k \in (j + 1)..(i - 1) : ~LiveRow(k))
         => batch.rows[j].rules # batch.rows[i].rules

\* The key of the cache is the source of the last live row read so far; where
\* there is no key, none was live.
CacheKeyed ==
  phase = "busy" /\ fn \in ScanScalars =>
    /\ cache.lastSrc = Null => \A j \in 1..(row - 1) : ~LiveRow(j)
    /\ cache.lastSrc # Null =>
         \E j \in 1..(row - 1) :
           /\ LiveRow(j)
           /\ \A k \in (j + 1)..(row - 1) : ~LiveRow(k)
           /\ cache.lastSrc = batch.rows[j].rules

CInv == CacheKeyed /\ CompilesOnlyOnChange

-----------------------------------------------------------------------------
(* Counting the changes.                                                   *)

\* The changes up to row n, one by one.
LEMMA ChangesAre ==
  ASSUME NEW n \in Nat
  PROVE  Changes(n) = {i \in 1..n : IsChange(i)}
BY DEF Changes, IsChange

\* One row more is one change more, if it is one.
LEMMA ChangesGrow ==
  ASSUME NEW n \in Nat \ {0}
  PROVE  /\ Cardinality(Changes(n - 1)) \in Nat
         /\ ~IsChange(n) => Changes(n) = Changes(n - 1)
         /\ IsChange(n) =>
              Cardinality(Changes(n)) = Cardinality(Changes(n - 1)) + 1
<1>1. /\ Changes(n) = {i \in 1..n : IsChange(i)}
      /\ Changes(n - 1) = {i \in 1..(n - 1) : IsChange(i)}
  BY ChangesAre
<1>2. 1..n = (1..(n - 1)) \cup {n} /\ n \notin 1..(n - 1)
  OBVIOUS
<1>3. IsFiniteSet(1..(n - 1)) /\ Changes(n - 1) \in SUBSET (1..(n - 1))
  BY <1>1, FS_Interval
<1>4. IsFiniteSet(Changes(n - 1)) /\ Cardinality(Changes(n - 1)) \in Nat
  BY <1>3, FS_Subset, FS_CardinalityType
<1>5. ASSUME ~IsChange(n) PROVE Changes(n) = Changes(n - 1)
  BY <1>1, <1>2, <1>5
<1>6. ASSUME IsChange(n)
      PROVE  Cardinality(Changes(n)) = Cardinality(Changes(n - 1)) + 1
  <2>1. Changes(n) = Changes(n - 1) \cup {n} /\ n \notin Changes(n - 1)
    BY <1>1, <1>2, <1>6
  <2> QED
    BY <1>4, <2>1, FS_AddElement
<1> QED
  BY <1>4, <1>5, <1>6

\* The row under way is a change exactly if the cache has another key.
LEMMA CacheTells ==
  ASSUME IInv, CacheKeyed, AtRow, fn \in ScanScalars, LiveRow(row)
  PROVE  IsChange(row) <=> cache.lastSrc # batch.rows[row].rules
<1>1. phase = "busy" /\ row \in Nat \ {0}
  BY RowFacts DEF AtRow
<1>2. CASE cache.lastSrc = Null
  <2>1. \A j \in 1..(row - 1) : ~LiveRow(j)
    BY <1>1, <1>2 DEF CacheKeyed
  <2>2. cache.lastSrc # batch.rows[row].rules
    BY <1>2 DEF LiveRow
  <2> QED
    BY <2>1, <2>2 DEF IsChange
<1>3. CASE cache.lastSrc # Null
  <2>1. PICK j \in 1..(row - 1) :
          /\ LiveRow(j)
          /\ \A k \in (j + 1)..(row - 1) : ~LiveRow(k)
          /\ cache.lastSrc = batch.rows[j].rules
    BY <1>1, <1>3 DEF CacheKeyed
  <2>2. ASSUME NEW i \in 1..(row - 1), LiveRow(i),
               \A k \in (i + 1)..(row - 1) : ~LiveRow(k)
        PROVE  i = j
    BY <1>1, <2>1, <2>2
  <2> QED
    BY <2>1, <2>2 DEF IsChange
<1> QED
  BY <1>2, <1>3

-----------------------------------------------------------------------------
(* The steps.                                                              *)

\* A row that is not live changes neither the key nor the count.
LEMMA PassedOver ==
  ASSUME IInv, CInv, NullRow
  PROVE  CInv'
<1>1. /\ AtRow /\ phase = "busy" /\ fn \in ScanScalars /\ row \in Nat \ {0}
      /\ ~LiveRow(row)
  BY RowFacts DEF NullRow, AtRow, Readable, Live, LiveRow
<1>2. /\ row' = row + 1 /\ cache' = cache /\ compiles' = compiles
      /\ phase' = phase /\ fn' = fn /\ batch' = batch /\ row' - 1 = row
  BY <1>1 DEF NullRow, AppendCell, interfaceVars
<1>3. CacheKeyed'
  <2>1. CASE cache.lastSrc = Null
    <3>1. \A j \in 1..row : ~LiveRow(j)
      BY <1>1, <2>1 DEF CInv, CacheKeyed
    <3> QED
      BY <1>2, <2>1, <3>1 DEF CacheKeyed, LiveRow
  <2>2. CASE cache.lastSrc # Null
    <3>1. PICK j \in 1..(row - 1) :
            /\ LiveRow(j)
            /\ \A k \in (j + 1)..(row - 1) : ~LiveRow(k)
            /\ cache.lastSrc = batch.rows[j].rules
      BY <1>1, <2>2 DEF CInv, CacheKeyed
    <3>2. j \in 1..row /\ \A k \in (j + 1)..row : ~LiveRow(k)
      BY <1>1, <3>1
    <3> QED
      BY <1>2, <2>2, <3>1, <3>2 DEF CacheKeyed, LiveRow
  <2> QED
    BY <2>1, <2>2
<1>4. compiles = Cardinality(Changes(row))
  BY <1>1, ChangesGrow, SMTT(30) DEF CInv, CompilesOnlyOnChange, IsChange
<1>5. CompilesOnlyOnChange'
  BY <1>2, <1>4 DEF CompilesOnlyOnChange, Changes, LiveRow
<1> QED
  BY <1>3, <1>5 DEF CInv

\* A live row leaves its source as the key, and counts if it was not the key.
LEMMA Scanned ==
  ASSUME IInv, CInv, ScanCached \/ ScanCompiled
  PROVE  CInv'
<1>1. /\ AtRow /\ phase = "busy" /\ fn \in ScanScalars /\ Live
      /\ row \in Nat \ {0}
  BY RowFacts DEF ScanCached, ScanCompiled, AtRow
<1>2. LiveRow(row) /\ RulesCell = batch.rows[row].rules /\ RulesCell # Null
  BY <1>1, LiveFacts DEF LiveRow
<1>3. /\ row' = row + 1 /\ row' - 1 = row
      /\ phase' = phase /\ fn' = fn /\ batch' = batch
  BY <1>1 DEF ScanCached, ScanCompiled, AppendCell, interfaceVars
<1>4. cache'.lastSrc = batch.rows[row].rules
  BY <1>2 DEF ScanCached, ScanCompiled, IsCached, Refilled
<1>5. CacheKeyed'
  <2>1. row \in 1..row /\ \A k \in (row + 1)..row : ~LiveRow(k)
    BY <1>1
  <2> QED
    BY <1>2, <1>3, <1>4, <2>1 DEF CacheKeyed, LiveRow
<1>6. IsChange(row) <=> cache.lastSrc # RulesCell
  BY <1>1, <1>2, CacheTells DEF CInv
<1>7. compiles = Cardinality(Changes(row - 1))
  BY <1>1 DEF CInv, CompilesOnlyOnChange
<1>8. compiles' = Cardinality(Changes(row))
  <2>1. CASE ScanCached
    <3>1. ~IsChange(row) /\ compiles' = compiles
      BY <1>6, <2>1 DEF ScanCached, IsCached
    <3> QED
      BY <1>1, <1>7, <3>1, ChangesGrow
  <2>2. CASE ScanCompiled
    <3>1. IsChange(row) /\ compiles' = compiles + 1
      BY <1>6, <2>2 DEF ScanCompiled, IsCached
    <3> QED
      BY <1>1, <1>7, <3>1, ChangesGrow
  <2> QED
    BY <2>1, <2>2
<1>9. CompilesOnlyOnChange'
  BY <1>3, <1>8 DEF CompilesOnlyOnChange, Changes, LiveRow
<1> QED
  BY <1>5, <1>9 DEF CInv

\* A call starts with an empty cache, no row read and nothing compiled.
LEMMA Called ==
  ASSUME NEW f \in ScalarFns, NEW b \in Batches, Call(f, b)
  PROVE  CInv'
<1>1. row' = 1 /\ cache' = EmptyCache /\ compiles' = 0
  BY DEF Call
<1>2. CacheKeyed'
  BY <1>1 DEF CacheKeyed, EmptyCache
<1>3. Changes(0)' = {}
  BY DEF Changes
<1>4. CompilesOnlyOnChange'
  BY <1>1, <1>3, FS_EmptySet DEF CompilesOnlyOnChange, Changes
<1> QED
  BY <1>2, <1>4 DEF CInv

\* Every step keeps the key and the count.
LEMMA CInvNext ==
  ASSUME IInv, CInv, [Next]_vars
  PROVE  CInv'
<1>1. CASE NullRow
  BY <1>1, PassedOver
<1>2. CASE ScanCached \/ ScanCompiled
  BY <1>2, Scanned
<1>3. CASE CheckNull \/ CheckRow
  <2>1. fn' = "yara_check"
    BY <1>3 DEF CheckNull, CheckRow, AppendCell, interfaceVars
  <2> QED
    BY <2>1 DEF CInv, CacheKeyed, CompilesOnlyOnChange, ScanScalars
<1>4. CASE RejectData \/ RejectRules \/ CompileFails \/ Finish
  <2>1. phase' = "replied"
    BY <1>4 DEF RejectData, RejectRules, CompileFails, Finish, Fail, Return
  <2> QED
    BY <2>1 DEF CInv, CacheKeyed, CompilesOnlyOnChange
<1>5. CASE Take
  BY <1>5 DEF Take, CInv, CacheKeyed, CompilesOnlyOnChange
<1>6. CASE \E f \in ScalarFns, b \in Batches : Call(f, b)
  BY <1>6, Called
<1>7. CASE UNCHANGED vars
  BY <1>7, ZenonT(60) DEF vars, CInv, CacheKeyed, CompilesOnlyOnChange, Changes, LiveRow
<1> QED
  BY <1>1, <1>2, <1>3, <1>4, <1>5, <1>6, <1>7 DEF Next, Process

\* matches.rs:30: whatever the engine and the batch, a scan function has compiled
\* once for each change of the rules from one live row to the next: never for a
\* NULL row, never because of one, and once per batch where the rules are constant.
THEOREM CompilesOnChange == Spec => []CompilesOnlyOnChange
<1>1. Init => CInv
  BY DEF Init, CInv, CacheKeyed, CompilesOnlyOnChange
<1>2. IInv /\ CInv /\ [Next]_vars => CInv'
  BY CInvNext
<1>3. CInv => CompilesOnlyOnChange
  BY DEF CInv
<1> QED
  BY <1>1, <1>2, <1>3, Inductive, PTL DEF Spec

-----------------------------------------------------------------------------
(* How far the finding about the cache goes.                               *)

\* The live rows of a source follow one another: no live row with other rules
\* comes in between.
Grouped ==
  \A i, j, k \in DOMAIN batch.rows :
    /\ i < j /\ j < k
    /\ LiveRow(i) /\ LiveRow(j) /\ LiveRow(k)
    /\ batch.rows[i].rules = batch.rows[k].rules
    => batch.rows[j].rules = batch.rows[i].rules

\* Where there is a live row before row k, there is a last one.
LEMMA LiveBefore ==
  ASSUME NEW k \in Nat, NEW i \in 1..(k - 1), LiveRow(i)
  PROVE  \E j \in i..(k - 1) : LiveRow(j) /\ \A l \in (j + 1)..(k - 1) : ~LiveRow(l)
<1> DEFINE live == {j \in i..(k - 1) : LiveRow(j)}
           distances == {k - j : j \in live}
           Less == {ss \in Nat \X Nat : ss[1] < ss[2]}
<1>1. distances \in SUBSET Nat /\ distances # {}
  OBVIOUS
<1>2. IsWellFoundedOn(Less, Nat)
  BY NatLessThanWellFounded DEF OpToRel
<1>3. PICK n \in distances : \A m \in distances : <<m, n>> \notin Less
  BY <1>1, <1>2, WFMin
<1>4. PICK j \in live : n = k - j
  OBVIOUS
<1>5. j \in i..(k - 1) /\ LiveRow(j)
  OBVIOUS
<1>6. ASSUME NEW l \in (j + 1)..(k - 1), LiveRow(l)
      PROVE  FALSE
  <2>1. k - l \in distances /\ k - l \in Nat /\ k - j \in Nat /\ k - l < k - j
    BY <1>5, <1>6
  <2> QED
    BY <1>3, <1>4, <2>1
<1> QED
  BY <1>5, <1>6

\* In a grouped batch no two changes are to the same rules.
LEMMA ChangesDiffer ==
  ASSUME batch.rows \in Seq(Row), Grouped, NEW n \in 0..Len(batch.rows),
         NEW i \in Changes(n), NEW k \in Changes(n), i < k
  PROVE  batch.rows[i].rules # batch.rows[k].rules
<1>1. /\ i \in 1..n /\ k \in 1..n /\ LiveRow(i) /\ LiveRow(k)
      /\ \A j \in 1..(k - 1) :
           LiveRow(j) /\ (\A l \in (j + 1)..(k - 1) : ~LiveRow(l))
             => batch.rows[j].rules # batch.rows[k].rules
  BY DEF Changes
<1>2. PICK j \in i..(k - 1) : LiveRow(j) /\ \A l \in (j + 1)..(k - 1) : ~LiveRow(l)
  <2>1. k \in Nat /\ i \in 1..(k - 1)
    BY <1>1
  <2> QED
    BY <1>1, <2>1, LiveBefore
<1>3. j \in 1..(k - 1) /\ batch.rows[j].rules # batch.rows[k].rules
  BY <1>1, <1>2
<1>4. {i, j, k} \subseteq DOMAIN batch.rows
  BY <1>1, <1>3
<1>5. CASE i = j
  BY <1>3, <1>5
<1>6. CASE i # j
  <2>1. i < j /\ j < k
    BY <1>1, <1>2, <1>6
  <2> QED
    BY <1>1, <1>2, <1>3, <1>4, <2>1 DEF Grouped
<1> QED
  BY <1>5, <1>6

\* So there are as many rules as changes.
LEMMA ChangesCount ==
  ASSUME batch.rows \in Seq(Row), Grouped, NEW n \in 0..Len(batch.rows)
  PROVE  Cardinality(Changes(n)) <= Cardinality({batch.rows[i].rules : i \in Changes(n)})
<1> DEFINE S == Changes(n)
           T == {batch.rows[i].rules : i \in S}
           f == [i \in S |-> batch.rows[i].rules]
<1>1. S \in SUBSET (1..n)
  BY DEF Changes
<1>2. IsFiniteSet(S) /\ Cardinality(S) \in Nat
  <2>1. IsFiniteSet(1..n)
    BY FS_Interval
  <2> HIDE DEF S
  <2> QED
    BY <1>1, <2>1, FS_Subset, FS_CardinalityType
<1>3. ASSUME NEW x \in S, NEW y \in S, f[x] = f[y]
      PROVE  x = y
  <2>1. x \in Nat /\ y \in Nat
    BY <1>1
  <2>2. ~(x < y) /\ ~(y < x)
    BY <1>3, ChangesDiffer
  <2> QED
    BY <2>1, <2>2
<1>4. f \in Surjection(S, T)
  BY DEF Surjection
<1>5. IsFiniteSet(T) /\ Cardinality(T) \in Nat
  BY <1>2, <1>4, FS_Surjection, FS_CardinalityType
<1>6. ~(Cardinality(T) < Cardinality(S))
  <2>1. f \in [S -> T]
    OBVIOUS
  <2> HIDE DEF S, T, f
  <2> QED
    BY <1>2, <1>3, <1>5, <2>1, FS_PigeonHole
<1> QED
  BY <1>2, <1>5, <1>6

\* main.rs:172: for every batch in which the rows of a source follow one another,
\* whatever NULL rows are among them, no source is compiled a second time: rules
\* that come back after others are all there is to that divergence.
THEOREM GroupedCompiledOnce ==
  Spec => [](phase = "busy" /\ Grouped => CompiledOncePerSource)
<1>1. IInv /\ CompilesOnlyOnChange =>
        (phase = "busy" /\ Grouped => CompiledOncePerSource)
  <2> SUFFICES ASSUME IInv, CompilesOnlyOnChange, phase = "busy", Grouped,
                      fn \in ScanScalars
               PROVE  compiles <= Cardinality({batch.rows[i].rules : i \in Changes(row - 1)})
    BY DEF CompiledOncePerSource
  <2>1. batch.rows \in Seq(Row)
    BY BatchAssumption DEF IInv, TypeOK, Batch
  <2>2. row - 1 \in 0..Len(batch.rows)
    BY <2>1 DEF IInv, RowsAnswered
  <2> QED
    BY <2>1, <2>2, ChangesCount DEF CompilesOnlyOnChange
<1> QED
  BY <1>1, CompilesOnChange, Inductive, PTL

-----------------------------------------------------------------------------
(* How long a call takes.                                                  *)

\* The steps that process has left: one for each row, and one to finish.
RowsLeft == IF phase = "busy" THEN Len(batch.rows) + 2 - row ELSE 0

\* Every iteration gets on, whatever the row holds.
LoopAdvances ==
  [][Process => RowsLeft' \in Nat /\ RowsLeft' < RowsLeft]_vars

\* matches.rs:158, check.rs: a call on a batch of n rows is answered in n + 1 steps
\* at most: no row is read twice, NULL rows and cached rules included.
THEOREM LoopAlwaysAdvances == Spec => LoopAdvances
<1>1. IInv /\ IInv' /\ [Next]_vars =>
        [Process => RowsLeft' \in Nat /\ RowsLeft' < RowsLeft]_vars
  <2> SUFFICES ASSUME IInv, IInv', Process
               PROVE  RowsLeft' \in Nat /\ RowsLeft' < RowsLeft
    OBVIOUS
  <2>1. phase = "busy" /\ batch.rows \in Seq(Row) /\ row \in 1..(Len(batch.rows) + 1)
    BY BatchAssumption
       DEF IInv, TypeOK, RowsAnswered, Batch, Process, RejectData, RejectRules,
           NullRow, ScanCached, ScanCompiled, CompileFails, CheckNull, CheckRow,
           Finish, AtRow
  <2>2. CASE NullRow \/ ScanCached \/ ScanCompiled \/ CheckNull \/ CheckRow
    <3>1. phase' = phase /\ batch' = batch /\ row' = row + 1 /\ row <= Len(batch.rows)
      BY <2>2 DEF NullRow, ScanCached, ScanCompiled, CheckNull, CheckRow, AppendCell,
                  interfaceVars, AtRow
    <3> QED
      BY <2>1, <3>1 DEF RowsLeft
  <2>3. CASE RejectData \/ RejectRules \/ CompileFails \/ Finish
    <3>1. phase' = "replied"
      BY <2>3 DEF RejectData, RejectRules, CompileFails, Finish, Fail, Return
    <3> QED
      BY <2>1, <3>1 DEF RowsLeft
  <2> QED
    BY <2>2, <2>3 DEF Process
<1>2. IInv /\ [Next]_vars => IInv'
  BY NextIInv
<1> QED
  BY <1>1, <1>2, InitIInv, PTL DEF Spec, LoopAdvances

=============================================================================
