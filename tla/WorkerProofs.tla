---------------------------- MODULE WorkerProofs ----------------------------
(***************************************************************************)
(* Proofs about the worker as DuckDB sees it, for every engine, every set  *)
(* of topics a client may ask about, and every interleaving of its calls.  *)
(*                                                                         *)
(* What is proved of the scalar and of the table functions by themselves   *)
(* (ScalarsProofs, TablesProofs) carries over to their state inside the    *)
(* worker: each step of the worker is a step or a stutter of either.  The  *)
(* answers a client has are then those of the two contracts, and that the  *)
(* functions agree follows from what the contracts say of one topic.       *)
(***************************************************************************)
EXTENDS Worker, StartupProofs

\* The theorems of the components, about the worker's state.
SP == INSTANCE ScalarsProofs
  WITH phase <- sPhase, fn <- sFn, batch <- sBatch, reply <- sReply,
       row <- sRow, out <- sOut, cache <- sCache, compiles <- sCompiles

TP == INSTANCE TablesProofs
  WITH phase <- tPhase, request <- tRequest, schema <- tSchema,
       producer <- tProducer, received <- tReceived

-----------------------------------------------------------------------------
(* The inductive invariant.                                                *)

\* The answer of a scalar call that waits to be taken is the contract's.
ScalarAnswered ==
  sPhase = "replied" => SP!Contract!IsAnswer(sFn, sBatch, sReply)

\* A call under way is about the topic, which is one of the client's.
AskedOfTopic ==
  /\ \/ topic = Null /\ found = <<>>
     \/ topic \in Topics /\ DOMAIN found \subseteq ScalarFns \cup TableFns
  /\ sPhase # "idle" =>
       topic # Null /\ sFn \in ScalarFns /\ sBatch = BatchFor(topic, sFn)
  /\ tPhase # "idle" =>
       /\ topic # Null /\ tRequest.fn \in TableFns
       /\ tRequest = RequestFor(topic, tRequest.fn)

\* a is an answer that the contracts allow to function f about topic t.
IsRight(t, f, a) ==
  /\ f \in ScalarFns =>
       /\ SP!Contract!IsAnswer(f, BatchFor(t, f), a)
       /\ a.status = "ok" => a.column \in Seq(SP!CellType(f))
  /\ f \in TableFns =>
       /\ a.schema = TP!OutputSchema(f)
       /\ \/ a.status = "ok" /\ TP!Sound(RequestFor(t, f), a.rows)
          \/ a.status = "error" /\ TP!Contract!Invalid(RequestFor(t, f))

\* The client has no other answers.
AnswersRight == \A f \in DOMAIN found : found[f] # Null => IsRight(topic, f, found[f])

WInv == SP!IInv /\ TP!Inv /\ ScalarAnswered /\ AskedOfTopic /\ AnswersRight

-----------------------------------------------------------------------------
(* The components inside the worker.                                       *)

\* The constants of the worker are what the components assume of theirs.
LEMMA SameConstants ==
  /\ SP!EngineRule = EngineRule /\ SP!Byte = Byte /\ SP!Batch = Batch
  /\ TP!EngineRule = EngineRule /\ TP!Byte = Byte /\ TP!Request = Request
BY SMTT(30) DEF SP!EngineRule, EngineRule, SP!EnginePattern, EnginePattern, SP!EngineMatch,
       EngineMatch, SP!Byte, Byte, SP!Batch, Batch, SP!Row, Row, TP!EngineRule,
       TP!EnginePattern, TP!EngineMatch, TP!Byte, TP!Request, Request, TP!TableFns,
       TP!ScanTables, TableFns, ScanTables

\* The worker takes the steps of the scalar functions that the theorems are about.
LEMMA SameScalars ==
  /\ S!Init <=> SP!Init
  /\ \A f, b : S!Call(f, b) <=> SP!Call(f, b)
  /\ S!Process <=> SP!Process
  /\ S!Take <=> SP!Take
<1>1. S!Init <=> SP!Init
  BY Zenon
     DEF S!Init, S!EmptyCache, SP!Init, SP!EmptyCache
<1>2. \A f, b : S!Call(f, b) <=> SP!Call(f, b)
  BY Zenon
     DEF S!Call, S!EmptyCache, SP!Call, SP!EmptyCache
<1>3. S!Take <=> SP!Take
  BY Zenon
     DEF S!Take, S!localVars, SP!Take, SP!localVars
<1>4. S!Process <=> SP!Process
  <2>1. S!RejectData <=> SP!RejectData
    BY Zenon
       DEF S!RejectData, S!ScanScalars, S!DataCell, S!RulesCell, S!BlobBytes,
           S!TextStr, S!AtRow, S!Fail, S!Return, S!EmptyCache, SP!RejectData,
           SP!ScanScalars, SP!DataCell, SP!RulesCell, SP!BlobBytes, SP!TextStr,
           SP!AtRow, SP!Fail, SP!Return, SP!EmptyCache
  <2>2. S!RejectRules <=> SP!RejectRules
    BY Zenon
       DEF S!RejectRules, S!ScanScalars, S!DataCell, S!RulesCell, S!BlobBytes,
           S!TextStr, S!AtRow, S!Fail, S!Return, S!EmptyCache, SP!RejectRules,
           SP!ScanScalars, SP!DataCell, SP!RulesCell, SP!BlobBytes, SP!TextStr,
           SP!AtRow, SP!Fail, SP!Return, SP!EmptyCache
  <2>3. S!NullRow <=> SP!NullRow
    BY Zenon
       DEF S!NullRow, S!ScanScalars, S!DataCell, S!RulesCell, S!BlobBytes, S!TextStr,
           S!AtRow, S!Readable, S!Live, S!AppendCell, S!interfaceVars, SP!NullRow,
           SP!ScanScalars, SP!DataCell, SP!RulesCell, SP!BlobBytes, SP!TextStr,
           SP!AtRow, SP!Readable, SP!Live, SP!AppendCell, SP!interfaceVars
  <2>4. S!ScanCached <=> SP!ScanCached
    BY Zenon
       DEF S!ScanCached, S!ScanScalars, S!IsCached, S!DataCell, S!RulesCell,
           S!BlobBytes, S!TextStr, S!AtRow, S!Readable, S!Live, S!AppendCell,
           S!interfaceVars, S!ScanRules, S!ScanResults, S!RuleMatches, S!Bounded,
           S!Project, S!AsI32, SP!ScanCached, SP!ScanScalars, SP!IsCached, SP!DataCell,
           SP!RulesCell, SP!BlobBytes, SP!TextStr, SP!AtRow, SP!Readable, SP!Live,
           SP!AppendCell, SP!interfaceVars, SP!ScanRules, SP!ScanResults,
           SP!RuleMatches, SP!Bounded, SP!Project, SP!AsI32
  <2>5. S!ScanCompiled <=> SP!ScanCompiled
    BY Zenon
       DEF S!ScanCompiled, S!ScanScalars, S!IsCached, S!Refilled, S!CompileRules,
           S!DataCell, S!RulesCell, S!BlobBytes, S!TextStr, S!AtRow, S!Readable,
           S!Live, S!AppendCell, S!interfaceVars, S!ScanRules, S!ScanResults,
           S!RuleMatches, S!Bounded, S!Project, S!AsI32, SP!ScanCompiled,
           SP!ScanScalars, SP!IsCached, SP!Refilled, SP!CompileRules, SP!DataCell,
           SP!RulesCell, SP!BlobBytes, SP!TextStr, SP!AtRow, SP!Readable, SP!Live,
           SP!AppendCell, SP!interfaceVars, SP!ScanRules, SP!ScanResults,
           SP!RuleMatches, SP!Bounded, SP!Project, SP!AsI32
  <2>6. S!CompileFails <=> SP!CompileFails
    BY Zenon
       DEF S!CompileFails, S!ScanScalars, S!IsCached, S!CompileRules, S!DataCell,
           S!RulesCell, S!BlobBytes, S!TextStr, S!AtRow, S!Readable, S!Live, S!Fail,
           S!Return, S!EmptyCache, SP!CompileFails, SP!ScanScalars, SP!IsCached,
           SP!CompileRules, SP!DataCell, SP!RulesCell, SP!BlobBytes, SP!TextStr,
           SP!AtRow, SP!Readable, SP!Live, SP!Fail, SP!Return, SP!EmptyCache
  <2>7. S!CheckNull <=> SP!CheckNull
    BY Zenon
       DEF S!CheckNull, S!RulesCell, S!TextStr, S!AtRow, S!AppendCell, S!interfaceVars,
           SP!CheckNull, SP!RulesCell, SP!TextStr, SP!AtRow, SP!AppendCell,
           SP!interfaceVars
  <2>8. S!CheckRow <=> SP!CheckRow
    BY Zenon
       DEF S!CheckRow, S!RulesCell, S!TextStr, S!AtRow, S!RulesCompile, S!CompileRules,
           S!AppendCell, S!interfaceVars, SP!CheckRow, SP!RulesCell, SP!TextStr,
           SP!AtRow, SP!RulesCompile, SP!CompileRules, SP!AppendCell, SP!interfaceVars
  <2>9. S!Finish <=> SP!Finish
    BY Zenon
       DEF S!Finish, S!Fail, S!Return, S!EmptyCache, S!ReturnType, S!BuilderType,
           S!Boolean, S!Int32, S!Utf8, SP!Finish, SP!Fail, SP!Return, SP!EmptyCache,
           SP!ReturnType, SP!BuilderType, SP!Boolean, SP!Int32, SP!Utf8
  <2> QED
    BY <2>1, <2>2, <2>3, <2>4, <2>5, <2>6, <2>7, <2>8, <2>9, Zenon DEF S!Process, SP!Process
<1> QED
  BY <1>1, <1>2, <1>3, <1>4, Zenon

\* The same of the table functions.
LEMMA SameTables ==
  /\ T!Init <=> TP!Init
  /\ \A r : T!Bind(r) <=> TP!Bind(r)
  /\ T!Work <=> TP!Work
  /\ T!Leave <=> TP!Leave
<1>1. T!Init <=> TP!Init
  BY Zenon
     DEF T!Init, TP!Init
<1>2. \A r : T!Bind(r) <=> TP!Bind(r)
  BY Zenon
     DEF T!Bind, T!OutputSchema, T!ScanSchema, T!StringMatchesSchema, T!ModulesSchema,
         T!Field, T!ListVarcharType, T!List, T!Utf8, T!Int64, TP!Bind, TP!OutputSchema,
         TP!ScanSchema, TP!StringMatchesSchema, TP!ModulesSchema, TP!Field,
         TP!ListVarcharType, TP!List, TP!Utf8, TP!Int64
<1>3. T!Leave <=> TP!Leave
  BY Zenon
     DEF T!Leave, TP!Leave
<1>4. T!Work <=> TP!Work
  <2>1. \A f, s, d : T!ScanRows(f, s, d) = TP!ScanRows(f, s, d)
    <3>1. \A s, d : T!ScanRules(s, d) = TP!ScanRules(s, d)
      BY Zenon
         DEF T!ScanRules, T!ScanResults, T!RuleMatches, T!Bounded, TP!ScanRules,
             TP!ScanResults, TP!RuleMatches, TP!Bounded
    <3>2. ASSUME NEW s, NEW d PROVE T!ScanStrings(s, d) = TP!ScanStrings(s, d)
      BY Zenon
         DEF T!ScanStrings, T!ScanResults, T!Bounded, T!FlattenSeq, T!RuleHits,
             T!PatternHits, T!RenderMatched, T!MatchedBytes, T!ValidUtf8, T!NoControl,
             T!IsContinuation, TP!ScanStrings, TP!ScanResults, TP!Bounded,
             TP!FlattenSeq, TP!RuleHits, TP!PatternHits, TP!RenderMatched,
             TP!MatchedBytes, TP!ValidUtf8, TP!NoControl, TP!IsContinuation
    <3> QED
      BY <3>1, <3>2, Zenon DEF T!ScanRows, TP!ScanRows
  <2>2. T!OpenNoRules <=> TP!OpenNoRules
    BY Zenon
       DEF T!OpenNoRules, T!Open, T!ScanTables, TP!OpenNoRules, TP!Open, TP!ScanTables
  <2>3. T!OpenInvalid <=> TP!OpenInvalid
    BY Zenon
       DEF T!OpenInvalid, T!CompileRules, T!ScanTables, TP!OpenInvalid,
           TP!CompileRules, TP!ScanTables
  <2>4. T!OpenNoData <=> TP!OpenNoData
    BY Zenon
       DEF T!OpenNoData, T!Open, T!CompileRules, T!ScanTables, T!ConstDataBytes,
           T!ConstBytes, T!ConstStr, TP!OpenNoData, TP!Open, TP!CompileRules,
           TP!ScanTables, TP!ConstDataBytes, TP!ConstBytes, TP!ConstStr
  <2>5. T!OpenScan <=> TP!OpenScan
    BY <2>1, Zenon
       DEF T!OpenScan, T!Open, T!CompileRules, T!ScanTables, T!ConstDataBytes,
           T!ConstBytes, T!ConstStr, TP!OpenScan, TP!Open, TP!CompileRules,
           TP!ScanTables, TP!ConstDataBytes, TP!ConstBytes, TP!ConstStr
  <2>6. T!OpenModules <=> TP!OpenModules
    BY Zenon
       DEF T!OpenModules, T!Open, T!MODULES, TP!OpenModules, TP!Open, TP!MODULES
  <2>7. T!NextBatch <=> TP!NextBatch
    BY Zenon
       DEF T!NextBatch, T!Accepts, T!BuiltColumns, T!ScanColumns,
           T!StringMatchesColumns, T!ModulesColumns, T!ListVarcharBuilder, T!List,
           T!Utf8, T!Int64, T!BatchOf, T!AsI64, TP!NextBatch, TP!Accepts,
           TP!BuiltColumns, TP!ScanColumns, TP!StringMatchesColumns, TP!ModulesColumns,
           TP!ListVarcharBuilder, TP!List, TP!Utf8, TP!Int64, TP!BatchOf, TP!AsI64
  <2>8. T!EndOfStream <=> TP!EndOfStream
    BY Zenon
       DEF T!EndOfStream, TP!EndOfStream
  <2> QED
    BY <2>2, <2>3, <2>4, <2>5, <2>6, <2>7, <2>8, Zenon DEF T!Work, TP!Work
<1> QED
  BY <1>1, <1>2, <1>3, <1>4, Zenon

\* Whatever steps the scalar functions take, their invariant holds, and the
\* answer they give is the contract's.
LEMMA ScalarsKeep ==
  ASSUME SP!IInv, ScalarAnswered, [SP!Next]_(SP!vars)
  PROVE  SP!IInv' /\ ScalarAnswered'
<1>1. SP!IInv'
  BY SP!NextIInv, SameConstants, EngineAssumption, RangeAssumption, MarkerAssumption,
     BatchAssumption, CountAssumption, ZenonT(60)
<1>2. [SP!Contract!ContractNext]_(SP!Contract!contractVars)
  BY SP!StepRefines, SameConstants, EngineAssumption, RangeAssumption,
     MarkerAssumption, BatchAssumption, CountAssumption, ZenonT(60)
<1>3. ScalarAnswered'
  BY <1>2 DEF ScalarAnswered, SP!Contract!contractVars, SP!Contract!ContractNext,
              SP!Contract!Ask, SP!Contract!Answer, SP!Contract!Collect
<1> QED
  BY <1>1, <1>3

\* Whatever steps the table functions take, their invariant holds.
LEMMA TablesKeep ==
  ASSUME TP!Inv, [TP!Next]_(TP!vars)
  PROVE  TP!Inv'
BY TP!InvNext, SameConstants, EngineAssumption, RangeAssumption, MarkerAssumption,
   RequestAssumption, OffsetAssumption, ZenonT(60)

\* They start with both invariants.
LEMMA ComponentsInit == Init => SP!IInv /\ TP!Inv /\ ScalarAnswered
<1>1. SP!Init => SP!IInv
  BY SP!InitIInv, SameConstants, EngineAssumption, RangeAssumption, MarkerAssumption,
     BatchAssumption, CountAssumption, ZenonT(60)
<1>2. TP!Init => TP!Inv
  BY TP!InvInit, SameConstants, EngineAssumption, RangeAssumption, MarkerAssumption,
     RequestAssumption, OffsetAssumption, ZenonT(60)
<1>3. SP!Init => ScalarAnswered
  BY DEF SP!Init, ScalarAnswered
<1> QED
  BY <1>1, <1>2, <1>3, SameScalars, SameTables DEF Init

-----------------------------------------------------------------------------
(* The invariant is inductive.                                             *)

\* The calls a client may make are among those the components know.
LEMMA CallsKnown ==
  ASSUME AskedOfTopic, topic # Null
  PROVE  /\ topic \in Topics
         /\ \A f \in ScalarFns : BatchFor(topic, f) \in Batches
         /\ \A f \in TableFns : RequestFor(topic, f) \in Requests
BY ClientAssumption, SMTT(30) DEF AskedOfTopic

\* Each step of the worker is a step of the scalar functions, or leaves them be.
LEMMA StepsScalars ==
  ASSUME WInv, [Next]_workerVars
  PROVE  [SP!Next]_(SP!vars)
<1>1. CASE UNCHANGED sVars
  BY <1>1, SMTT(30) DEF sVars, SP!vars
<1>2. ASSUME NEW f \in ScalarFns, AskScalar(f) PROVE SP!Next
  <2>1. SP!Call(f, BatchFor(topic, f))
    BY <1>2, SameScalars DEF AskScalar
  <2>2. BatchFor(topic, f) \in Batches /\ f \in SP!ScalarFns
    BY <1>2, CallsKnown DEF AskScalar, WInv, SP!ScalarFns, SP!ScanScalars, ScalarFns,
                            ScanScalars
  <2> QED
    BY <2>1, <2>2 DEF SP!Next
<1>3. CASE ScalarWork
  BY <1>3, SameScalars DEF ScalarWork, SP!Next
<1>4. CASE TakeScalar
  BY <1>4, SameScalars DEF TakeScalar, SP!Next
<1> QED
  BY <1>1, <1>2, <1>3, <1>4
     DEF Next, Client, Start, Choose, AskTable, TableWork, TakeTable, LeaveTable, Drop,
         workerVars

\* The same of the table functions.
LEMMA StepsTables ==
  ASSUME WInv, [Next]_workerVars
  PROVE  [TP!Next]_(TP!vars)
<1>1. CASE UNCHANGED tVars
  BY <1>1 DEF tVars, TP!vars
<1>2. ASSUME NEW f \in TableFns, AskTable(f) PROVE TP!Next
  <2>1. TP!Bind(RequestFor(topic, f))
    BY <1>2, SameTables DEF AskTable
  <2>2. RequestFor(topic, f) \in Requests
    BY <1>2, CallsKnown, SMTT(30) DEF AskTable, WInv
  <2> QED
    BY <2>1, <2>2 DEF TP!Next
<1>3. CASE TableWork
  BY <1>3, SameTables DEF TableWork, TP!Next
<1>4. CASE TakeTable \/ LeaveTable
  BY <1>4, SameTables DEF TakeTable, LeaveTable, TP!Next
<1> QED
  BY <1>1, <1>2, <1>3, <1>4
     DEF Next, Client, Start, Choose, AskScalar, ScalarWork, TakeScalar, Drop, workerVars

\* Answers that were right stay so while neither topic nor answers change.
LEMMA AnswersStay ==
  ASSUME AnswersRight, UNCHANGED clientVars
  PROVE  AnswersRight'
BY DEF AnswersRight, clientVars

\* A table call asks the function that its request names.
LEMMA RequestNames ==
  ASSUME NEW t, NEW f
  PROVE  RequestFor(t, f).fn = f
BY DEF RequestFor

\* A step keeps the calls under way to the topic, and the answers right.
LEMMA ClientKeeps ==
  ASSUME WInv, [Next]_workerVars
  PROVE  AskedOfTopic' /\ AnswersRight'
<1>0. AskedOfTopic /\ AnswersRight /\ ScalarAnswered /\ SP!IInv /\ TP!Inv
  BY DEF WInv
<1>1. CASE Start \/ UNCHANGED workerVars
  <2>1. UNCHANGED <<clientVars, sVars, tVars>>
    BY <1>1 DEF Start, workerVars
  <2> QED
    BY <1>0, <2>1, AnswersStay DEF AskedOfTopic, clientVars, sVars, tVars
<1>2. CASE Choose
  <2>1. /\ topic = Null /\ topic' \in Topics
        /\ UNCHANGED <<sVars, tVars>>
    BY <1>2 DEF Choose
  <2>2. PICK asked \in Questions : found' = [f \in asked |-> Null]
    BY <1>2 DEF Choose
  <2>3. DOMAIN found' \subseteq ScalarFns \cup TableFns /\ sPhase = "idle" /\ tPhase = "idle"
    BY <1>0, <2>1, <2>2, ClientAssumption DEF AskedOfTopic
  <2> QED
    BY <2>1, <2>2, <2>3 DEF AskedOfTopic, AnswersRight, sVars, tVars
<1>3. ASSUME NEW f \in ScalarFns, AskScalar(f) PROVE AskedOfTopic' /\ AnswersRight'
  <2>1. /\ topic # Null /\ UNCHANGED <<clientVars, tVars>>
        /\ sPhase' = "busy" /\ sFn' = f /\ sBatch' = BatchFor(topic, f)
    BY <1>3 DEF AskScalar, S!Call
  <2> QED
    BY <1>0, <2>1, AnswersStay DEF AskedOfTopic, clientVars, tVars
<1>4. CASE ScalarWork
  <2>1. /\ UNCHANGED <<clientVars, tVars, sFn, sBatch>> /\ sPhase # "idle"
    BY <1>4 DEF ScalarWork, S!Process, S!RejectData, S!RejectRules, S!NullRow,
                S!ScanCached, S!ScanCompiled, S!CompileFails, S!CheckNull, S!CheckRow,
                S!Finish, S!AtRow, S!Fail, S!Return, S!AppendCell, S!interfaceVars
  <2> QED
    BY <1>0, <2>1, AnswersStay DEF AskedOfTopic, clientVars, tVars
<1>5. CASE TakeScalar
  <2>1. /\ sPhase = "replied" /\ sPhase' = "idle"
        /\ found' = [found EXCEPT ![sFn] = sReply] /\ UNCHANGED <<topic, tVars>>
    BY <1>5 DEF TakeScalar, S!Take
  <2>2. sFn \in ScalarFns /\ sBatch = BatchFor(topic, sFn) /\ topic \in Topics
    BY <1>0, <2>1, CallsKnown DEF AskedOfTopic
  <2>3. IsRight(topic, sFn, sReply)
    <3>1. SP!Contract!IsAnswer(sFn, BatchFor(topic, sFn), sReply)
      BY <1>0, <2>1, <2>2 DEF ScalarAnswered
    <3>2. sReply.status = "ok" => sReply.column \in Seq(SP!CellType(sFn))
      BY <1>0, <2>1 DEF SP!IInv, SP!TypeOK
    <3>3. sFn \notin TableFns
      BY <2>2 DEF ScalarFns, ScanScalars, TableFns, ScanTables
    <3> QED
      BY <3>1, <3>2, <3>3 DEF IsRight
  <2>4. AnswersRight'
    BY <1>0, <2>1, <2>3 DEF AnswersRight
  <2> QED
    BY <1>0, <2>1, <2>2, <2>4 DEF AskedOfTopic, tVars
<1>6. ASSUME NEW f \in TableFns, AskTable(f) PROVE AskedOfTopic' /\ AnswersRight'
  <2>1. /\ topic # Null /\ UNCHANGED <<clientVars, sVars>>
        /\ tRequest' = RequestFor(topic, f)
    BY <1>6 DEF AskTable, T!Bind
  <2> QED
    BY <1>0, <1>6, <2>1, AnswersStay, RequestNames DEF AskedOfTopic, clientVars, sVars
<1>7. CASE TableWork
  <2>1. UNCHANGED <<clientVars, sVars, tRequest>> /\ tPhase # "idle"
    BY <1>7 DEF TableWork, T!Work, T!OpenNoRules, T!OpenInvalid, T!OpenNoData,
                T!OpenScan, T!OpenModules, T!NextBatch, T!EndOfStream, T!Open
  <2> QED
    BY <1>0, <2>1, AnswersStay DEF AskedOfTopic, clientVars, sVars
<1>8. CASE TakeTable
  <2> DEFINE answer == [status |-> IF tPhase = "ended" THEN "ok" ELSE "error",
                        schema |-> tSchema, rows |-> tReceived]
  <2>1. /\ tPhase \in {"ended", "failed"} /\ tPhase' = "idle"
        /\ found' = [found EXCEPT ![tRequest.fn] = answer] /\ UNCHANGED <<topic, sVars>>
    BY <1>8 DEF TakeTable, T!Leave
  <2>2. /\ tRequest.fn \in TableFns /\ tRequest = RequestFor(topic, tRequest.fn)
        /\ topic \in Topics
    BY <1>0, <2>1, CallsKnown DEF AskedOfTopic
  <2>3. IsRight(topic, tRequest.fn, answer)
    <3>1. tSchema = TP!OutputSchema(tRequest.fn)
      BY <1>0, <2>1 DEF TP!Inv, TP!TypeOK
    <3>2. tPhase = "ended" => TP!Sound(tRequest, tReceived)
      BY <1>0 DEF TP!Inv
    <3>3. tPhase = "failed" => TP!Contract!Invalid(tRequest)
      BY <1>0 DEF TP!Inv
    <3>4. tRequest.fn \notin ScalarFns
      BY <2>2 DEF ScalarFns, ScanScalars, TableFns, ScanTables
    <3> QED
      BY <2>1, <2>2, <3>1, <3>2, <3>3, <3>4 DEF IsRight
  <2>4. AnswersRight'
    <3> HIDE DEF answer
    <3> QED
      BY <1>0, <2>1, <2>3 DEF AnswersRight
  <2> QED
    BY <1>0, <2>1, <2>2, <2>4 DEF AskedOfTopic, sVars
<1>9. CASE LeaveTable
  <2>1. UNCHANGED <<clientVars, sVars>> /\ tPhase' = "idle"
    BY <1>9 DEF LeaveTable, T!Leave
  <2> QED
    BY <1>0, <2>1, AnswersStay DEF AskedOfTopic, clientVars, sVars
<1>10. CASE Drop
  <2>1. /\ topic' = Null /\ found' = <<>> /\ sPhase' = "idle" /\ tPhase' = "idle"
    BY <1>10 DEF Drop, sVars, tVars
  <2> QED
    BY <2>1 DEF AskedOfTopic, AnswersRight
<1> QED
  BY <1>1, <1>2, <1>3, <1>4, <1>5, <1>6, <1>7, <1>8, <1>9, <1>10 DEF Next, Client

\* It holds before anything was asked.
LEMMA WInvInit == Init => WInv
BY ComponentsInit DEF Init, S!Init, T!Init, WInv, AskedOfTopic, AnswersRight

\* Every step of main, the client and the functions keeps it.
LEMMA WInvNext == WInv /\ [Next]_workerVars => WInv'
BY StepsScalars, StepsTables, ScalarsKeep, TablesKeep, ClientKeeps DEF WInv

\* So it always holds.
LEMMA Inductive == Spec => []WInv
BY WInvInit, WInvNext, PTL DEF Spec

\* An argument's place is the one that its spec gives it.
LEMMA Arguments ==
  ASSUME NEW t \in Topics
  PROVE  /\ \A f \in ScanScalars \cup ScanTables :
              Passed(t, f, 0) = t.data /\ Passed(t, f, 1) = t.rules
         /\ Passed(t, "yara_check", 0) = t.rules
<1>0. t \in [data : Data \cup {Null}, dataType : {"blob", "varchar", "other"},
                      rules : Source \cup {Null}]
  BY ClientAssumption
<1>1. ASSUME NEW f \in ScanScalars \cup ScanTables
      PROVE  Passed(t, f, 0) = t.data /\ Passed(t, f, 1) = t.rules
  <2> DEFINE d == Arg("data", 0, "any")
  <2> DEFINE r == Arg("rules", 1, "varchar")
  <2>1. Members(ArgumentSpecs(f)) = {d, r}
    <3>1. ArgumentSpecs(f) = <<d, r>>
      <4>1. CASE f \in ScanScalars
        BY <4>1 DEF ArgumentSpecs, ScanScalarSpecs, ScanScalars
      <4>2. CASE f \in ScanTables
        BY <4>2 DEF ArgumentSpecs, ScanSpecs, StringMatchesSpecs, ScanScalars, ScanTables
      <4> QED
        BY <1>1, <4>1, <4>2
    <3> HIDE DEF d, r
    <3> QED
      BY <3>1, TwoMembers
  <2>2. d.position = 0 /\ r.position = 1 /\ d.name = "data" /\ r.name = "rules"
    BY DEF Arg
  <2> HIDE DEF d, r
  <2>3. (CHOOSE a \in Members(ArgumentSpecs(f)) : a.position = 0) = d
    BY <2>1, <2>2
  <2>4. (CHOOSE a \in Members(ArgumentSpecs(f)) : a.position = 1) = r
    BY <2>1, <2>2
  <2> QED
    BY <1>0, <2>2, <2>3, <2>4 DEF Passed
<1>2. Passed(t, "yara_check", 0) = t.rules
  <2> DEFINE r == Arg("rules", 0, "varchar")
  <2>1. Members(ArgumentSpecs("yara_check")) = {r}
    BY OneMember DEF ArgumentSpecs, CheckSpecs, ScanScalars
  <2>2. r.position = 0 /\ r.name = "rules"
    BY DEF Arg
  <2> HIDE DEF r
  <2>3. (CHOOSE a \in Members(ArgumentSpecs("yara_check")) : a.position = 0) = r
    BY <2>1, <2>2
  <2> QED
    BY <1>0, <2>2, <2>3, Zenon DEF Passed
<1> QED
  BY <1>1, <1>2

\* The calls that are made of a topic.
LEMMA TopicCalls ==
  ASSUME NEW t \in Topics
  PROVE  /\ t.data \in Data \cup {Null} /\ t.rules \in Source \cup {Null}
         /\ t.dataType \in {"blob", "varchar", "other"}
         /\ \A f \in ScalarFns :
              LET b == BatchFor(t, f)
              IN  /\ b.rulesType = "utf8" /\ (b.dataType = "other" <=> t.dataType = "other")
                  /\ Len(b.rows) = 2 /\ b.rows[1] = b.rows[2]
                  /\ b.rows[1].rules = t.rules
                  /\ f # "yara_check" => b.rows[1].data = t.data
         /\ \A f \in ScanTables :
              RequestFor(t, f) = [fn |-> f, dataType |-> t.dataType,
                                  data |-> t.data, rules |-> t.rules]
<1>1. /\ t.data \in Data \cup {Null} /\ t.rules \in Source \cup {Null}
      /\ t.dataType \in {"blob", "varchar", "other"}
  BY ClientAssumption
<1>2. ASSUME NEW f \in ScalarFns
      PROVE  RowFor(t, f).rules = t.rules /\ (f # "yara_check" => RowFor(t, f).data = t.data)
  BY Arguments, <1>2 DEF RowFor, ScalarFns
<1>3. ASSUME NEW f \in ScanTables
      PROVE  RequestFor(t, f) = [fn |-> f, dataType |-> t.dataType,
                                 data |-> t.data, rules |-> t.rules]
  BY Arguments, <1>3 DEF RequestFor, ScanTables
<1> QED
  BY <1>1, <1>2, <1>3 DEF BatchFor

-----------------------------------------------------------------------------
(* What the contracts say of one topic.                                    *)

\* The engine's report of what the scanner is given of a topic.
Seen(t) == Engine[<<t.rules, S!Bounded(t.data)>>]

\* A function that scans may not give an answer to the topic.
Refused(t) == t.rules # Null /\ t.rules \notin Compilable

\* All views of the data are one.
LEMMA SameView ==
  ASSUME NEW d \in Data
  PROVE  /\ S!Bounded(d) = SP!Contract!View(d) /\ S!Bounded(d) = TP!Contract!View(d)
         /\ S!Bounded(d) \in Data
<1>1. SP!Bounded(d) = SP!Contract!View(d) /\ SP!Bounded(d) \in Data
  BY SP!BoundedIsView, SameConstants, EngineAssumption, RangeAssumption,
     MarkerAssumption, BatchAssumption, CountAssumption, ZenonT(60)
<1>2. S!Bounded(d) = SP!Bounded(d)
  BY DEF S!Bounded, SP!Bounded
<1>3. SP!Contract!View(d) = TP!Contract!View(d)
  BY DEF SP!Contract!View, TP!Contract!View
<1> QED
  BY <1>1, <1>2, <1>3

\* The engine reports rules by their names.
LEMMA SeenType ==
  ASSUME NEW t \in Topics, t.data # Null, t.rules \in Compilable
  PROVE  /\ t.data \in Data
         /\ Seen(t) \in Seq(EngineRule) /\ Len(Seen(t)) \in Nat
         /\ \A n \in 1..Len(Seen(t)) : Seen(t)[n].identifier \in RuleName
<1>1. t.data \in Data
  BY TopicCalls
<1>2. Seen(t) \in Seq(EngineRule)
  BY <1>1, SameView, EngineAssumption DEF Seen
<1> HIDE DEF Seen
<1>3. \A n \in 1..Len(Seen(t)) : Seen(t)[n] \in EngineRule
  BY <1>2
<1> QED
  BY <1>1, <1>2, <1>3 DEF EngineRule

\* A verdict is one cell.
LEMMA OneVerdict ==
  ASSUME NEW f, NEW m, NEW c, NEW d,
         SP!Contract!IsVerdict(f, m, c), SP!Contract!IsVerdict(f, m, d)
  PROVE  c = d
<1>1. CASE f = "yara_matches"
  BY <1>1, Zenon DEF SP!Contract!IsVerdict
<1>2. CASE f = "yara_first_rule"
  <2>1. /\ (Len(m) > 0 /\ c = m[1].identifier) \/ (Len(m) = 0 /\ c = Null)
        /\ (Len(m) > 0 /\ d = m[1].identifier) \/ (Len(m) = 0 /\ d = Null)
    BY <1>2, Zenon DEF SP!Contract!IsVerdict
  <2>2. ~(Len(m) > 0 /\ Len(m) = 0)
    BY SMT
  <2> QED
    BY <2>1, <2>2, SMT
<1>3. CASE f = "yara_match_count"
  BY <1>3, Zenon DEF SP!Contract!IsVerdict
<1> QED
  BY <1>1, <1>2, <1>3 DEF SP!Contract!IsVerdict

\* A column of two cells is the pair of them.
LEMMA TwoCells ==
  ASSUME NEW X, NEW col \in Seq(X), Len(col) = 2, NEW c, col[1] = c, col[2] = c
  PROVE  col = Both(c)
<1>1. DOMAIN col = 1..2 /\ DOMAIN Both(c) = 1..2
  BY DEF Both
<1>2. col = [i \in 1..2 |-> col[i]] /\ Both(c) = [i \in 1..2 |-> Both(c)[i]]
  BY <1>1 DEF Both
<1>3. \A i \in 1..2 : col[i] = Both(c)[i]
  BY DEF Both
<1> QED
  BY <1>2, <1>3

\* When a scalar function that scans fails, and what its cells are otherwise.
LEMMA ScalarAnswers ==
  ASSUME NEW t \in Topics, NEW f \in ScanScalars, NEW a, IsRight(t, f, a)
  PROVE  /\ a.status = "error" <=>
              t.data # Null /\ (t.dataType = "other" \/ Refused(t))
         /\ a.status # "error" =>
              /\ a.status = "ok" /\ a.column \in Seq(SP!CellType(f))
              /\ t.data = Null \/ t.rules = Null => a.column = Both(Null)
              /\ /\ t.data # Null /\ t.rules # Null
                 /\ S!Bounded(t.data) \notin Fallible
                 => /\ t.rules \in Compilable
                    /\ \E c : a.column = Both(c) /\ SP!Contract!IsVerdict(f, Seen(t), c)
              /\ f = "yara_match_count" =>
                   \A i \in DOMAIN a.column : a.column[i] \in Nat \cup {Null}
<1> DEFINE b == BatchFor(t, f)
<1> DEFINE At(i) == SP!Contract!AtFault(f, b, i)
<1>0. f \in ScalarFns /\ f # "yara_check" /\ f \in SP!Contract!ScanScalars
  BY DEF ScanScalars, ScalarFns, SP!Contract!ScanScalars
<1>1. /\ b.rulesType = "utf8" /\ (b.dataType = "other" <=> t.dataType = "other")
      /\ Len(b.rows) = 2 /\ b.rows[1] = b.rows[2]
      /\ b.rows[1].rules = t.rules /\ b.rows[1].data = t.data
  BY <1>0, TopicCalls
<1>2. /\ SP!Contract!IsAnswer(f, b, a)
      /\ a.status = "ok" => a.column \in Seq(SP!CellType(f))
  BY <1>0 DEF IsRight
<1> HIDE DEF b
<1>3. \A i \in 1..2 : At(i) <=> t.data # Null /\ (t.dataType = "other" \/ Refused(t))
  BY <1>0, <1>1 DEF SP!Contract!AtFault, SP!Contract!DataFault, SP!Contract!RulesFault,
                    SP!Contract!SourceFault, Refused
<1> HIDE DEF At
<1>4. a.status \in {"ok", "error"}
  BY <1>2 DEF SP!Contract!IsAnswer
<1>5. ASSUME a.status = "error"
      PROVE  t.data # Null /\ (t.dataType = "other" \/ Refused(t))
  <2>1. \E i \in 1..Len(b.rows) : SP!Contract!AtFault(f, b, i)
    BY <1>2, <1>5 DEF SP!Contract!IsAnswer, SP!Contract!IsFirstFault
  <2> QED
    BY <1>1, <1>3, <2>1 DEF At
<1>6. ASSUME a.status = "ok"
      PROVE  /\ ~(t.data # Null /\ (t.dataType = "other" \/ Refused(t)))
             /\ a.column \in Seq(SP!CellType(f)) /\ Len(a.column) = 2
             /\ \A i \in 1..2 : SP!Contract!IsCell(f, b.rows[i], a.column[i])
  <2>1. SP!Contract!IsColumn(f, b, a.column)
    BY <1>2, <1>6 DEF SP!Contract!IsAnswer
  <2> QED
    BY <1>1, <1>2, <1>3, <1>6, <2>1 DEF SP!Contract!IsColumn, At
<1>7. ASSUME a.status = "ok", t.data = Null \/ t.rules = Null
      PROVE  a.column = Both(Null)
  <2>1. \A i \in 1..2 : a.column[i] = Null
    BY <1>0, <1>1, <1>6, <1>7 DEF SP!Contract!IsCell, SP!Contract!ScanScalars
  <2> QED
    BY <1>6, <1>7, <2>1, TwoCells
<1>8. ASSUME a.status = "ok", t.data # Null, t.rules # Null,
             S!Bounded(t.data) \notin Fallible
      PROVE  /\ t.rules \in Compilable
             /\ \E c : a.column = Both(c) /\ SP!Contract!IsVerdict(f, Seen(t), c)
  <2>1. t.data \in Data /\ t.rules \in Compilable
    BY <1>6, <1>8, TopicCalls DEF Refused
  <2>2. \A i \in 1..2 : SP!Contract!IsVerdict(f, Seen(t), a.column[i])
    BY <1>0, <1>1, <1>6, <1>8, <2>1, SameView, SMTT(30) DEF SP!Contract!IsCell, Seen
  <2>3. a.column[1] = a.column[2]
    BY <2>2, OneVerdict
  <2> QED
    BY <1>6, <1>8, <2>1, <2>2, <2>3, TwoCells
<1>9. ASSUME a.status = "ok", f = "yara_match_count", NEW i \in DOMAIN a.column
      PROVE  a.column[i] \in Nat \cup {Null}
  <2>1. i \in 1..2
    BY <1>6, <1>9
  <2>2. b.rows[i].data = t.data /\ b.rows[i].rules = t.rules
    BY <1>1, <2>1
  <2>3. SP!Contract!IsCell(f, b.rows[i], a.column[i])
    BY <1>6, <1>9, <2>1
  <2>4. CASE t.data = Null \/ t.rules = Null
    BY <1>0, <2>2, <2>3, <2>4 DEF SP!Contract!IsCell, SP!Contract!ScanScalars
  <2>5. CASE t.data # Null /\ t.rules # Null
    <3>1. t.rules \in Compilable
      BY <1>6, <1>9, <2>5 DEF Refused
    <3>2. SP!Contract!View(t.data) = S!Bounded(t.data)
      BY <2>5, TopicCalls, SameView
    <3>3. \E m \in {Seen(t), <<>>} : SP!Contract!IsVerdict(f, m, a.column[i])
      BY <1>0, <2>2, <2>3, <2>5, <3>2, ZenonT(60) DEF SP!Contract!IsCell, Seen
    <3>4. Len(Seen(t)) \in Nat /\ Len(<<>>) \in Nat
      BY <2>5, <3>1, SeenType
    <3>5. a.column[i] = Len(Seen(t)) \/ a.column[i] = Len(<<>>)
      BY <1>9, <3>3, Zenon DEF SP!Contract!IsVerdict
    <3> QED
      BY <3>4, <3>5
  <2> QED
    BY <2>4, <2>5
<1> QED
  BY <1>4, <1>5, <1>6, <1>7, <1>8, <1>9

\* yara_check gives the verdict of the compiler, and does not fail.
LEMMA CheckAnswers ==
  ASSUME NEW t \in Topics, NEW a, IsRight(t, "yara_check", a)
  PROVE  /\ a.status = "ok" /\ a.column \in Seq(SP!CellType("yara_check"))
         /\ t.rules = Null => a.column = Both(Null)
         /\ t.rules # Null => a.column = Both(t.rules \in Compilable)
<1> DEFINE f == "yara_check"
<1> DEFINE b == BatchFor(t, f)
<1>0. f \in ScalarFns /\ f \notin SP!Contract!ScanScalars
  BY DEF ScalarFns, SP!Contract!ScanScalars
<1>1. /\ b.rulesType = "utf8" /\ Len(b.rows) = 2 /\ b.rows[1] = b.rows[2]
      /\ b.rows[1].rules = t.rules
  BY <1>0, TopicCalls
<1>2. /\ SP!Contract!IsAnswer(f, b, a)
      /\ a.status = "ok" => a.column \in Seq(SP!CellType(f))
  BY <1>0 DEF IsRight
<1> HIDE DEF b
<1>3. \A i \in 1..2 : ~SP!Contract!AtFault(f, b, i)
  BY <1>0, <1>1 DEF SP!Contract!AtFault, SP!Contract!DataFault, SP!Contract!RulesFault,
                    SP!Contract!SourceFault
<1>4. SP!Contract!IsColumn(f, b, a.column) /\ a.status = "ok"
  BY <1>1, <1>2, <1>3 DEF SP!Contract!IsAnswer, SP!Contract!IsFirstFault
<1>5. Len(a.column) = 2 /\ \A i \in 1..2 : SP!Contract!IsCell(f, b.rows[i], a.column[i])
  BY <1>1, <1>4 DEF SP!Contract!IsColumn
<1>6. ASSUME t.rules = Null PROVE a.column = Both(Null)
  <2>1. \A i \in 1..2 : a.column[i] = Null
    BY <1>0, <1>1, <1>5, <1>6 DEF SP!Contract!IsCell
  <2> QED
    BY <1>2, <1>4, <1>5, <2>1, TwoCells
<1>7. ASSUME t.rules # Null PROVE a.column = Both(t.rules \in Compilable)
  <2>1. \A i \in 1..2 : a.column[i] = (t.rules \in Compilable)
    <3>1. b.rows[1].rules # Null /\ b.rows[2].rules # Null
      BY <1>1, <1>7
    <3>2. ASSUME NEW i \in 1..2 PROVE a.column[i] = (b.rows[i].rules \in Compilable)
      <4>1. b.rows[i].rules # Null
        BY <3>1
      <4> QED
        BY <1>0, <1>5, <4>1, Zenon DEF SP!Contract!IsCell
    <3>3. \A i \in 1..2 : b.rows[i].rules = t.rules
      BY <1>1
    <3> QED
      BY <3>2, <3>3, Zenon
  <2> QED
    BY <1>2, <1>4, <1>5, <2>1, TwoCells
<1> QED
  BY <1>2, <1>4, <1>6, <1>7

\* When a table function that scans fails, and what its rows are otherwise.
LEMMA TableAnswers ==
  ASSUME NEW t \in Topics, NEW f \in ScanTables, NEW a, IsRight(t, f, a)
  PROVE  /\ a.status = "error" <=> Refused(t)
         /\ a.status # "error" =>
              /\ a.status = "ok" /\ a.rows \in Seq(TP!RowType(f))
              /\ t.data = Null \/ t.rules = Null \/ t.dataType = "other" => a.rows = <<>>
              /\ f = "yara_scan" =>
                   /\ Len(a.rows) > 0 => Len(a.rows) = Len(Seen(t))
                   /\ \A n \in DOMAIN a.rows : a.rows[n].rule = Seen(t)[n].identifier
              /\ f = "yara_scan" /\ t.data # Null /\ t.rules # Null
                   /\ t.dataType # "other" /\ S!Bounded(t.data) \notin Fallible
                   => Len(a.rows) = Len(Seen(t))
              /\ t.data # Null /\ t.rules # Null
                   /\ t.dataType # "other" /\ S!Bounded(t.data) \notin Fallible
                   => /\ Len(a.rows) = TP!Contract!RowCount(f, Seen(t))
                      /\ \A n \in DOMAIN a.rows :
                           TP!Contract!IsRow(f, Seen(t), S!Bounded(t.data), n, a.rows[n])
              /\ f = "yara_string_matches" =>
                   \A n \in DOMAIN a.rows :
                     /\ t.dataType # "other"
                     /\ \E i \in DOMAIN Seen(t) : a.rows[n].rule = Seen(t)[i].identifier
<1> DEFINE r == RequestFor(t, f)
<1>0. /\ f \in TableFns /\ f # "yara_modules" /\ f \notin ScalarFns
      /\ f \in TP!Contract!ScanTables
  BY DEF ScanTables, TableFns, ScalarFns, ScanScalars, TP!Contract!ScanTables
<1>1. /\ r.fn = f /\ r.data = t.data /\ r.rules = t.rules /\ r.dataType = t.dataType
  BY TopicCalls
<1>2. /\ \/ a.status = "ok" /\ TP!Sound(r, a.rows)
         \/ a.status = "error" /\ TP!Contract!Invalid(r)
  BY <1>0 DEF IsRight
<1> HIDE DEF r
<1>3. TP!Contract!Invalid(r) <=> Refused(t)
  BY <1>0, <1>1 DEF TP!Contract!Invalid, Refused
<1>4. ASSUME a.status # "error"
      PROVE  /\ a.status = "ok" /\ ~Refused(t) /\ a.rows \in Seq(TP!RowType(f))
             /\ TP!Contract!IsWhole(r, a.rows)
  BY <1>1, <1>2, <1>3, <1>4 DEF TP!Sound, TP!Contract!IsWhole
<1>5. ASSUME a.status # "error", ~TP!Contract!Scanned(r)
      PROVE  a.rows = <<>>
  BY <1>0, <1>1, <1>4, <1>5 DEF TP!Contract!IsWhole, TP!Contract!IsPartial
<1>6. ASSUME a.status # "error", TP!Contract!Scanned(r)
      PROVE  /\ t.data \in Data /\ t.rules \in Compilable
             /\ TP!Contract!Report(r) = Seen(t)
             /\ \A n \in DOMAIN a.rows :
                  TP!Contract!IsRow(f, Seen(t), TP!Contract!View(t.data), n, a.rows[n])
             /\ \/ Len(a.rows) = TP!Contract!RowCount(f, Seen(t))
                \/ a.rows = <<>> /\ S!Bounded(t.data) \in Fallible
  <2>1. t.data \in Data /\ t.rules \in Compilable
    BY <1>1, <1>6, TopicCalls DEF TP!Contract!Scanned
  <2>2. TP!Contract!Report(r) = Seen(t) /\ TP!Contract!View(t.data) = S!Bounded(t.data)
    BY <1>1, <2>1, SameView DEF TP!Contract!Report, Seen
  <2>3. \/ a.rows = <<>>
        \/ \A n \in DOMAIN a.rows :
             TP!Contract!IsRow(f, Seen(t), TP!Contract!View(t.data), n, a.rows[n])
    BY <1>0, <1>1, <1>4, <1>6, <2>2 DEF TP!Contract!IsWhole, TP!Contract!IsPartial
  <2>4. \/ Len(a.rows) = TP!Contract!RowCount(f, Seen(t))
        \/ a.rows = <<>> /\ S!Bounded(t.data) \in Fallible
    BY <1>1, <1>4, <1>6, <2>2 DEF TP!Contract!IsWhole
  <2>5. a.rows = <<>> => DOMAIN a.rows = {}
    OBVIOUS
  <2> QED
    BY <2>1, <2>2, <2>3, <2>4, <2>5
<1>7. ASSUME a.status # "error", t.data = Null \/ t.rules = Null \/ t.dataType = "other"
      PROVE  a.rows = <<>>
  <2>1. ~TP!Contract!Scanned(r)
    BY <1>1, <1>7, EngineAssumption, MarkerAssumption DEF TP!Contract!Scanned
  <2> QED
    BY <1>5, <1>7, <2>1
<1>8. ASSUME a.status # "error", f = "yara_scan"
      PROVE  /\ Len(a.rows) > 0 => Len(a.rows) = Len(Seen(t))
             /\ \A n \in DOMAIN a.rows : a.rows[n].rule = Seen(t)[n].identifier
             /\ t.data # Null /\ t.rules # Null
                   /\ t.dataType # "other" /\ S!Bounded(t.data) \notin Fallible
                   => Len(a.rows) = Len(Seen(t))
  <2>1. CASE TP!Contract!Scanned(r)
    <3>1. ASSUME NEW n \in DOMAIN a.rows
          PROVE  a.rows[n].rule = Seen(t)[n].identifier
      <4>1. TP!Contract!IsRow("yara_scan", Seen(t), TP!Contract!View(t.data), n, a.rows[n])
        BY <1>6, <1>8, <2>1
      <4>2. a.rows[n] = [rule |-> Seen(t)[n].identifier, namespace |-> Seen(t)[n].namespace,
                         tags |-> Seen(t)[n].tags]
        BY <4>1, Zenon DEF TP!Contract!IsRow
      <4> QED
        BY <4>2
    <3>2. \/ Len(a.rows) = Len(Seen(t))
          \/ a.rows = <<>> /\ S!Bounded(t.data) \in Fallible
      BY <1>6, <1>8, <2>1 DEF TP!Contract!RowCount
    <3> QED
      BY <3>1, <3>2
  <2>2. CASE ~TP!Contract!Scanned(r)
    <3>1. a.rows = <<>>
      BY <1>5, <1>8, <2>2
    <3>2. ~(t.data # Null /\ t.rules # Null /\ t.dataType # "other")
      BY <1>0, <1>1, <1>4, <1>8, <2>2 DEF TP!Contract!Scanned, Refused
    <3> QED
      BY <3>1, <3>2
  <2> QED
    BY <2>1, <2>2
<1>9. ASSUME a.status # "error", f = "yara_string_matches", NEW n \in DOMAIN a.rows
      PROVE  /\ t.dataType # "other"
             /\ \E i \in DOMAIN Seen(t) : a.rows[n].rule = Seen(t)[i].identifier
  <2>1. TP!Contract!Scanned(r)
    BY <1>5, <1>9
  <2>2. PICK h \in TP!Contract!Hits(Seen(t)) : a.rows[n].rule = Seen(t)[h[1]].identifier
    BY <1>6, <1>9, <2>1, Zenon DEF TP!Contract!IsRow
  <2>3. h[1] \in DOMAIN Seen(t)
    BY <2>2 DEF TP!Contract!Hits
  <2>4. t.dataType # "other"
    BY <1>1, <2>1 DEF TP!Contract!Scanned
  <2> QED
    BY <2>2, <2>3, <2>4
<1>10. ASSUME a.status # "error", t.data # Null, t.rules # Null, t.dataType # "other",
              S!Bounded(t.data) \notin Fallible
       PROVE  /\ Len(a.rows) = TP!Contract!RowCount(f, Seen(t))
              /\ \A n \in DOMAIN a.rows :
                   TP!Contract!IsRow(f, Seen(t), S!Bounded(t.data), n, a.rows[n])
  <2>1. TP!Contract!Scanned(r)
    BY <1>0, <1>1, <1>4, <1>10 DEF TP!Contract!Scanned, Refused
  <2>2. TP!Contract!View(t.data) = S!Bounded(t.data)
    BY <1>10, TopicCalls, SameView
  <2> QED
    BY <1>6, <1>10, <2>1, <2>2, Zenon
<1> QED
  BY <1>2, <1>3, <1>4, <1>7, <1>8, <1>9, <1>10

-----------------------------------------------------------------------------
(* The functions agree.                                                    *)

\* The answers a client has are about one of its topics, and right.
LEMMA HasRight ==
  ASSUME WInv, NEW f, Has(f)
  PROVE  topic \in Topics /\ IsRight(topic, f, found[f])
<1>1. found # <<>>
  BY DEF Has
<1> QED
  BY <1>1 DEF WInv, AskedOfTopic, AnswersRight, Has

\* The scalars say of a topic what the rows of yara_scan say.
LEMMA ScalarsCount ==
  ASSUME WInv, Scannable, ~SomeNull, Ok("yara_scan"), NEW f \in ScanScalars, Ok(f)
  PROVE  LET rows == found["yara_scan"].rows
             c == found[f].column
         IN  /\ f = "yara_match_count" => c = Both(Len(rows))
             /\ f = "yara_matches" => c = Both(rows # <<>>)
             /\ f = "yara_first_rule" => c = Both(IF rows = <<>> THEN Null ELSE rows[1].rule)
<1> DEFINE rows == found["yara_scan"].rows
<1> DEFINE m == Seen(topic)
<1>1. /\ topic \in Topics /\ IsRight(topic, f, found[f])
      /\ IsRight(topic, "yara_scan", found["yara_scan"])
      /\ found[f].status # "error" /\ found["yara_scan"].status # "error"
  BY HasRight DEF Ok, Failed
<1>2. /\ topic.data # Null /\ topic.rules # Null
      /\ S!Bounded(topic.data) \notin Fallible
  BY DEF Scannable, SomeNull
<1>3. PICK c : found[f].column = Both(c) /\ SP!Contract!IsVerdict(f, m, c)
  BY <1>1, <1>2, ScalarAnswers, Zenon
<1>4. topic.dataType # "other"
  BY <1>1, <1>2, ScalarAnswers, Zenon
<1>5. /\ rows \in Seq(TP!RowType("yara_scan"))
      /\ \A n \in DOMAIN rows : rows[n].rule = m[n].identifier
      /\ Len(rows) = Len(m)
  BY <1>1, <1>2, <1>4, TableAnswers, Zenon DEF ScanTables
<1> HIDE DEF rows, m
<1>6. /\ Len(rows) \in Nat /\ (rows # <<>> <=> Len(m) > 0)
      /\ Len(m) > 0 => rows[1].rule = m[1].identifier
  BY <1>5
<1>7. f = "yara_match_count" => c = Len(rows)
  BY <1>3, <1>5, Zenon DEF SP!Contract!IsVerdict
<1>8. f = "yara_matches" => c = (rows # <<>>)
  <2>1. f = "yara_matches" => c = (Len(m) > 0)
    BY <1>3, Zenon DEF SP!Contract!IsVerdict
  <2>2. (rows # <<>>) = (Len(m) > 0)
    BY <1>6
  <2> QED
    BY <2>1, <2>2, Zenon
<1>9. f = "yara_first_rule" => c = IF rows = <<>> THEN Null ELSE rows[1].rule
  <2>1. f = "yara_first_rule" =>
          (Len(m) > 0 /\ c = m[1].identifier) \/ (Len(m) = 0 /\ c = Null)
    BY <1>3, Zenon DEF SP!Contract!IsVerdict
  <2> QED
    BY <2>1, <1>6
<1> QED
  BY <1>3, <1>7, <1>8, <1>9, Zenon DEF rows

\* A hit is a hit of a rule that yara_scan lists.
LEMMA HitsAreListed ==
  ASSUME WInv, Scannable, ~SomeNull, Ok("yara_scan"), Ok("yara_string_matches")
  PROVE  \A hit \in Members(found["yara_string_matches"].rows) :
           \E r \in Members(found["yara_scan"].rows) : r.rule = hit.rule
<1> DEFINE rows == found["yara_scan"].rows
<1> DEFINE hits == found["yara_string_matches"].rows
<1> DEFINE m == Seen(topic)
<1>1. /\ topic \in Topics
      /\ IsRight(topic, "yara_scan", found["yara_scan"])
      /\ IsRight(topic, "yara_string_matches", found["yara_string_matches"])
      /\ found["yara_scan"].status # "error"
      /\ found["yara_string_matches"].status # "error"
  BY HasRight DEF Ok, Failed
<1>2. /\ rows \in Seq(TP!RowType("yara_scan"))
      /\ \A n \in DOMAIN rows : rows[n].rule = m[n].identifier
  BY <1>1, TableAnswers, Zenon DEF ScanTables
<1>7. ASSUME NEW n \in DOMAIN hits
      PROVE  /\ topic.dataType # "other"
             /\ \E i \in DOMAIN m : hits[n].rule = m[i].identifier
  <2> DEFINE f == "yara_string_matches"
  <2>1. f \in ScanTables /\ IsRight(topic, f, found[f]) /\ found[f].status # "error"
    BY <1>1 DEF ScanTables
  <2>2. f = "yara_string_matches"
    OBVIOUS
  <2>3. n \in DOMAIN found[f].rows
    BY <1>7
  <2> HIDE DEF f
  <2>4. /\ topic.dataType # "other"
        /\ \E i \in DOMAIN m : found[f].rows[n].rule = m[i].identifier
    BY <1>1, <2>1, <2>2, <2>3, TableAnswers
  <2> QED
    BY <2>4 DEF f
<1>3. topic.dataType # "other" => Len(rows) = Len(m)
  BY <1>1, TableAnswers, Zenon DEF ScanTables, Scannable, SomeNull
<1>4. topic.data # Null /\ topic.rules \in Compilable
  <2>1. ~Refused(topic) /\ topic.rules # Null /\ topic.data # Null
    BY <1>1, TableAnswers, Zenon DEF ScanTables, SomeNull
  <2> QED
    BY <2>1 DEF Refused
<1>5. DOMAIN m = 1..Len(m) /\ Len(m) \in Nat
  BY <1>1, <1>4, SeenType
<1> HIDE DEF rows, hits, m
<1>6. ASSUME NEW n \in DOMAIN hits
      PROVE  \E r \in Members(rows) : r.rule = hits[n].rule
  <2>1. PICK i \in DOMAIN m : hits[n].rule = m[i].identifier
    BY <1>6, <1>7
  <2>2. DOMAIN rows = DOMAIN m
    BY <1>2, <1>3, <1>5, <1>6, <1>7
  <2>3. rows[i] \in Members(rows) /\ rows[i].rule = hits[n].rule
    BY <1>2, <2>1, <2>2 DEF Members
  <2> QED
    BY <2>3
<1> QED
  BY <1>6 DEF Members, rows, hits

\* When a scalar that scans has failed.
LEMMA ScalarFails ==
  ASSUME WInv, NEW f \in ScanScalars, Has(f)
  PROVE  Failed(f) <=> topic.data # Null /\ (topic.dataType = "other" \/ Refused(topic))
<1>1. topic \in Topics /\ IsRight(topic, f, found[f])
  BY HasRight
<1> QED
  BY <1>1, ScalarAnswers, Zenon DEF Failed

\* When a table function that scans has failed: for its rules only.
LEMMA TableFails ==
  ASSUME WInv, NEW f \in ScanTables, Has(f)
  PROVE  Failed(f) <=> Refused(topic)
<1>1. topic \in Topics /\ IsRight(topic, f, found[f])
  BY HasRight
<1> QED
  BY <1>1, TableAnswers, Zenon DEF Failed

\* So they fail alike.
LEMMA AllFailAlike == WInv => FailAlike
<1> SUFFICES ASSUME WInv PROVE FailAlike
  OBVIOUS
<1>1. ASSUME NEW f \in ScanScalars, NEW g \in ScanScalars, Has(f), Has(g)
      PROVE  Failed(f) <=> Failed(g)
  BY <1>1, ScalarFails
<1>2. ASSUME NEW f \in ScanTables, NEW g \in ScanTables, Has(f), Has(g)
      PROVE  Failed(f) <=> Failed(g)
  BY <1>2, TableFails
<1>3. ASSUME NEW f \in ScanScalars, NEW g \in ScanTables, Has(f), Has(g), Readable
      PROVE  Failed(f) <=> Failed(g)
  BY <1>3, ScalarFails, TableFails DEF Readable
<1>4. ASSUME NEW f \in ScanScalars, Has(f), ~Readable
      PROVE  Failed(f) <=> topic.data # Null
  BY <1>4, ScalarFails DEF Readable
<1>5. ASSUME NEW f \in ScanTables, Has(f), topic.rules = Null
      PROVE  ~Failed(f)
  BY <1>5, TableFails DEF Refused
<1> QED
  BY <1>1, <1>2, <1>3, <1>4, <1>5, Zenon DEF FailAlike

\* What the scalars say of a NULL.
LEMMA NullCells ==
  ASSUME WInv, SomeNull, NEW f \in ScanScalars, Ok(f)
  PROVE  found[f].column = Both(Null)
<1>1. topic \in Topics /\ IsRight(topic, f, found[f]) /\ found[f].status # "error"
  BY HasRight DEF Ok, Failed
<1> QED
  BY <1>1, ScalarAnswers, Zenon DEF SomeNull

\* Nor have the tables rows of a NULL, or of data that they cannot read.
LEMMA NoRows ==
  ASSUME WInv, SomeNull \/ ~Readable, NEW f \in ScanTables, Ok(f)
  PROVE  found[f].rows = <<>>
<1>1. topic \in Topics /\ IsRight(topic, f, found[f]) /\ found[f].status # "error"
  BY HasRight DEF Ok, Failed
<1>2. topic.data = Null \/ topic.rules = Null \/ topic.dataType = "other"
  BY DEF SomeNull, Readable
<1> QED
  BY <1>1, <1>2, TableAnswers, Zenon

\* Of one topic, functions that are separate code say the same.
LEMMA Agree == WInv => FunctionsAgree
<1> SUFFICES ASSUME WInv PROVE FunctionsAgree
  OBVIOUS
<1>1. ASSUME Scannable, ~SomeNull, Ok("yara_scan")
      PROVE  AgreesWith(found["yara_scan"].rows)
  <2>1. "yara_match_count" \in ScanScalars /\ "yara_matches" \in ScanScalars
        /\ "yara_first_rule" \in ScanScalars
    BY DEF ScanScalars
  <2> QED
    BY <1>1, <2>1, ScalarsCount, HitsAreListed, Zenon DEF AgreesWith
<1>2. FailAlike
  BY AllFailAlike
<1>3. ASSUME SomeNull
      PROVE  \A f \in ScanScalars : Ok(f) => found[f].column = Both(Null)
  BY <1>3, NullCells
<1>4. ASSUME SomeNull \/ ~Readable
      PROVE  \A f \in ScanTables : Ok(f) => found[f].rows = <<>>
  BY <1>4, NoRows
<1> QED
  BY <1>1, <1>2, <1>3, <1>4, Zenon DEF FunctionsAgree

\* yara_check tells which of them fail.
LEMMA CheckAgrees == WInv => CheckTells
<1> SUFFICES ASSUME WInv, Has("yara_check") PROVE CheckTells
  BY DEF CheckTells
<1>1. topic \in Topics /\ IsRight(topic, "yara_check", found["yara_check"])
  BY HasRight
<1>2. found["yara_check"].status = "ok"
  BY <1>1, CheckAnswers
<1>3. ASSUME topic.rules # Null
      PROVE  found["yara_check"].column[1] = (topic.rules \in Compilable)
  <2>1. found["yara_check"].column = Both(topic.rules \in Compilable)
    BY <1>1, <1>3, CheckAnswers
  <2> QED
    BY <2>1 DEF Both
<1>4. ASSUME topic.rules # Null, NEW f \in ScanTables, Has(f)
      PROVE  Failed(f) = ~found["yara_check"].column[1]
  <2>1. Failed(f) = (topic.rules \notin Compilable)
    BY <1>4, TableFails DEF Refused, Failed
  <2> QED
    BY <1>3, <1>4, <2>1
<1>5. ASSUME topic.rules # Null, NEW f \in ScanScalars, Has(f), Readable
      PROVE  Failed(f) = ~found["yara_check"].column[1]
  <2>1. Failed(f) = (topic.rules \notin Compilable)
    BY <1>5, ScalarFails DEF Refused, Failed, Readable
  <2> QED
    BY <1>3, <1>5, <2>1
<1> QED
  BY <1>2, <1>4, <1>5, Zenon DEF CheckTells, Ok, Failed

-----------------------------------------------------------------------------
(* The answers are as published.                                           *)

\* The cells of a scalar are of the type that its metadata gives.
LEMMA CellsAsPublished ==
  ASSUME NEW t \in Topics, NEW f \in ScalarFns, NEW a, IsRight(t, f, a),
         a.status # "error"
  PROVE  Members(a.column) \subseteq CellsOf(Entry(f).returns) \cup {Null}
<1>1. Entry(f).returns = ReturnType(f)
  BY DEF Entry, MatchesEntry, FirstRuleEntry, MatchCountEntry, ScanScalarEntry,
         CheckEntry, ReturnType, ScalarFns, ScanScalars
<1>2. a.column \in Seq(SP!CellType(f))
  <2>1. CASE f \in ScanScalars
    BY <2>1, ScalarAnswers, Zenon
  <2>2. CASE f = "yara_check"
    BY <2>2, CheckAnswers
  <2> QED
    BY <2>1, <2>2 DEF ScalarFns
<1>3. \A i \in DOMAIN a.column : a.column[i] \in SP!CellType(f)
  BY <1>2
<1>7. Boolean # Utf8 /\ Boolean # Int32 /\ Utf8 # Int32
  BY DEF Boolean, Utf8, Int32
<1>4. CASE f \in {"yara_matches", "yara_check"}
  <2>1. ReturnType(f) = Boolean
    BY <1>4 DEF ReturnType
  <2>2. CellsOf(Boolean) = BOOLEAN
    BY <1>7 DEF CellsOf
  <2>3. SP!CellType(f) = BOOLEAN \cup {Null}
    BY <1>4 DEF SP!CellType
  <2> QED
    BY <1>1, <1>3, <2>1, <2>2, <2>3, Zenon DEF Members
<1>5. CASE f = "yara_first_rule"
  <2>1. ReturnType(f) = Utf8
    BY <1>5 DEF ReturnType
  <2>2. CellsOf(Utf8) = RuleName
    BY <1>7 DEF CellsOf
  <2>3. SP!CellType(f) = RuleName \cup {Null}
    BY <1>5 DEF SP!CellType
  <2> QED
    BY <1>1, <1>3, <2>1, <2>2, <2>3, Zenon DEF Members
<1>6. CASE f = "yara_match_count"
  <2>1. ReturnType(f) = Int32
    BY <1>6 DEF ReturnType
  <2>2. CellsOf(Int32) = 0..(CountLimit - 1)
    BY <1>7 DEF CellsOf
  <2>3. SP!CellType(f) = (-CountLimit)..(CountLimit - 1) \cup {Null}
    BY <1>6 DEF SP!CellType
  <2>4. f \in ScanScalars
    BY <1>6 DEF ScanScalars
  <2>5. \A i \in DOMAIN a.column : a.column[i] \in Nat \cup {Null}
    BY <1>6, <2>4, ScalarAnswers, Zenon
  <2>6. \A i \in DOMAIN a.column : a.column[i] \in 0..(CountLimit - 1) \cup {Null}
    BY <1>3, <2>3, <2>5, CountAssumption
  <2> QED
    BY <1>1, <2>1, <2>2, <2>6, Zenon DEF Members
<1> QED
  BY <1>4, <1>5, <1>6 DEF ScalarFns, ScanScalars

\* The columns of a table function are those its tag describes.
LEMMA ColumnsAsPublished ==
  ASSUME NEW f \in ScanTables
  PROVE  DeclaredColumns(OutputSchema(f)) = Entry(f).tags["vgi.result_columns_schema"]
<1>1. /\ SqlType(Utf8) = "VARCHAR" /\ SqlType(Int64) = "BIGINT"
      /\ SqlType(ListVarcharType) = "VARCHAR[]"
  BY DEF SqlType, Utf8, Int64, ListVarcharType, List
<1>2. CASE f = "yara_scan"
  <2> DEFINE columns == << Column("rule", "VARCHAR"), Column("namespace", "VARCHAR"),
                           Column("tags", "VARCHAR[]") >>
  <2>1. Entry(f).tags["vgi.result_columns_schema"] = columns
    <3>1. \E category, queries :
            Entry(f).tags = ExampleQueries(ResultColumns(ObjectTags(category), columns),
                                           queries)
      BY <1>2 DEF Entry, ScanEntry
    <3> HIDE DEF columns
    <3> QED
      BY <3>1, CategoryDescribed, Zenon
  <2>2. DeclaredColumns(OutputSchema(f)) = columns
    BY <1>1, <1>2 DEF DeclaredColumns, OutputSchema, ScanSchema, Field, Column
  <2> QED
    BY <2>1, <2>2
<1>3. CASE f = "yara_string_matches"
  <2> DEFINE columns == << Column("rule", "VARCHAR"), Column("identifier", "VARCHAR"),
                           Column("offset", "BIGINT"), Column("matched", "VARCHAR") >>
  <2>1. Entry(f).tags["vgi.result_columns_schema"] = columns
    <3>1. \E category, queries :
            Entry(f).tags = ExampleQueries(ResultColumns(ObjectTags(category), columns),
                                           queries)
      BY <1>3 DEF Entry, StringMatchesEntry
    <3> HIDE DEF columns
    <3> QED
      BY <3>1, CategoryDescribed, Zenon
  <2>2. DeclaredColumns(OutputSchema(f)) = columns
    BY <1>1, <1>3 DEF DeclaredColumns, OutputSchema, StringMatchesSchema, Field, Column
  <2> QED
    BY <2>1, <2>2
<1> QED
  BY <1>2, <1>3 DEF ScanTables

\* The rows of yara_modules are as many as the table says, all different.
LEMMA ModulesAsPublished ==
  ASSUME NEW t \in Topics, NEW a, IsRight(t, "yara_modules", a), a.status # "error"
  PROVE  /\ Len(a.rows) = ModuleCount
         /\ Cardinality(Members(a.rows)) = ModuleCount
<1> DEFINE r == RequestFor(t, "yara_modules")
<1>1. r \in Requests /\ r.fn = "yara_modules" /\ "yara_modules" \in TableFns
  BY ClientAssumption DEF TableFns, RequestFor
<1>2. TP!Sound(r, a.rows)
  BY <1>1 DEF IsRight
<1>3. TP!Sound(r, TP!MODULES)
  BY <1>1, TP!ModulesAreSound, SameConstants, EngineAssumption, RangeAssumption,
     MarkerAssumption, RequestAssumption, OffsetAssumption, ZenonT(60)
<1> HIDE DEF r
<1>4. Len(a.rows) = Len(TP!MODULES)
  BY <1>1, <1>2, <1>3 DEF TP!Sound, TP!Contract!IsWhole
<1>5. Len(TP!MODULES) = 7 /\ ModuleCount = 7
  BY DEF TP!MODULES, MODULES, ModuleCount
<1>6. /\ \A n, k \in DOMAIN a.rows : n # k => a.rows[n] # a.rows[k]
      /\ a.rows \in Seq(TP!RowType("yara_modules"))
  <2>1. a.rows # <<>>
    <3>1. Len(<<>>) = 0 /\ 0 # 7
      OBVIOUS
    <3>2. Len(a.rows) = 7
      BY <1>4, <1>5, Zenon
    <3> QED
      BY <3>1, <3>2, Zenon
  <2>2. ~TP!Contract!Scanned(r)
    BY <1>1 DEF TP!Contract!Scanned, TP!Contract!ScanTables
  <2> QED
    BY <1>1, <1>2, <2>1, <2>2 DEF TP!Sound, TP!Contract!IsWhole, TP!Contract!IsPartial
<1>7. DOMAIN a.rows = 1..7
  BY <1>4, <1>5, <1>6
<1>8. IsFiniteSet(1..7) /\ Cardinality(1..7) = 7
  <2>1. \A n \in Nat : IsFiniteSet(1..n) /\ Cardinality(1..n) = n
    BY FS_Interval
  <2> QED
    BY <2>1
<1> DEFINE rows == a.rows
<1>9. rows \in [1..7 -> Members(rows)]
  <2>1. \A n \in 1..7 : rows[n] \in Members(rows)
    BY <1>7 DEF Members
  <2>2. rows = [n \in 1..7 |-> rows[n]]
    BY <1>6, <1>7
  <2> QED
    BY <2>1, <2>2
<1>10. rows \in Bijection(1..7, Members(rows))
  <2>1. \A n, k \in 1..7 : rows[n] = rows[k] => n = k
    BY <1>6, <1>7, SMTT(30)
  <2>2. \A m \in Members(rows) : \E n \in 1..7 : rows[n] = m
    BY <1>7 DEF Members
  <2> QED
    BY <1>9, <2>1, <2>2, Fun_IsBij
<1>11. Cardinality(Members(rows)) = 7
  <2> HIDE DEF rows
  <2> QED
    BY <1>8, <1>10, FS_Bijection DEF ExistsBijection
<1> QED
  BY <1>4, <1>5, <1>11

\* What the worker publishes about its functions is true of their answers.
LEMMA Delivers == WInv => DeliveredAsPublished
<1> SUFFICES ASSUME WInv, NEW f, Ok(f)
             PROVE  LET answer == found[f]
                    IN  /\ f \in ScalarFns =>
                             Members(answer.column)
                               \subseteq CellsOf(Entry(f).returns) \cup {Null}
                        /\ f \in ScanTables =>
                             DeclaredColumns(answer.schema) =
                               Entry(f).tags["vgi.result_columns_schema"]
                        /\ f = "yara_modules" =>
                             LET t == ModulesTable
                             IN  /\ answer.schema = t.columns
                                 /\ Len(answer.rows) = t.cardinality
                                 /\ Cardinality(Members(answer.rows)) = t.cardinality
  BY DEF DeliveredAsPublished
<1>1. topic \in Topics /\ IsRight(topic, f, found[f]) /\ found[f].status # "error"
  BY HasRight DEF Ok, Failed
<1>2. f \in ScalarFns =>
        Members(found[f].column) \subseteq CellsOf(Entry(f).returns) \cup {Null}
  BY <1>1, CellsAsPublished
<1>3. f \in TableFns => found[f].schema = OutputSchema(f)
  BY <1>1 DEF IsRight, TP!OutputSchema, OutputSchema, TP!ScanSchema, ScanSchema,
              TP!StringMatchesSchema, StringMatchesSchema, TP!ModulesSchema,
              ModulesSchema, TP!Field, Field, TP!Utf8, Utf8, TP!Int64, Int64,
              TP!ListVarcharType, ListVarcharType, TP!List, List
<1>4. f \in ScanTables =>
        DeclaredColumns(found[f].schema) = Entry(f).tags["vgi.result_columns_schema"]
  BY <1>3, ColumnsAsPublished, Zenon DEF TableFns
<1>5. ModulesTable.columns = ModulesSchema /\ ModulesTable.cardinality = ModuleCount
  BY DEF ModulesTable
<1>6. ASSUME f = "yara_modules"
      PROVE  /\ found[f].schema = ModulesSchema
             /\ Len(found[f].rows) = ModuleCount
             /\ Cardinality(Members(found[f].rows)) = ModuleCount
  <2>1. found[f].schema = ModulesSchema
    BY <1>3, <1>6 DEF TableFns, OutputSchema
  <2> QED
    BY <1>1, <1>6, <2>1, ModulesAsPublished
<1> QED
  BY <1>2, <1>4, <1>5, <1>6

-----------------------------------------------------------------------------
(* The published examples.                                                 *)

\* The rule demo, as it is reported of the text of the first example.
DemoRule == [identifier |-> "demo", namespace |-> "default", tags |-> <<>>,
             patterns |-> << [identifier |-> "$a",
                              matches |-> << [start |-> 19, end |-> 26] >>] >>]

\* The texts are scanned as a whole.
LEMMA TextsWhole ==
  ASSUME NEW d \in {Infected, EvilWorm}
  PROVE  d \in Data /\ d # Null /\ S!Bounded(d) = d /\ d \notin Fallible
<1>1. d \in Data /\ d \notin Fallible /\ Len(d) <= MaxDataLen
  BY TextAssumption, ExampleAssumption, SMTT(30)
<1>2. Len(d) \in Nat /\ MaxDataLen \in Nat
  BY <1>1, EngineAssumption
<1>3. S!Bounded(d) = d
  BY <1>1, <1>2 DEF S!Bounded
<1> QED
  BY <1>1, <1>3, MarkerAssumption

\* The rules compile.
LEMMA RulesFine ==
  ASSUME NEW s \in {Demo, Pair}
  PROVE  s \in Compilable /\ s # Null
BY ExampleAssumption, EngineAssumption, MarkerAssumption, SMTT(30)

\* The topic of the queries about the first text.
IsDemo(t) == t \in Topics /\ t.data = Infected /\ t.rules = Demo /\ t.dataType = "varchar"

\* It can be scanned, and one rule is reported of it.
LEMMA DemoSeen ==
  ASSUME NEW t, IsDemo(t)
  PROVE  /\ t \in Topics /\ t.data # Null /\ t.rules # Null /\ t.dataType # "other"
         /\ S!Bounded(t.data) = Infected /\ S!Bounded(t.data) \notin Fallible
         /\ ~Refused(t)
         /\ Seen(t) = <<DemoRule>>
<1>1. /\ t \in Topics /\ t.data = Infected /\ t.rules = Demo /\ t.dataType = "varchar"
  BY DEF IsDemo
<1>2. Seen(t) = <<DemoRule>>
  BY <1>1, TextsWhole, ExampleAssumption DEF Seen, DemoRule
<1> QED
  BY <1>1, <1>2, TextsWhole, RulesFine DEF Refused

\* What the scalars say of it.
LEMMA DemoScalars ==
  ASSUME NEW t, IsDemo(t), NEW f \in {"yara_matches", "yara_first_rule"}, NEW a,
         IsRight(t, f, a)
  PROVE  /\ a.status = "ok"
         /\ f = "yara_matches" => a.column = Both(TRUE)
         /\ f = "yara_first_rule" => a.column = Both("demo")
<1>1. f \in ScanScalars
  BY DEF ScanScalars
<1>2. a.status = "ok" /\ a.status # "error"
  BY <1>1, DemoSeen, ScalarAnswers, Zenon
<1>3. PICK c : a.column = Both(c) /\ SP!Contract!IsVerdict(f, <<DemoRule>>, c)
  <2>1. \E c : a.column = Both(c) /\ SP!Contract!IsVerdict(f, Seen(t), c)
    BY <1>1, <1>2, DemoSeen, ScalarAnswers, Zenon
  <2>2. Seen(t) = <<DemoRule>>
    BY DemoSeen
  <2> QED
    BY <2>1, <2>2, Zenon
<1>4. Len(<<DemoRule>>) > 0 /\ ~(Len(<<DemoRule>>) = 0) /\ <<DemoRule>>[1] = DemoRule
  OBVIOUS
<1>5. f = "yara_matches" => c = TRUE
  <2>1. (Len(<<DemoRule>>) > 0) = TRUE
    BY <1>4
  <2> QED
    BY <1>3, <2>1, Zenon DEF SP!Contract!IsVerdict
<1>6. f = "yara_first_rule" => c = "demo"
  <2>1. f = "yara_first_rule" => c = DemoRule.identifier
    BY <1>3, <1>4, Zenon DEF SP!Contract!IsVerdict
  <2> QED
    BY <2>1 DEF DemoRule
<1> QED
  BY <1>2, <1>3, <1>5, <1>6

\* What yara_match_count says of the second text.
LEMMA PairCounted ==
  ASSUME NEW t \in Topics, t.data = EvilWorm, t.rules = Pair, t.dataType = "varchar",
         NEW a, IsRight(t, "yara_match_count", a)
  PROVE  a.status = "ok" /\ a.column = Both(2)
<1> DEFINE f == "yara_match_count"
<1>1. f \in ScanScalars
  BY DEF ScanScalars
<1>2. /\ t.data # Null /\ t.rules # Null /\ t.dataType # "other" /\ ~Refused(t)
      /\ S!Bounded(t.data) = EvilWorm /\ S!Bounded(t.data) \notin Fallible
  BY TextsWhole, RulesFine DEF Refused
<1>3. Len(Seen(t)) = 2
  BY <1>2, ExampleAssumption DEF Seen
<1>4. a.status = "ok" /\ a.status # "error"
  BY <1>1, <1>2, ScalarAnswers, Zenon
<1>5. PICK c : a.column = Both(c) /\ SP!Contract!IsVerdict(f, Seen(t), c)
  BY <1>1, <1>2, <1>4, ScalarAnswers, Zenon
<1>6. c = Len(Seen(t))
  BY <1>5, Zenon DEF SP!Contract!IsVerdict
<1> QED
  BY <1>3, <1>4, <1>5, <1>6

\* yara_check accepts the rule demo.
LEMMA DemoChecked ==
  ASSUME NEW t \in Topics, t.rules = Demo, NEW a, IsRight(t, "yara_check", a)
  PROVE  a.status = "ok" /\ a.column = Both(TRUE)
<1>1. (t.rules \in Compilable) = TRUE /\ t.rules # Null
  BY RulesFine
<1> QED
  BY <1>1, CheckAnswers

\* What the table functions say of the first text.
LEMMA DemoTables ==
  ASSUME NEW t, IsDemo(t), NEW f \in ScanTables, NEW a, IsRight(t, f, a)
  PROVE  /\ a.status = "ok" /\ a.rows \in Seq(TP!RowType(f))
         /\ Len(a.rows) = TP!Contract!RowCount(f, <<DemoRule>>)
         /\ \A n \in DOMAIN a.rows :
              TP!Contract!IsRow(f, <<DemoRule>>, Infected, n, a.rows[n])
<1>1. a.status = "ok" /\ a.status # "error" /\ a.rows \in Seq(TP!RowType(f))
  BY DemoSeen, TableAnswers, Zenon
<1>2. /\ Len(a.rows) = TP!Contract!RowCount(f, Seen(t))
      /\ \A n \in DOMAIN a.rows :
           TP!Contract!IsRow(f, Seen(t), S!Bounded(t.data), n, a.rows[n])
  BY <1>1, DemoSeen, TableAnswers, Zenon
<1> QED
  BY <1>1, <1>2, DemoSeen, Zenon

\* yara_scan gives the one rule.
LEMMA DemoScanned ==
  ASSUME NEW t, IsDemo(t), NEW a, IsRight(t, "yara_scan", a)
  PROVE  /\ a.status = "ok" /\ DOMAIN a.rows = 1..1
         /\ a.rows[1] = [rule |-> "demo", namespace |-> "default", tags |-> <<>>]
<1>1. "yara_scan" \in ScanTables
  BY DEF ScanTables
<1>2. /\ a.status = "ok" /\ a.rows \in Seq(TP!RowType("yara_scan"))
      /\ Len(a.rows) = TP!Contract!RowCount("yara_scan", <<DemoRule>>)
      /\ \A n \in DOMAIN a.rows :
           TP!Contract!IsRow("yara_scan", <<DemoRule>>, Infected, n, a.rows[n])
  BY <1>1, DemoTables, Zenon
<1>3. Len(a.rows) = 1
  BY <1>2 DEF TP!Contract!RowCount
<1>4. DOMAIN a.rows = 1..1
  BY <1>2, <1>3
<1>5. a.rows[1] = [rule |-> <<DemoRule>>[1].identifier,
                   namespace |-> <<DemoRule>>[1].namespace, tags |-> <<DemoRule>>[1].tags]
  <2>1. TP!Contract!IsRow("yara_scan", <<DemoRule>>, Infected, 1, a.rows[1])
    BY <1>2, <1>4
  <2> QED
    BY <2>1, Zenon DEF TP!Contract!IsRow
<1> QED
  BY <1>2, <1>4, <1>5 DEF DemoRule

\* yara_string_matches gives the one hit, as text.
LEMMA DemoHit ==
  ASSUME NEW t, IsDemo(t), NEW a, IsRight(t, "yara_string_matches", a)
  PROVE  /\ a.status = "ok" /\ DOMAIN a.rows = 1..1
         /\ a.rows[1] \in TP!HitRow
         /\ a.rows[1].identifier = "$a" /\ a.rows[1].offset = 19
         /\ a.rows[1].matched = MalwareText
<1> DEFINE m == <<DemoRule>>
<1> DEFINE f == "yara_string_matches"
<1>1. f \in ScanTables
  BY DEF ScanTables
<1>2. /\ a.status = "ok" /\ a.rows \in Seq(TP!RowType(f))
      /\ Len(a.rows) = TP!Contract!RowCount(f, m)
      /\ \A n \in DOMAIN a.rows : TP!Contract!IsRow(f, m, Infected, n, a.rows[n])
  BY <1>1, DemoTables, Zenon
<1>3. TP!RowType(f) = TP!HitRow
  BY DEF TP!RowType
<1>4. /\ DOMAIN m = {1} /\ m[1].identifier = "demo" /\ DOMAIN m[1].patterns = {1}
      /\ m[1].patterns[1].identifier = "$a" /\ DOMAIN m[1].patterns[1].matches = {1}
      /\ m[1].patterns[1].matches[1].start = 19 /\ m[1].patterns[1].matches[1].end = 26
  BY DEF DemoRule
<1> HIDE DEF m
<1>5. TP!Contract!Hits(m) = {<<1, 1, 1>>}
  BY <1>4 DEF TP!Contract!Hits
<1>6. Cardinality({<<1, 1, 1>>}) = 1
  BY FS_Singleton, Zenon
<1>7. Len(a.rows) = 1
  <2>1. TP!Contract!Cardinality({<<1, 1, 1>>}) = Cardinality({<<1, 1, 1>>})
    BY DEF TP!Contract!Cardinality, Cardinality
  <2>2. TP!Contract!RowCount(f, m) = TP!Contract!Cardinality(TP!Contract!Hits(m))
    BY DEF TP!Contract!RowCount
  <2> QED
    BY <1>2, <1>5, <1>6, <2>1, <2>2
<1>8. DOMAIN a.rows = 1..1 /\ a.rows[1] \in TP!HitRow
  BY <1>2, <1>3, <1>7
<1>9. /\ a.rows[1].identifier = "$a" /\ a.rows[1].offset = 19
      /\ a.rows[1].matched.of = SubSeq(Infected, 20, 26)
      /\ a.rows[1].matched.form =
           IF TP!Contract!Printable(SubSeq(Infected, 20, 26)) THEN "text" ELSE "hex"
  <2>1. TP!Contract!IsRow(f, m, Infected, 1, a.rows[1])
    BY <1>2, <1>8
  <2>2. PICK h \in TP!Contract!Hits(m) :
          LET pattern == m[h[1]].patterns[h[2]]
              range == pattern.matches[h[3]]
              bytes == SubSeq(Infected, range.start + 1, range.end)
          IN  /\ a.rows[1].identifier = pattern.identifier
              /\ a.rows[1].offset = range.start
              /\ a.rows[1].matched.of = bytes
              /\ a.rows[1].matched.form =
                   IF TP!Contract!Printable(bytes) THEN "text" ELSE "hex"
    BY <2>1, Zenon DEF TP!Contract!IsRow
  <2>3. h = <<1, 1, 1>>
    BY <1>5
  <2>4. h[1] = 1 /\ h[2] = 1 /\ h[3] = 1
    BY <2>3, SMTT(30)
  <2>5. /\ m[h[1]].patterns[h[2]].identifier = "$a"
        /\ m[h[1]].patterns[h[2]].matches[h[3]].start = 19
        /\ m[h[1]].patterns[h[2]].matches[h[3]].end = 26
    BY <1>4, <2>4
  <2>6. 19 + 1 = 20
    OBVIOUS
  <2>7. /\ a.rows[1].identifier = m[h[1]].patterns[h[2]].identifier
        /\ a.rows[1].offset = m[h[1]].patterns[h[2]].matches[h[3]].start
    BY <2>2, Zenon
  <2>8. /\ a.rows[1].matched.of = SubSeq(Infected, 19 + 1, 26)
        /\ a.rows[1].matched.form =
             IF TP!Contract!Printable(SubSeq(Infected, 19 + 1, 26)) THEN "text" ELSE "hex"
    BY <2>2, <2>5, Zenon
  <2>9. /\ a.rows[1].matched.of = SubSeq(Infected, 20, 26)
        /\ a.rows[1].matched.form =
             IF TP!Contract!Printable(SubSeq(Infected, 20, 26)) THEN "text" ELSE "hex"
    BY <2>6, <2>8, Zenon
  <2> QED
    BY <2>5, <2>7, <2>9
<1>10. SubSeq(Infected, 20, 26) = Malware /\ TP!Contract!Printable(Malware)
  BY ExampleAssumption DEF TP!Contract!Printable
<1>11. a.rows[1].matched = MalwareText
  BY <1>8, <1>9, <1>10 DEF TP!HitRow, TP!Rendered, MalwareText
<1> QED
  BY <1>2, <1>8, <1>9, <1>11

\* A client that asked what a published query asks got an answer about the texts
\* of the query.
LEMMA AskedAsPublished ==
  ASSUME WInv, NEW q, Known(q), Answers(q)
  PROVE  /\ Has(q.fn) /\ topic \in Topics /\ IsRight(topic, q.fn, found[q.fn])
         /\ q.fn \in {"yara_matches", "yara_first_rule"} \cup ScanTables => IsDemo(topic)
         /\ q.fn = "yara_match_count" =>
              topic.data = EvilWorm /\ topic.rules = Pair /\ topic.dataType = "varchar"
         /\ q.fn = "yara_check" => topic.rules = Demo
<1>1. Has(q.fn)
  BY DEF Answers
<1>2. topic \in Topics /\ IsRight(topic, q.fn, found[q.fn])
  BY <1>1, HasRight
<1>3. /\ q.fn \in ScanScalars \cup ScanTables =>
           q.data = topic.data /\ topic.dataType = "varchar"
      /\ q.fn # "yara_modules" => q.rules = topic.rules
  BY DEF Answers
<1> QED
  BY <1>1, <1>2, <1>3 DEF Known, IsDemo, ScanScalars, ScanTables

\* The rows of cells that an answer is.
LEMMA ProjectedIs ==
  ASSUME NEW q
  PROVE  /\ q.fn \in ScalarFns => Projected(q) = << <<found[q.fn].column[1]>> >>
         /\ q.fn \in ScanTables =>
              Projected(q) = [n \in DOMAIN found[q.fn].rows |->
                                [i \in DOMAIN q.columns |->
                                   found[q.fn].rows[n][q.columns[i]]]]
         /\ q.fn = "yara_modules" => Projected(q) = found[q.fn].rows
BY DEF Projected, ScalarFns, ScanScalars, ScanTables

\* The same of a table function, by its name.
LEMMA RowsProjected ==
  ASSUME NEW q, NEW f \in ScanTables, q.fn = f, NEW rows, found[f].rows = rows
  PROVE  Projected(q) = [n \in DOMAIN rows |-> [i \in DOMAIN q.columns |->
                                                  rows[n][q.columns[i]]]]
<1>1. Projected(q) = [n \in DOMAIN found[f].rows |->
                        [i \in DOMAIN q.columns |-> found[f].rows[n][q.columns[i]]]]
  BY ProjectedIs
<1> QED
  BY <1>1, Zenon

\* The table functions answer the queries about the first text with one row.
LEMMA OneRow ==
  ASSUME WInv, NEW q, Known(q), Answers(q), q.fn \in ScanTables
  PROVE  /\ found[q.fn].status = "ok"
         /\ DOMAIN found[q.fn].rows = 1..1
<1>1. IsDemo(topic) /\ IsRight(topic, q.fn, found[q.fn])
  BY AskedAsPublished
<1>2. CASE q.fn = "yara_scan"
  BY <1>1, <1>2, DemoScanned
<1>3. CASE q.fn = "yara_string_matches"
  BY <1>1, <1>3, DemoHit
<1> QED
  BY <1>2, <1>3 DEF ScanTables

\* What each scalar answers to the query that is published of it.
LEMMA OneCell ==
  ASSUME WInv, NEW q, Known(q), Answers(q), q.fn \in ScalarFns
  PROVE  /\ found[q.fn].status = "ok"
         /\ q.fn \in {"yara_check", "yara_matches"} => Projected(q) = << <<TRUE>> >>
         /\ q.fn = "yara_first_rule" => Projected(q) = << <<"demo">> >>
         /\ q.fn = "yara_match_count" => Projected(q) = << <<2>> >>
<1>1. /\ IsRight(topic, q.fn, found[q.fn]) /\ topic \in Topics
      /\ q.fn \in {"yara_matches", "yara_first_rule"} => IsDemo(topic)
      /\ q.fn = "yara_match_count" =>
           topic.data = EvilWorm /\ topic.rules = Pair /\ topic.dataType = "varchar"
      /\ q.fn = "yara_check" => topic.rules = Demo
  BY AskedAsPublished, SMTT(30)
<1>2. Projected(q) = << <<found[q.fn].column[1]>> >>
  BY ProjectedIs
<1>3. CASE q.fn = "yara_check"
  <2>1. found[q.fn].status = "ok" /\ found[q.fn].column = Both(TRUE)
    BY <1>1, <1>3, DemoChecked, Zenon
  <2>2. found[q.fn].column[1] = TRUE
    BY <2>1 DEF Both
  <2> QED
    BY <1>2, <1>3, <2>1, <2>2, Zenon
<1>4. CASE q.fn = "yara_matches"
  <2>1. found[q.fn].status = "ok" /\ found[q.fn].column = Both(TRUE)
    BY <1>1, <1>4, DemoScalars
  <2>2. found[q.fn].column[1] = TRUE
    BY <2>1 DEF Both
  <2> QED
    BY <1>2, <1>4, <2>1, <2>2, ZenonT(60)
<1>5. CASE q.fn = "yara_first_rule"
  <2>1. found[q.fn].status = "ok" /\ found[q.fn].column = Both("demo")
    BY <1>1, <1>5, DemoScalars, Zenon
  <2> QED
    BY <1>2, <1>5, <2>1 DEF Both
<1>6. CASE q.fn = "yara_match_count"
  <2>1. found[q.fn].status = "ok" /\ found[q.fn].column = Both(2)
    BY <1>1, <1>6, PairCounted
  <2> QED
    BY <1>2, <1>6, <2>1 DEF Both
<1> QED
  BY <1>3, <1>4, <1>5, <1>6 DEF ScalarFns, ScanScalars

\* Every published query is answered, with a row at least.
LEMMA QueryAnswered ==
  ASSUME WInv, NEW q, Known(q), Answers(q)
  PROVE  Ok(q.fn) /\ Projected(q) # <<>>
<1>1. Has(q.fn) /\ IsRight(topic, q.fn, found[q.fn]) /\ topic \in Topics
  BY AskedAsPublished
<1>2. CASE q.fn \in ScalarFns
  <2>1. found[q.fn].status = "ok"
    BY <1>2, OneCell, Zenon
  <2>2. Projected(q) = << <<found[q.fn].column[1]>> >>
    BY <1>2, ProjectedIs
  <2> QED
    BY <1>1, <2>1, <2>2 DEF Ok, Failed
<1>3. CASE q.fn \in ScanTables
  <2>1. found[q.fn].status = "ok" /\ DOMAIN found[q.fn].rows = 1..1
    BY <1>3, OneRow, SMTT(30)
  <2>2. DOMAIN Projected(q) = DOMAIN found[q.fn].rows
    BY <1>3, ProjectedIs
  <2>3. Projected(q) # <<>>
    BY <2>1, <2>2
  <2> QED
    BY <1>1, <2>1, <2>3 DEF Ok, Failed
<1>4. CASE q.fn = "yara_modules"
  <2>1. found[q.fn].status # "error"
    <3> DEFINE r == RequestFor(topic, q.fn)
    <3>1. r.fn = "yara_modules" /\ q.fn \in TableFns
      BY <1>4 DEF RequestFor, TableFns
    <3> HIDE DEF r
    <3>2. ~TP!Contract!Invalid(r)
      BY <3>1 DEF TP!Contract!Invalid, TP!Contract!ScanTables
    <3>3. found[q.fn].status = "ok" \/ TP!Contract!Invalid(r)
      BY <1>1, <3>1 DEF IsRight, r
    <3> QED
      BY <3>2, <3>3
  <2>2. Len(found[q.fn].rows) = 7
    <3>1. Len(found[q.fn].rows) = ModuleCount
      BY <1>1, <1>4, <2>1, ModulesAsPublished
    <3> QED
      BY <3>1 DEF ModuleCount, MODULES
  <2>3. Projected(q) = found[q.fn].rows
    BY <1>4, ProjectedIs
  <2>4. Projected(q) # <<>>
    <3>1. Len(<<>>) = 0 /\ 0 # 7
      OBVIOUS
    <3> QED
      BY <2>2, <2>3, <3>1, Zenon
  <2> QED
    BY <1>1, <2>1, <2>4 DEF Ok, Failed
<1> QED
  BY <1>2, <1>3, <1>4 DEF Known, Served, ScalarFns, ScanScalars, ScanTables

\* The example about yara_scan is as it says.
LEMMA ScanExample ==
  ASSUME WInv, NEW q, q = ScanDemo(<<"rule", "namespace">>), Answers(q)
  PROVE  Projected(q) = << <<"demo", "default">> >>
<1> DEFINE rows == found["yara_scan"].rows
<1>1. Known(q) /\ q.fn = "yara_scan" /\ q.columns = <<"rule", "namespace">>
  BY QueriesKnown
<1>2. q.fn \in ScanTables
  BY <1>1 DEF ScanTables
<1>3. DOMAIN rows = 1..1
      /\ rows[1] = [rule |-> "demo", namespace |-> "default", tags |-> <<>>]
  BY <1>1, <1>2, AskedAsPublished, DemoScanned
<1>4. Projected(q) = [n \in DOMAIN rows |-> [i \in DOMAIN q.columns |->
                                                rows[n][q.columns[i]]]]
  BY <1>1, <1>2, RowsProjected
<1> HIDE DEF rows
<1>5. /\ DOMAIN q.columns = 1..2
      /\ rows[1][q.columns[1]] = "demo" /\ rows[1][q.columns[2]] = "default"
  BY <1>1, <1>3
<1>6. [i \in DOMAIN q.columns |-> rows[1][q.columns[i]]] = <<"demo", "default">>
  BY <1>5
<1>7. Projected(q) = [n \in 1..1 |-> <<"demo", "default">>]
  BY <1>3, <1>4, <1>6
<1> QED
  BY <1>7

\* The example about yara_string_matches is as it says.
LEMMA HitsExample ==
  ASSUME WInv, NEW q, q = HitsDemo(<<"identifier", "offset", "matched">>), Answers(q)
  PROVE  Projected(q) = << <<"$a", 19, MalwareText>> >>
<1> DEFINE rows == found["yara_string_matches"].rows
<1>1. Known(q) /\ q.fn = "yara_string_matches"
      /\ q.columns = <<"identifier", "offset", "matched">>
  BY QueriesKnown
<1>2. q.fn \in ScanTables
  BY <1>1 DEF ScanTables
<1>3. /\ DOMAIN rows = 1..1 /\ rows[1] \in TP!HitRow
      /\ rows[1].identifier = "$a" /\ rows[1].offset = 19
      /\ rows[1].matched = MalwareText
  BY <1>1, <1>2, AskedAsPublished, DemoHit
<1>4. Projected(q) = [n \in DOMAIN rows |-> [i \in DOMAIN q.columns |->
                                                rows[n][q.columns[i]]]]
  BY <1>1, <1>2, RowsProjected
<1> HIDE DEF rows
<1> DEFINE text == MalwareText
<1> HIDE DEF text
<1>5. /\ DOMAIN q.columns = 1..3
      /\ rows[1][q.columns[1]] = "$a" /\ rows[1][q.columns[2]] = 19
      /\ rows[1][q.columns[3]] = text
  BY <1>1, <1>3 DEF text
<1>6. [i \in DOMAIN q.columns |-> rows[1][q.columns[i]]] = <<"$a", 19, text>>
  BY <1>5
<1>7. Projected(q) = [n \in 1..1 |-> <<"$a", 19, text>>]
  BY <1>3, <1>4, <1>6
<1> QED
  BY <1>7 DEF text

\* Each executable example has the answer it states.
LEMMA ExampleAnswered ==
  ASSUME WInv, NEW i \in DOMAIN ExecutableExamples,
         Answers(ExecutableExamples[i].query), ExecutableExamples[i].rows # Null
  PROVE  Projected(ExecutableExamples[i].query) = ExecutableExamples[i].rows
<1> DEFINE text == MalwareText
<1> DEFINE yes == << <<TRUE>> >>
<1> DEFINE scanned == ScanDemo(<<"rule", "namespace">>)
<1> DEFINE hits == HitsDemo(<<"identifier", "offset", "matched">>)
<1>1. /\ DOMAIN ExecutableExamples = 1..7
      /\ ExecutableExamples[1] = Expect(CheckDemo, yes)
      /\ ExecutableExamples[2] = Expect(MatchesDemo, yes)
      /\ ExecutableExamples[3] = Expect(FirstDemo, << <<"demo">> >>)
      /\ ExecutableExamples[4] = Expect(CountPair, << <<2>> >>)
      /\ ExecutableExamples[5] = Expect(scanned, << <<"demo", "default">> >>)
      /\ ExecutableExamples[6] = Expect(hits, << <<"$a", 19, text>> >>)
      /\ ExecutableExamples[7] = Expect(Modules(<<"module", "description">>), Null)
  BY DEF ExecutableExamples
<1> HIDE DEF text, yes, scanned, hits
<1>2. i \in 1..7 /\ i # 7
  BY <1>1 DEF Expect
<1> DEFINE q == ExecutableExamples[i].query
<1> DEFINE rows == ExecutableExamples[i].rows
<1>3. Answers(q)
  OBVIOUS
<1>4. /\ i \in {1, 2} => q \in {CheckDemo, MatchesDemo} /\ rows = yes
      /\ i = 3 => q = FirstDemo /\ rows = << <<"demo">> >>
      /\ i = 4 => q = CountPair /\ rows = << <<2>> >>
      /\ i = 5 => q = scanned /\ rows = << <<"demo", "default">> >>
      /\ i = 6 => q = hits /\ rows = << <<"$a", 19, text>> >>
  <2>1. /\ i = 1 => q = CheckDemo /\ rows = yes
        /\ i = 2 => q = MatchesDemo /\ rows = yes
    BY <1>1 DEF Expect
  <2>2. /\ i = 3 => q = FirstDemo /\ rows = << <<"demo">> >>
        /\ i = 4 => q = CountPair /\ rows = << <<2>> >>
    BY <1>1 DEF Expect
  <2>3. i = 5 => q = scanned /\ rows = << <<"demo", "default">> >>
    BY <1>1 DEF Expect
  <2>4. i = 6 => q = hits /\ rows = << <<"$a", 19, text>> >>
    BY <1>1 DEF Expect
  <2> QED
    BY <2>1, <2>2, <2>3, <2>4
<1> HIDE DEF q, rows
<1>5. /\ "yara_check" \in ScalarFns /\ "yara_matches" \in ScalarFns
      /\ "yara_first_rule" \in ScalarFns /\ "yara_match_count" \in ScalarFns
  BY DEF ScalarFns, ScanScalars
<1>6. CASE i \in {1, 2}
  <2>1. Known(q) /\ q.fn \in {"yara_check", "yara_matches"} /\ q.fn \in ScalarFns
    BY <1>4, <1>5, <1>6, QueriesKnown
  <2>2. Projected(q) = yes
    BY <1>3, <2>1, OneCell DEF yes
  <2> QED
    BY <1>4, <1>6, <2>2 DEF q, rows
<1>7. CASE i = 3
  <2>1. Known(q) /\ q.fn = "yara_first_rule" /\ q.fn \in ScalarFns
    BY <1>4, <1>5, <1>7, QueriesKnown
  <2>2. Projected(q) = << <<"demo">> >>
    BY <1>3, <2>1, OneCell
  <2> QED
    BY <1>4, <1>7, <2>2 DEF q, rows
<1>8. CASE i = 4
  <2>1. Known(q) /\ q.fn = "yara_match_count" /\ q.fn \in ScalarFns
    BY <1>4, <1>5, <1>8, QueriesKnown
  <2>2. Projected(q) = << <<2>> >>
    BY <1>3, <2>1, OneCell, Zenon
  <2> QED
    BY <1>4, <1>8, <2>2 DEF q, rows
<1>9. CASE i = 5
  <2>1. Projected(q) = << <<"demo", "default">> >>
    BY <1>3, <1>4, <1>9, ScanExample DEF scanned
  <2> QED
    BY <1>4, <1>9, <2>1 DEF q, rows
<1>10. CASE i = 6
  <2>1. Projected(q) = << <<"$a", 19, text>> >>
    BY <1>3, <1>4, <1>10, HitsExample DEF hits, text
  <2> QED
    BY <1>4, <1>10, <2>1 DEF q, rows
<1> QED
  BY <1>2, <1>6, <1>7, <1>8, <1>9, <1>10

\* The published examples hold of the answers of the worker that main makes.
LEMMA Promised == WInv /\ MainInv => ExamplesHold
<1> SUFFICES ASSUME WInv, MainInv, Serving PROVE ExamplesHold
  BY DEF ExamplesHold
<1>1. \A q \in Published : Known(q)
  BY RegisteredAre, PublishedKnown
<1>2. \A q \in Published : Answers(q) => Ok(q.fn) /\ Projected(q) # <<>>
  BY <1>1, QueryAnswered
<1>3. \A i \in DOMAIN ExecutableExamples :
        LET example == ExecutableExamples[i]
        IN  Answers(example.query) /\ example.rows # Null =>
              Projected(example.query) = example.rows
  BY ExampleAnswered, Zenon
<1> QED
  BY <1>2, <1>3, Zenon DEF ExamplesHold

-----------------------------------------------------------------------------
(* The theorems.                                                           *)

\* main is the only one that registers functions and sets the catalog.
LEMMA StepsMain ==
  ASSUME [Next]_workerVars
  PROVE  [Main]_startupVars
BY DEF Next, Client, Start, Choose, AskScalar, ScalarWork, TakeScalar, AskTable,
       TableWork, TakeTable, LeaveTable, Drop, workerVars

\* What is proved of main alone is so of main in the worker.
LEMMA WorkerMain == Spec => []MainInv
<1>1. Init => MainInv
  BY MainInvInit DEF Init
<1>2. MainInv /\ [Next]_workerVars => MainInv'
  BY StepsMain, MainInvNext
<1> QED
  BY <1>1, <1>2, PTL DEF Spec

\* Whatever calls of the other kind and of other topics come in between, what a
\* caller sees of the scalar functions, and of the table functions, are behaviours
\* of their contracts.
THEOREM WorkerKeepsContracts == Spec => SP!ImplementsContract /\ TP!ImplementsContract
<1>1. Init => SP!Contract!ContractInit /\ TP!Contract!ContractInit
  BY DEF Init, S!Init, T!Init, SP!Contract!ContractInit, TP!Contract!ContractInit
<1>2. WInv /\ [Next]_workerVars => [SP!Contract!ContractNext]_(SP!Contract!contractVars)
  <2>1. SP!IInv /\ [SP!Next]_(SP!vars)
          => [SP!Contract!ContractNext]_(SP!Contract!contractVars)
    BY SP!StepRefines, SameConstants, EngineAssumption, RangeAssumption,
       MarkerAssumption, BatchAssumption, CountAssumption, ZenonT(60)
  <2> QED
    BY <2>1, StepsScalars DEF WInv
<1>3. WInv /\ [Next]_workerVars => [TP!Contract!ContractNext]_(TP!Contract!contractVars)
  <2>1. TP!Inv /\ [TP!Next]_(TP!vars)
          => [TP!Contract!ContractNext]_(TP!Contract!contractVars)
    BY TP!StepRefines, SameConstants, EngineAssumption, RangeAssumption,
       MarkerAssumption, RequestAssumption, OffsetAssumption, ZenonT(60)
  <2> QED
    BY <2>1, StepsTables DEF WInv
<1> QED
  BY <1>1, <1>2, <1>3, Inductive, PTL
     DEF Spec, SP!ImplementsContract, SP!Contract!ContractSafety,
         TP!ImplementsContract, TP!Contract!ContractSafety

\* main.rs:317: the worker serves what it lists, whatever its clients ask.
THEOREM WorkerListsWhatItServes == Spec => []ListedIsServed
BY WorkerMain, MainLists, PTL

\* meta.rs:15-18: so do the keyword lists of its catalog read back as JSON.
THEOREM WorkerEncodesKeywords == Spec => []KeywordsEncoded
BY ListsEncoded, PTL

\* main.rs:398-399: so does a catalog name that is Unicode stay the one that was
\* asked for.
THEOREM WorkerHonorsUnicode == Spec => [](variable \in Unicode => OverrideHonored)
<1>1. Init => CatalogNamed
  BY DEF Init, StartupInit, CatalogNamed
<1>2. CatalogNamed /\ [Next]_workerVars => CatalogNamed'
  BY StepsMain, CatalogNamedNext
<1>3. CatalogNamed => (variable \in Unicode => OverrideHonored)
  BY UnicodeIsHonored
<1> QED
  BY <1>1, <1>2, <1>3, PTL DEF Spec

\* matches.rs:48, scan.rs:115: for every engine and every topic, and however
\* scalar and table calls interleave, functions that are separate code say the
\* same of the same data and rules.  On data on which the scanner cannot fail the
\* count, the verdict and the first rule of the scalars are those of the rows of
\* yara_scan, and all hits are of rules listed there.  On BLOB and VARCHAR data one
\* fails if and only if the others do; on NULL data no scalar fails, on data of
\* another type each does, and the table functions, which compile the rules first,
\* fail together or give no rows.
THEOREM FunctionsAlwaysAgree == Spec => []FunctionsAgree
BY Inductive, Agree, PTL

\* check.rs:4-5: yara_check never fails, and tells of any rules whether the table
\* functions do, and the scalars on data that they can read.
THEOREM CheckAlwaysTells == Spec => []CheckTells
BY Inductive, CheckAgrees, PTL

\* scan.rs:51, main.rs:327: no answer has a cell, a column or a number of rows
\* that is not the published one.
THEOREM AnswersAsPublished == Spec => []DeliveredAsPublished
BY Inductive, Delivers, PTL

\* main.rs:195: every query that the worker publishes is answered without an
\* error and with a row at least, and an executable example as it says, provided
\* the engine reports of the example texts what ExampleAssumption says.
THEOREM ExamplesAlwaysHold == Spec => []ExamplesHold
BY Inductive, WorkerMain, Promised, PTL

=============================================================================
