------------------------------- MODULE Worker -------------------------------
(***************************************************************************)
(* The worker as DuckDB sees it: after main (Startup) it serves scalar     *)
(* calls (Scalars) and table calls (Tables), here to a client that chooses *)
(* a topic, which is data and rules, and some functions to ask about it,   *)
(* each at most once, a scalar call and a table call at a time.  What the  *)
(* functions, which are separate code, say of one topic has to agree with  *)
(* each other and with what the catalog publishes.                         *)
(***************************************************************************)
EXTENDS Startup

CONSTANTS
  Topics,    \* what the client may ask about: data, its SQL type, and rules
  Questions  \* the sets of functions it may ask about a topic

VARIABLES
  topic,   \* what the client asks about; Null between topics
  found,   \* by function it asks, the answer it got; Null if it has none
  sPhase, sFn, sBatch, sReply, sRow, sOut, sCache, sCompiles,  \* Scalars
  tPhase, tRequest, tSchema, tProducer, tReceived              \* Tables

clientVars == <<topic, found>>
sVars == <<sPhase, sFn, sBatch, sReply, sRow, sOut, sCache, sCompiles>>
tVars == <<tPhase, tRequest, tSchema, tProducer, tReceived>>
workerVars == <<startupVars, clientVars, sVars, tVars>>

S == INSTANCE Scalars
  WITH phase <- sPhase, fn <- sFn, batch <- sBatch, reply <- sReply,
       row <- sRow, out <- sOut, cache <- sCache, compiles <- sCompiles

T == INSTANCE Tables
  WITH phase <- tPhase, request <- tRequest, schema <- tSchema,
       producer <- tProducer, received <- tReceived

\* The client is to ask f, and has not got its answer.
Awaited(f) == f \in DOMAIN found /\ found[f] = Null

-----------------------------------------------------------------------------
(* A topic put as a call: the arguments go to the positions that the specs *)
(* give their names, and the functions read them by position.              *)

\* The argument of topic t that function f is passed at a position.
Passed(t, f, position) ==
  LET spec == CHOOSE a \in Members(ArgumentSpecs(f)) : a.position = position
  IN  t[spec.name]

\* process: data is column 0 and rules column 1; yara_check has rules alone.
RowFor(t, f) ==
  IF f = "yara_check" THEN [data |-> Null, rules |-> Passed(t, f, 0)]
  ELSE [data |-> Passed(t, f, 0), rules |-> Passed(t, f, 1)]

\* A batch of two equal rows.
BatchFor(t, f) ==
  [dataType |-> CASE t.dataType = "blob" -> "binary"
                  [] t.dataType = "varchar" -> "utf8"
                  [] OTHER -> "other",
   rulesType |-> "utf8",
   rows |-> <<RowFor(t, f), RowFor(t, f)>>]

\* producer: data is the constant argument 0 and rules the constant argument 1.
RequestFor(t, f) ==
  IF f = "yara_modules"
  THEN [fn |-> f, dataType |-> "other", data |-> Null, rules |-> Null]
  ELSE [fn |-> f, dataType |-> t.dataType,
        data |-> Passed(t, f, 0), rules |-> Passed(t, f, 1)]

\* A client asks functions that there are about topics that can be put as calls.
ASSUME ClientAssumption ==
  /\ Topics \subseteq [data : Data \cup {Null}, dataType : {"blob", "varchar", "other"},
                      rules : Source \cup {Null}]
  /\ Questions \subseteq SUBSET (ScalarFns \cup TableFns)
  /\ \A t \in Topics :
       /\ \A f \in ScalarFns : BatchFor(t, f) \in Batches
       /\ \A f \in TableFns : RequestFor(t, f) \in Requests

-----------------------------------------------------------------------------

Init ==
  /\ StartupInit
  /\ topic = Null
  /\ found = <<>>
  /\ S!Init
  /\ T!Init

Start == Main /\ UNCHANGED <<clientVars, sVars, tVars>>

Choose ==
  /\ Serving /\ topic = Null
  /\ topic' \in Topics
  /\ \E asked \in Questions : found' = [f \in asked |-> Null]
  /\ UNCHANGED <<startupVars, sVars, tVars>>

AskScalar(f) ==
  /\ topic # Null /\ Awaited(f)
  /\ f \in Members(Registered)
  /\ S!Call(f, BatchFor(topic, f))
  /\ UNCHANGED <<startupVars, clientVars, tVars>>

ScalarWork == S!Process /\ UNCHANGED <<startupVars, clientVars, tVars>>

TakeScalar ==
  /\ S!Take
  /\ found' = [found EXCEPT ![sFn] = sReply]
  /\ UNCHANGED <<startupVars, topic, tVars>>

AskTable(f) ==
  /\ topic # Null /\ Awaited(f)
  /\ f \in Members(Registered)
  /\ T!Bind(RequestFor(topic, f))
  /\ UNCHANGED <<startupVars, clientVars, sVars>>

TableWork == T!Work /\ UNCHANGED <<startupVars, clientVars, sVars>>

\* The client leaves a table call: with an answer if it came to its end.
TakeTable ==
  /\ tPhase \in {"ended", "failed"}
  /\ T!Leave
  /\ found' = [found EXCEPT ![tRequest.fn] =
                 [status |-> IF tPhase = "ended" THEN "ok" ELSE "error",
                  schema |-> tSchema, rows |-> tReceived]]
  /\ UNCHANGED <<startupVars, topic, sVars>>

\* It leaves a table call before its end, as under a LIMIT, and has no answer of
\* it; it may ask again.
LeaveTable ==
  /\ tPhase \in {"bound", "open"}
  /\ T!Leave
  /\ UNCHANGED <<startupVars, clientVars, sVars>>

\* It knows all it wants to know about the topic.
Drop ==
  /\ topic # Null /\ sPhase = "idle" /\ tPhase = "idle"
  /\ topic' = Null
  /\ found' = <<>>
  /\ UNCHANGED <<startupVars, sVars, tVars>>

Client ==
  \/ Choose
  \/ \E f \in ScalarFns : AskScalar(f)
  \/ TakeScalar
  \/ \E f \in TableFns : AskTable(f)
  \/ TakeTable
  \/ LeaveTable
  \/ Drop

Next == Start \/ Client \/ ScalarWork \/ TableWork

\* main is straight-line code, and so is a call; the client need do nothing but
\* take the answers it asked for.
Fairness ==
  /\ WF_workerVars(Start)
  /\ WF_workerVars(ScalarWork)
  /\ WF_workerVars(TableWork)
  /\ WF_workerVars(TakeScalar)
  /\ WF_workerVars(TakeTable)

Spec == Init /\ [][Next]_workerVars /\ Fairness

-----------------------------------------------------------------------------
(* Properties.                                                             *)

Has(f) == f \in DOMAIN found /\ found[f] # Null
Failed(f) == found[f].status = "error"
Ok(f) == Has(f) /\ ~Failed(f)

\* The scanner cannot fail on the data, so that two scans report the same.
Scannable == topic.data # Null /\ S!Bounded(topic.data) \notin Fallible

SomeNull == topic.data = Null \/ topic.rules = Null

Both(c) == <<c, c>>

\* With rows the rows of yara_scan, the answers that go with them.
AgreesWith(rows) ==
  /\ Ok("yara_match_count") => found["yara_match_count"].column = Both(Len(rows))
  /\ Ok("yara_matches") => found["yara_matches"].column = Both(rows # <<>>)
  /\ Ok("yara_first_rule") =>
       found["yara_first_rule"].column =
         Both(IF rows = <<>> THEN Null ELSE rows[1].rule)
  /\ Ok("yara_string_matches") =>
       \A hit \in Members(found["yara_string_matches"].rows) :
         \E r \in Members(rows) : r.rule = hit.rule

\* The topic has data that both the scalars and the table functions can read.
Readable == topic.data # Null /\ topic.dataType # "other"

\* Functions of one kind fail together, and of both kinds on data that both can read.
\* On other data a scalar fails for its type, if at all; a table function fails for
\* its rules, as CheckTells says, but never for rules that are NULL.
FailAlike ==
  /\ \A f, g \in ScanScalars : Has(f) /\ Has(g) => (Failed(f) <=> Failed(g))
  /\ \A f, g \in ScanTables : Has(f) /\ Has(g) => (Failed(f) <=> Failed(g))
  /\ \A f \in ScanScalars, g \in ScanTables :
       Has(f) /\ Has(g) /\ Readable => (Failed(f) <=> Failed(g))
  /\ \A f \in ScanScalars :
       Has(f) /\ ~Readable => (Failed(f) <=> topic.data # Null)
  /\ \A f \in ScanTables : Has(f) /\ topic.rules = Null => ~Failed(f)

\* matches.rs:48, scan.rs:115, README.md:87: the scalars, from a batch of two
\* rows, and the table functions, from their constants, say the same of the same
\* data and rules.  If the scanner cannot fail on the data, yara_match_count counts
\* the rows of yara_scan, yara_matches tells whether there are any, yara_first_rule
\* is the first of them, and a rule with a hit is one of them.  Where an operand is
\* NULL the scalars that do not fail give NULL; there, and on data of a type that
\* the table functions cannot read, those that do not fail have no rows.
FunctionsAgree ==
  topic # Null =>
    /\ Scannable /\ ~SomeNull /\ Ok("yara_scan") => AgreesWith(found["yara_scan"].rows)
    /\ FailAlike
    /\ SomeNull => \A f \in ScanScalars : Ok(f) => found[f].column = Both(Null)
    /\ SomeNull \/ ~Readable => \A f \in ScanTables : Ok(f) => found[f].rows = <<>>

\* check.rs:4-5: yara_check is the predicate that tells, of rules that are not
\* NULL, whether a table function fails, whatever the data, and whether a scalar
\* does on data that it can read; it does not fail itself.
CheckTells ==
  Has("yara_check") =>
    /\ Ok("yara_check")
    /\ topic.rules # Null =>
         /\ \A f \in ScanTables :
              Has(f) => Failed(f) = ~found["yara_check"].column[1]
         /\ \A f \in ScanScalars :
              Has(f) /\ Readable => Failed(f) = ~found["yara_check"].column[1]

\* The answer to query q as rows of cells.
Projected(q) ==
  CASE q.fn \in ScalarFns -> << <<found[q.fn].column[1]>> >>
    [] q.fn \in ScanTables ->
         [n \in DOMAIN found[q.fn].rows |->
            [i \in DOMAIN q.columns |-> found[q.fn].rows[n][q.columns[i]]]]
    [] q.fn = "yara_modules" -> found[q.fn].rows

\* The client asked what q asks.
Answers(q) ==
  /\ Has(q.fn)
  /\ q.fn \in ScanScalars \cup ScanTables => q.data = topic.data
  /\ q.fn # "yara_modules" => q.rules = topic.rules
  /\ q.fn \in ScanScalars \cup ScanTables => topic.dataType = "varchar"

\* main.rs:195: every query the worker publishes is answered without an error
\* and with a row at least, and an executable example as it says.
ExamplesHold ==
  Serving =>
    /\ \A q \in Published :
         Answers(q) => Ok(q.fn) /\ Projected(q) # <<>>
    /\ \A i \in DOMAIN ExecutableExamples :
         LET example == ExecutableExamples[i]
         IN  Answers(example.query) /\ example.rows # Null =>
               Projected(example.query) = example.rows

SqlType(type) ==
  CASE type = Utf8 -> "VARCHAR"
    [] type = Int64 -> "BIGINT"
    [] type = ListVarcharType -> "VARCHAR[]"

\* The values that a cell of a scalar's type may have.
CellsOf(type) ==
  CASE type = Boolean -> BOOLEAN
    [] type = Utf8 -> RuleName
    [] type = Int32 -> 0..(CountLimit - 1)

DeclaredColumns(schema) ==
  [i \in DOMAIN schema |-> [name |-> schema[i].name, sql |-> SqlType(schema[i].type)]]

\* scan.rs:51, main.rs:327: what a function is answered with is what its
\* metadata says: cells of the type that is published, columns of the names and
\* SQL types in result_columns_schema, and for the table yara_modules as many
\* rows as the cardinality, with its columns, no two with the same key.
DeliveredAsPublished ==
  \A f \in Members(Registered) :
    Ok(f) =>
      LET answer == found[f]
      IN  /\ f \in ScalarFns =>
               Members(answer.column) \subseteq CellsOf(Entry(f).returns) \cup {Null}
          /\ f \in ScanTables =>
               DeclaredColumns(answer.schema) =
                 Entry(f).tags["vgi.result_columns_schema"]
          /\ f = "yara_modules" =>
               LET t == ModulesTable
               IN  /\ answer.schema = t.columns
                   /\ Len(answer.rows) = t.cardinality
                   /\ Cardinality(Members(answer.rows)) = t.cardinality

\* A call that was made is answered, while calls of the other kind come and go.
CallsEnd ==
  /\ sPhase # "idle" ~> sPhase = "idle"
  /\ tPhase # "idle" ~> tPhase = "idle"

=============================================================================
