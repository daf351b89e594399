------------------------------ MODULE Catalog ------------------------------
(***************************************************************************)
(* What the worker publishes about itself: the arguments and metadata of   *)
(* each function (scalar/ and table/), and the catalog with its schema,    *)
(* its table, its worked examples and its agent tasks (main.rs).           *)
(*                                                                         *)
(* The wording (titles, descriptions, keywords, provenance) is left out.   *)
(* Kept is what has to agree with something else: names, argument          *)
(* positions, result types and columns, categories, and the queries with   *)
(* the results they are said to give.                                      *)
(***************************************************************************)
EXTENDS ScalarCalls, TableCalls, Announced

CONSTANTS
  Infected,   \* the text 'this file contains malware'
  EvilWorm,   \* the text 'evil worm'
  Malware,    \* the text 'malware'
  Demo,       \* the source of the rule demo, which looks for "malware" as $a
  Pair        \* the source of the rules a and b, which look for "evil", "worm"

ASSUME TextAssumption ==
  /\ {Infected, EvilWorm} \subseteq Data
  /\ Malware \in Seq(Byte)
  /\ {Demo, Pair} \subseteq Source

\* What the engine makes of them: it reports demo of Infected, with its one hit,
\* and the two rules of Pair of EvilWorm, and does not fail on either.
ASSUME ExampleAssumption ==
  /\ {Demo, Pair} \subseteq Compilable
  /\ \A d \in {Infected, EvilWorm} : d \notin Fallible /\ Len(d) <= MaxDataLen
  /\ Engine[<<Demo, Infected>>] =
       << [identifier |-> "demo", namespace |-> "default", tags |-> <<>>,
           patterns |-> << [identifier |-> "$a",
                            matches |-> << [start |-> 19, end |-> 26] >>] >>] >>
  /\ Len(Engine[<<Pair, EvilWorm>>]) = 2
  /\ SubSeq(Infected, 20, 26) = Malware
  /\ \A i \in DOMAIN Malware : Malware[i] = "print"

-----------------------------------------------------------------------------
(* Arguments and queries.                                                  *)

Arg(name, position, type) == [name |-> name, position |-> position, type |-> type]

\* argument_specs: one of the three scan scalars, one of each other function.
ScanScalarSpecs == << Arg("data", 0, "any"), Arg("rules", 1, "varchar") >>
CheckSpecs == << Arg("rules", 0, "varchar") >>
ScanSpecs == << Arg("data", 0, "any"), Arg("rules", 1, "varchar") >>
StringMatchesSpecs == << Arg("data", 0, "any"), Arg("rules", 1, "varchar") >>

ArgumentSpecs(f) ==
  CASE f \in ScanScalars -> ScanScalarSpecs
    [] f = "yara_check" -> CheckSpecs
    [] f = "yara_scan" -> ScanSpecs
    [] f = "yara_string_matches" -> StringMatchesSpecs
    [] f = "yara_modules" -> <<>>

\* A query of one function.  A query of a table function names the columns it
\* projects; one of a scalar gives one unnamed column.
Query(f, data, rules, columns) ==
  [fn |-> f, data |-> data, rules |-> rules, columns |-> columns]

CheckDemo == Query("yara_check", Null, Demo, <<>>)
MatchesDemo == Query("yara_matches", Infected, Demo, <<>>)
FirstDemo == Query("yara_first_rule", Infected, Demo, <<>>)
CountPair == Query("yara_match_count", EvilWorm, Pair, <<>>)
ScanDemo(columns) == Query("yara_scan", Infected, Demo, columns)
HitsDemo(columns) == Query("yara_string_matches", Infected, Demo, columns)
Modules(columns) == Query("yara_modules", Null, Null, columns)

-----------------------------------------------------------------------------
(* The metadata of the functions.                                          *)

\* object_tags, without the tags that are wording.
ObjectTags(category) == [key \in {"vgi.category"} |-> category]

\* tags.push((key, value)), where no tag has that key yet.
Pushed(tags, key, value) ==
  [k \in DOMAIN tags \cup {key} |-> IF k = key THEN value ELSE tags[k]]

ResultColumns(tags, columns) == Pushed(tags, "vgi.result_columns_schema", columns)
ExampleQueries(tags, queries) == Pushed(tags, "vgi.example_queries", queries)

\* metadata() of a scan scalar: the example is given twice, natively and as a
\* tag, from two literals.
ScanScalarEntry(f, example, exampleQuery) ==
  [name |-> f, arguments |-> ArgumentSpecs(f), returns |-> ReturnType(f),
   examples |-> <<example>>,
   tags |-> ExampleQueries(ObjectTags("Scanning"), <<exampleQuery>>)]

MatchesEntry == ScanScalarEntry("yara_matches", MatchesDemo, MatchesDemo)
FirstRuleEntry == ScanScalarEntry("yara_first_rule", FirstDemo, FirstDemo)
MatchCountEntry == ScanScalarEntry("yara_match_count", CountPair, CountPair)

CheckEntry ==
  [name |-> "yara_check", arguments |-> ArgumentSpecs("yara_check"),
   returns |-> Boolean, examples |-> <<CheckDemo>>,
   tags |-> ExampleQueries(ObjectTags("Rule Validation"), <<CheckDemo>>)]

\* A column of vgi.result_columns_schema, by its SQL type.
Column(name, sql) == [name |-> name, sql |-> sql]

ScanEntry ==
  [name |-> "yara_scan", arguments |-> ArgumentSpecs("yara_scan"), examples |-> <<>>,
   tags |-> ExampleQueries(
     ResultColumns(ObjectTags("Match Details"),
        << Column("rule", "VARCHAR"), Column("namespace", "VARCHAR"),
           Column("tags", "VARCHAR[]") >>),
     << ScanDemo(<<"rule", "namespace">>) >>)]

\* Mutant: the type of a column is out of date.
StringMatchesEntryStale ==
  [name |-> "yara_string_matches",
   arguments |-> ArgumentSpecs("yara_string_matches"), examples |-> <<>>,
   tags |-> ExampleQueries(
     ResultColumns(ObjectTags("Match Details"),
        << Column("rule", "VARCHAR"), Column("identifier", "VARCHAR"),
           Column("offset", "INTEGER"), Column("matched", "VARCHAR") >>),
     << HitsDemo(<<"rule", "identifier", "offset", "matched">>) >>)]

StringMatchesEntry ==
  [name |-> "yara_string_matches",
   arguments |-> ArgumentSpecs("yara_string_matches"), examples |-> <<>>,
   tags |-> ExampleQueries(
     ResultColumns(ObjectTags("Match Details"),
        << Column("rule", "VARCHAR"), Column("identifier", "VARCHAR"),
           Column("offset", "BIGINT"), Column("matched", "VARCHAR") >>),
     << HitsDemo(<<"rule", "identifier", "offset", "matched">>) >>)]

\* It declares no result columns: those of the catalog table describe them.
ModulesEntry ==
  [name |-> "yara_modules", arguments |-> ArgumentSpecs("yara_modules"),
   examples |-> <<>>, tags |-> ObjectTags("Reference")]

\* The metadata by name.
Entry(f) ==
  CASE f = "yara_matches" -> MatchesEntry
    [] f = "yara_first_rule" -> FirstRuleEntry
    [] f = "yara_match_count" -> MatchCountEntry
    [] f = "yara_check" -> CheckEntry
    [] f = "yara_scan" -> ScanEntry
    [] f = "yara_string_matches" -> StringMatchesEntry
    [] f = "yara_modules" -> ModulesEntry

-----------------------------------------------------------------------------
(* The catalog.                                                            *)

\* yara_modules_table: the table that wraps the function yara_modules.
ModulesTable ==
  [name |-> "yara_modules", columns |-> ModulesSchema, function |-> ModulesEntry,
   cardinality |-> ModuleCount, primaryKey |-> << <<0>> >>, notNull |-> <<0>>,
   tags |-> ExampleQueries(ObjectTags("Reference"),
     << Modules(<<"module", "description">>), Modules(<<>>) >>)]

\* The queries that vgi.example_queries of the schema lists.
SchemaQueries ==
  << CheckDemo, MatchesDemo, FirstDemo, CountPair, ScanDemo(<<"rule", "namespace">>),
     HitsDemo(<<"identifier", "offset", "matched">>),
     Modules(<<"module", "description">>) >>

MainSchema ==
  [name |-> "main",
   categories |-> <<"Scanning", "Match Details", "Rule Validation", "Reference">>,
   queries |-> SchemaQueries, tables |-> <<ModulesTable>>]

\* AGENT_TEST_TASKS, by the reference_sql of each task.
AgentTestTasks ==
  << CheckDemo, MatchesDemo, CountPair, FirstDemo, ScanDemo(<<"rule">>),
     HitsDemo(<<"identifier", "offset">>), Modules(<<>>), Modules(<<"module">>) >>

\* An expected result is a sequence of rows, each a sequence of cells; Null, if
\* the example states none.
Expect(query, rows) == [query |-> query, rows |-> rows]

MalwareText == [form |-> "text", of |-> Malware]

\* vgi.executable_examples
ExecutableExamples ==
  << Expect(CheckDemo, << <<TRUE>> >>),
     Expect(MatchesDemo, << <<TRUE>> >>),
     Expect(FirstDemo, << <<"demo">> >>),
     Expect(CountPair, << <<2>> >>),
     Expect(ScanDemo(<<"rule", "namespace">>), << <<"demo", "default">> >>),
     Expect(HitsDemo(<<"identifier", "offset", "matched">>),
            << <<"$a", 19, MalwareText>> >>),
     Expect(Modules(<<"module", "description">>), Null) >>

\* catalog_metadata
CatalogModel(name) ==
  [name |-> name, tasks |-> AgentTestTasks, examples |-> ExecutableExamples,
   schemas |-> <<MainSchema>>]

=============================================================================
