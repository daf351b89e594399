------------------------------ MODULE Startup ------------------------------
(***************************************************************************)
(* main() of crates/yara-worker/src/main.rs: the catalog name is taken     *)
(* from the environment, the functions are registered, the catalog is set, *)
(* and the worker runs.                                                    *)
(*                                                                         *)
(* The library's Worker keeps what it is given, in order: scalars, tables  *)
(* and catalog here.  Its set_catalog registers the function behind each   *)
(* table of the catalog as a table function.                               *)
(***************************************************************************)
EXTENDS Catalog, FiniteSets

CONSTANTS
  EnvNames,   \* the values VGI_WORKER_CATALOG_NAME may have been given
  Unicode,    \* those among them that are Unicode
  Lists       \* the comma-separated keyword lists an object may be given

ASSUME EnvAssumption == Unicode \subseteq EnvNames /\ "yara" \in Unicode

K == INSTANCE Keywords

ASSUME ListsAssumption == Lists \subseteq Seq(K!Char)

VARIABLES
  pc,         \* the next statement of main
  variable,   \* VGI_WORKER_CATALOG_NAME in the process; Null if it is not set
  scalars,    \* the names of the scalar functions registered
  tables,     \* the names of the table functions registered
  catalog     \* the name of the catalog that is set; Null before set_catalog

startupVars == <<pc, variable, scalars, tables, catalog>>

-----------------------------------------------------------------------------

StartupInit ==
  /\ pc = "default"
  /\ variable \in EnvNames \cup {Null}
  /\ scalars = <<>>
  /\ tables = <<>>
  /\ catalog = Null

\* var_os(..).is_none(): the variable is set for the library to see as well.
DefaultName ==
  /\ pc = "default"
  /\ pc' = "scalars"
  /\ variable' = IF variable = Null THEN "yara" ELSE variable
  /\ UNCHANGED <<scalars, tables, catalog>>

\* catalog_name: var() fails on a value that is not Unicode.
CatalogName == IF variable \in Unicode THEN variable ELSE "yara"

\* scalar::register
RegisterScalars ==
  /\ pc = "scalars"
  /\ pc' = "tables"
  /\ scalars' = <<"yara_matches", "yara_first_rule", "yara_match_count", "yara_check">>
  /\ UNCHANGED <<variable, tables, catalog>>

\* Mutant: yara_modules is registered like the others, too.
RegisterTablesAll ==
  /\ pc = "tables"
  /\ pc' = "catalog"
  /\ tables' = <<"yara_scan", "yara_string_matches", "yara_modules">>
  /\ UNCHANGED <<variable, scalars, catalog>>

\* table::register: the table functions that take arguments.
RegisterTables ==
  /\ pc = "tables"
  /\ pc' = "catalog"
  /\ tables' = <<"yara_scan", "yara_string_matches">>
  /\ UNCHANGED <<variable, scalars, catalog>>

\* The functions behind the tables of the catalog.
BackingFunctions ==
  [i \in DOMAIN MainSchema.tables |-> MainSchema.tables[i].function.name]

\* worker.set_catalog(catalog_metadata(name))
SetCatalog ==
  /\ pc = "catalog"
  /\ pc' = "run"
  /\ catalog' = CatalogName
  /\ tables' = tables \o BackingFunctions
  /\ UNCHANGED <<variable, scalars>>

\* worker.run()
Run ==
  /\ pc = "run"
  /\ pc' = "serving"
  /\ UNCHANGED <<variable, scalars, tables, catalog>>

Main ==
  \/ DefaultName
  \/ RegisterScalars
  \/ RegisterTables
  \/ SetCatalog
  \/ Run

StartupSpec == StartupInit /\ [][Main]_startupVars /\ WF_startupVars(Main)

-----------------------------------------------------------------------------

Serving == pc = "serving"

\* What can be called.
Registered == scalars \o tables

Members(s) == {s[i] : i \in DOMAIN s}

TaggedQueries(tags) ==
  IF "vgi.example_queries" \in DOMAIN tags
  THEN Members(tags["vgi.example_queries"]) ELSE {}

\* Every query the worker publishes: examples and tasks of the catalog, those
\* of the schema and its tables, and those of the functions, which have them
\* natively and as a tag.
Published ==
  {ExecutableExamples[i].query : i \in DOMAIN ExecutableExamples}
  \cup Members(AgentTestTasks)
  \cup Members(MainSchema.queries)
  \cup (UNION {TaggedQueries(t.tags) : t \in Members(MainSchema.tables)})
  \cup (UNION {Members(Entry(f).examples) \cup TaggedQueries(Entry(f).tags) :
                 f \in Members(Registered)})

\* main.rs:317: what the worker lists is what it serves.  Every function of a
\* published query is registered, and registered once, although one of them is
\* registered by the catalog; every registered function and every table is in a
\* declared category, and no category is empty.
ListedIsServed ==
  Serving =>
    LET placed == {Entry(f).tags["vgi.category"] : f \in Members(Registered)}
                  \cup {t.tags["vgi.category"] : t \in Members(MainSchema.tables)}
    IN  /\ \A q \in Published : q.fn \in Members(Registered)
        /\ Cardinality(Members(Registered)) = Len(Registered)
        /\ placed = Members(MainSchema.categories)

\* meta.rs:15-18: whatever quotes, backslashes, commas and blanks the keyword
\* list of an object has, what set_catalog publishes of it is a JSON array that
\* reads back as the keywords of the list, each once and in order.
KeywordsEncoded ==
  pc = "catalog" => \A list \in Lists : K!Encodes(K!KeywordsJson(list), list)

\* main.rs:398 has main "honor an explicit override": a catalog name that was
\* set in the environment is the name that is served.
OverrideHonored == Serving => catalog = variable

=============================================================================
