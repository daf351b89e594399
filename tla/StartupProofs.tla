---------------------------- MODULE StartupProofs ----------------------------
(***************************************************************************)
(* Proofs about main(): what the worker lists, in its catalog and in the   *)
(* metadata of its functions, is what it serves, whatever the environment. *)
(***************************************************************************)
EXTENDS Startup, FunctionTheorems, FiniteSetTheorems, TLAPS

\* What is proved of keywords_json.
KP == INSTANCE KeywordsProofs

-----------------------------------------------------------------------------
(* The functions that main registers.                                      *)

TheScalars == <<"yara_matches", "yara_first_rule", "yara_match_count", "yara_check">>
TheTables == <<"yara_scan", "yara_string_matches">>

\* What is registered before each statement of main.
MainInv ==
  /\ pc \in {"default", "scalars", "tables", "catalog", "run", "serving"}
  /\ scalars = IF pc \in {"default", "scalars"} THEN <<>> ELSE TheScalars
  /\ tables = CASE pc \in {"default", "scalars", "tables"} -> <<>>
                [] pc = "catalog" -> TheTables
                [] pc \in {"run", "serving"} -> TheTables \o BackingFunctions

\* It holds before the first statement.
LEMMA MainInvInit == StartupInit => MainInv
<1> SUFFICES ASSUME StartupInit PROVE MainInv
  OBVIOUS
<1>1. pc = "default" /\ scalars = <<>> /\ tables = <<>>
  BY ZenonT(60) DEF StartupInit
<1> QED
  BY <1>1, Zenon DEF MainInv

\* Every statement keeps it.
LEMMA MainInvNext == MainInv /\ [Main]_startupVars => MainInv'
BY DEF MainInv, Main, startupVars, DefaultName, RegisterScalars, RegisterTables,
       SetCatalog, Run, TheScalars, TheTables, BackingFunctions

-----------------------------------------------------------------------------
(* The members of the lists in the catalog.                                *)

\* The members of a sequence that is given by its elements: none.
LEMMA NoMember == Members(<<>>) = {}
BY DEF Members

\* One element.
LEMMA OneMember ==
  ASSUME NEW a
  PROVE  Members(<<a>>) = {a}
BY DEF Members

\* Two elements.
LEMMA TwoMembers ==
  ASSUME NEW a, NEW b
  PROVE  Members(<<a, b>>) = {a, b}
BY DEF Members

\* Four elements.
LEMMA FourMembers ==
  ASSUME NEW a, NEW b, NEW c, NEW d
  PROVE  Members(<<a, b, c, d>>) = {a, b, c, d}
BY DEF Members

\* Seven elements.
LEMMA SevenMembers ==
  ASSUME NEW a, NEW b, NEW c, NEW d, NEW e, NEW f, NEW g
  PROVE  Members(<<a, b, c, d, e, f, g>>) = {a, b, c, d, e, f, g}
BY DEF Members

\* Eight elements.
LEMMA EightMembers ==
  ASSUME NEW a, NEW b, NEW c, NEW d, NEW e, NEW f, NEW g, NEW h
  PROVE  Members(<<a, b, c, d, e, f, g, h>>) = {a, b, c, d, e, f, g, h}
BY DEF Members

\* What follows on a sequence is a member, too.
LEMMA ConcatMembers ==
  ASSUME NEW X, NEW s \in Seq(X), NEW t \in Seq(X)
  PROVE  /\ s \o t \in Seq(X) /\ Len(s \o t) = Len(s) + Len(t)
         /\ Members(s \o t) = Members(s) \cup Members(t)
<1>1. /\ s \o t \in Seq(X) /\ Len(s \o t) = Len(s) + Len(t)
      /\ \A i \in 1..Len(s) : (s \o t)[i] = s[i]
      /\ \A i \in 1..Len(t) : (s \o t)[Len(s) + i] = t[i]
      /\ Len(s) \in Nat /\ Len(t) \in Nat
  OBVIOUS
<1>2. /\ DOMAIN s = 1..Len(s) /\ DOMAIN t = 1..Len(t)
      /\ DOMAIN (s \o t) = 1..(Len(s) + Len(t))
  BY <1>1
<1>3. ASSUME NEW i \in 1..(Len(s) + Len(t))
      PROVE  (s \o t)[i] \in Members(s) \cup Members(t)
  <2>1. CASE i \in 1..Len(s)
    BY <1>1, <1>2, <2>1 DEF Members
  <2>2. CASE i \notin 1..Len(s)
    <3> DEFINE j == i - Len(s)
    <3>1. j \in 1..Len(t) /\ i = Len(s) + j
      BY <1>1, <1>3, <2>2
    <3> HIDE DEF j
    <3> QED
      BY <1>1, <1>2, <3>1 DEF Members
  <2> QED
    BY <2>1, <2>2
<1>4. ASSUME NEW i \in 1..Len(s) PROVE s[i] \in Members(s \o t)
  <2>1. i \in 1..(Len(s) + Len(t))
    BY <1>1, <1>4
  <2> QED
    BY <1>1, <1>2, <1>4, <2>1 DEF Members
<1>5. ASSUME NEW i \in 1..Len(t) PROVE t[i] \in Members(s \o t)
  <2>1. Len(s) + i \in 1..(Len(s) + Len(t))
    BY <1>1, <1>5
  <2> QED
    BY <1>1, <1>2, <1>5, <2>1 DEF Members
<1> QED
  BY <1>1, <1>2, <1>3, <1>4, <1>5, ZenonT(60) DEF Members

\* The functions there are.
Served == {"yara_matches", "yara_first_rule", "yara_match_count", "yara_check",
           "yara_scan", "yara_string_matches", "yara_modules"}

\* When main is done, they are registered, each once, and one by the catalog.
LEMMA RegisteredAre ==
  ASSUME MainInv, Serving
  PROVE  Members(Registered) = Served /\ Len(Registered) = 7
<1>1. BackingFunctions = <<"yara_modules">>
  BY DEF BackingFunctions, MainSchema, ModulesTable, ModulesEntry
<1>2. scalars = TheScalars /\ tables = TheTables \o <<"yara_modules">>
  BY <1>1 DEF MainInv, Serving
<1>3. /\ TheScalars \in Seq(Served) /\ TheTables \in Seq(Served)
      /\ <<"yara_modules">> \in Seq(Served)
  BY DEF TheScalars, TheTables, Served
<1>4. Len(TheScalars) = 4 /\ Len(TheTables) = 2 /\ Len(<<"yara_modules">>) = 1
  BY DEF TheScalars, TheTables
<1>5. /\ Members(TheScalars) = {"yara_matches", "yara_first_rule",
                                "yara_match_count", "yara_check"}
      /\ Members(TheTables) = {"yara_scan", "yara_string_matches"}
      /\ Members(<<"yara_modules">>) = {"yara_modules"}
  BY OneMember, TwoMembers, FourMembers DEF TheScalars, TheTables
<1>6. /\ tables \in Seq(Served) /\ Len(tables) = Len(TheTables) + Len(<<"yara_modules">>)
      /\ Members(tables) = Members(TheTables) \cup Members(<<"yara_modules">>)
  <2> DEFINE ours == TheTables
             theirs == <<"yara_modules">>
  <2>1. ours \in Seq(Served) /\ theirs \in Seq(Served) /\ tables = ours \o theirs
    BY <1>2, <1>3, Zenon
  <2> HIDE DEF ours, theirs
  <2>2. /\ ours \o theirs \in Seq(Served)
        /\ Len(ours \o theirs) = Len(ours) + Len(theirs)
        /\ Members(ours \o theirs) = Members(ours) \cup Members(theirs)
    BY <2>1, ConcatMembers, ZenonT(60)
  <2> QED
    BY <2>1, <2>2, Zenon DEF ours, theirs
<1>7. /\ Len(Registered) = Len(TheScalars) + Len(tables)
      /\ Members(Registered) = Members(TheScalars) \cup Members(tables)
  <2>1. Registered = TheScalars \o tables
    BY <1>2 DEF Registered
  <2>2. /\ Len(TheScalars \o tables) = Len(TheScalars) + Len(tables)
        /\ Members(TheScalars \o tables) = Members(TheScalars) \cup Members(tables)
    BY <1>3, <1>6, ConcatMembers, SMTT(30)
  <2> QED
    BY <2>1, <2>2
<1>8. Members(Registered) = Served
  BY <1>5, <1>6, <1>7, Zenon DEF Served
<1>9. Len(Registered) = 7
  BY <1>4, <1>6, <1>7
<1> QED
  BY <1>8, <1>9

\* The seven names are different.
LEMMA ServedCount == Cardinality(Served) = 7
<1>1. IsFiniteSet(1..7) /\ Cardinality(1..7) = 7
  <2>1. \A n \in Nat : IsFiniteSet(1..n) /\ Cardinality(1..n) = n
    BY FS_Interval
  <2> QED
    BY <2>1
<1> DEFINE names == <<"yara_matches", "yara_first_rule", "yara_match_count",
                      "yara_check", "yara_scan", "yara_string_matches", "yara_modules">>
<1>2. \A n, k \in 1..7 : names[n] = names[k] => n = k
  OBVIOUS
<1>3. names \in [1..7 -> Served] /\ \A t \in Served : \E n \in 1..7 : names[n] = t
  BY DEF Served
<1>4. names \in Bijection(1..7, Served)
  BY <1>2, <1>3, Fun_IsBij
<1> HIDE DEF names
<1> QED
  BY <1>1, <1>4, FS_Bijection DEF ExistsBijection

-----------------------------------------------------------------------------
(* The queries of the catalog and of the functions.                        *)

\* A tag that is pushed is there, and the others stay.
LEMMA PushedTag ==
  ASSUME NEW tags, NEW key, NEW value
  PROVE  /\ DOMAIN Pushed(tags, key, value) = DOMAIN tags \cup {key}
         /\ Pushed(tags, key, value)[key] = value
         /\ \A k \in DOMAIN tags \ {key} : Pushed(tags, key, value)[k] = tags[k]
BY DEF Pushed

\* The queries that an object lists in its tags are those of its examples.
LEMMA TaggedIs ==
  ASSUME NEW tags, NEW queries
  PROVE  TaggedQueries(ExampleQueries(tags, queries)) = Members(queries)
<1>1. /\ "vgi.example_queries" \in DOMAIN ExampleQueries(tags, queries)
      /\ ExampleQueries(tags, queries)["vgi.example_queries"] = queries
  BY DEF ExampleQueries, Pushed
<1> HIDE DEF ExampleQueries
<1> QED
  BY <1>1 DEF TaggedQueries

\* A category is the only tag that object_tags gives of those kept.
LEMMA CategoryAlone ==
  ASSUME NEW category
  PROVE  /\ ObjectTags(category)["vgi.category"] = category
         /\ TaggedQueries(ObjectTags(category)) = {}
BY DEF ObjectTags, TaggedQueries

\* A category stays when queries are pushed.
LEMMA CategoryListed ==
  ASSUME NEW category, NEW queries
  PROVE  ExampleQueries(ObjectTags(category), queries)["vgi.category"] = category
BY DEF ObjectTags, ExampleQueries, Pushed

\* It stays when columns are pushed as well, and the columns are there.
LEMMA CategoryDescribed ==
  ASSUME NEW tags, NEW category, NEW columns, NEW queries,
         tags = ExampleQueries(ResultColumns(ObjectTags(category), columns), queries)
  PROVE  /\ tags["vgi.category"] = category
         /\ tags["vgi.result_columns_schema"] = columns
BY DEF ObjectTags, ExampleQueries, ResultColumns, Pushed

\* A query is about a function there is, and about one of two topics.
Known(q) ==
  /\ q.fn \in Served
  /\ q.fn \in {"yara_matches", "yara_first_rule"} \cup ScanTables =>
       q.data = Infected /\ q.rules = Demo
  /\ q.fn = "yara_match_count" => q.data = EvilWorm /\ q.rules = Pair
  /\ q.fn = "yara_check" => q.rules = Demo

\* The queries that the texts of the worker are made of.
LEMMA QueriesKnown ==
  /\ Known(CheckDemo) /\ CheckDemo.fn = "yara_check"
  /\ Known(MatchesDemo) /\ MatchesDemo.fn = "yara_matches"
  /\ Known(FirstDemo) /\ FirstDemo.fn = "yara_first_rule"
  /\ Known(CountPair) /\ CountPair.fn = "yara_match_count"
  /\ \A columns :
       LET q == ScanDemo(columns)
       IN  Known(q) /\ q.fn = "yara_scan" /\ q.columns = columns
  /\ \A columns :
       LET q == HitsDemo(columns)
       IN  Known(q) /\ q.fn = "yara_string_matches" /\ q.columns = columns
  /\ \A columns : Known(Modules(columns)) /\ Modules(columns).fn = "yara_modules"
BY DEF CheckDemo, MatchesDemo, FirstDemo, CountPair, ScanDemo, HitsDemo, Modules,
       Query, Served, Known, ScanTables

\* Those in the metadata of a function.
LEMMA EntryQueries ==
  ASSUME NEW f \in Served,
         NEW q \in Members(Entry(f).examples) \cup TaggedQueries(Entry(f).tags)
  PROVE  Known(q)
<1>1. CASE f \in {"yara_matches", "yara_first_rule", "yara_match_count"}
  BY <1>1, TaggedIs, OneMember, QueriesKnown
     DEF Entry, MatchesEntry, FirstRuleEntry, MatchCountEntry, ScanScalarEntry
<1>2. CASE f = "yara_check"
  <2>1. Entry(f) = CheckEntry
    BY <1>2 DEF Entry
  <2>2. /\ Members(CheckEntry.examples) = {CheckDemo}
        /\ TaggedQueries(CheckEntry.tags) = {CheckDemo}
    BY TaggedIs, OneMember DEF CheckEntry
  <2> QED
    BY <2>1, <2>2, QueriesKnown
<1>3. CASE f = "yara_scan"
  <2>1. Entry(f) = ScanEntry
    BY <1>3 DEF Entry
  <2>2. /\ Members(ScanEntry.examples) = {}
        /\ TaggedQueries(ScanEntry.tags) = {ScanDemo(<<"rule", "namespace">>)}
    BY TaggedIs, OneMember, NoMember DEF ScanEntry
  <2> QED
    BY <2>1, <2>2, QueriesKnown
<1>4. CASE f = "yara_string_matches"
  <2>1. Entry(f) = StringMatchesEntry
    BY <1>4 DEF Entry
  <2>2. /\ Members(StringMatchesEntry.examples) = {}
        /\ TaggedQueries(StringMatchesEntry.tags)
             = {HitsDemo(<<"rule", "identifier", "offset", "matched">>)}
    BY TaggedIs, OneMember, NoMember DEF StringMatchesEntry
  <2> QED
    BY <2>1, <2>2, QueriesKnown
<1>5. CASE f = "yara_modules"
  BY <1>5, CategoryAlone, NoMember DEF Entry, ModulesEntry
<1> QED
  BY <1>1, <1>2, <1>3, <1>4, <1>5 DEF Served

\* Those of the catalog, its schema and its table.
LEMMA CatalogQueries ==
  /\ \A i \in DOMAIN ExecutableExamples : Known(ExecutableExamples[i].query)
  /\ \A q \in Members(AgentTestTasks) : Known(q)
  /\ \A q \in Members(MainSchema.queries) : Known(q)
  /\ \A t \in Members(MainSchema.tables) : \A q \in TaggedQueries(t.tags) : Known(q)
<1>1. \A i \in DOMAIN ExecutableExamples : Known(ExecutableExamples[i].query)
  BY QueriesKnown, SMTT(30) DEF ExecutableExamples, Expect
<1>2. \A q \in Members(AgentTestTasks) : Known(q)
  BY QueriesKnown, EightMembers DEF AgentTestTasks
<1>3. \A q \in Members(MainSchema.queries) : Known(q)
  <2>1. MainSchema.queries = SchemaQueries
    BY DEF MainSchema
  <2> QED
    BY <2>1, QueriesKnown, SevenMembers DEF SchemaQueries
<1>4. \A t \in Members(MainSchema.tables) : \A q \in TaggedQueries(t.tags) : Known(q)
  <2>1. Members(MainSchema.tables) = {ModulesTable}
    BY OneMember DEF MainSchema
  <2>2. \A q \in TaggedQueries(ModulesTable.tags) : Known(q)
    BY QueriesKnown, TaggedIs, TwoMembers DEF ModulesTable
  <2> QED
    BY <2>1, <2>2
<1> QED
  BY <1>1, <1>2, <1>3, <1>4

\* The categories of the functions and of the table are the declared ones.
LEMMA PlacedAre ==
  {Entry(f).tags["vgi.category"] : f \in Served}
    \cup {t.tags["vgi.category"] : t \in Members(MainSchema.tables)}
    = Members(MainSchema.categories)
<1>1. /\ Entry("yara_matches").tags["vgi.category"] = "Scanning"
      /\ Entry("yara_first_rule").tags["vgi.category"] = "Scanning"
      /\ Entry("yara_match_count").tags["vgi.category"] = "Scanning"
      /\ Entry("yara_check").tags["vgi.category"] = "Rule Validation"
  BY CategoryListed DEF Entry, MatchesEntry, FirstRuleEntry, MatchCountEntry,
                    ScanScalarEntry, CheckEntry
<1>2. /\ Entry("yara_scan").tags["vgi.category"] = "Match Details"
      /\ Entry("yara_string_matches").tags["vgi.category"] = "Match Details"
      /\ Entry("yara_modules").tags["vgi.category"] = "Reference"
  <2>1. /\ Entry("yara_scan") = ScanEntry
        /\ Entry("yara_string_matches") = StringMatchesEntry
        /\ Entry("yara_modules") = ModulesEntry
    BY DEF Entry
  <2>2. ScanEntry.tags["vgi.category"] = "Match Details"
    <3>1. PICK columns, queries :
            ScanEntry.tags = ExampleQueries(ResultColumns(ObjectTags("Match Details"),
                                                          columns), queries)
      BY DEF ScanEntry
    <3> QED
      BY <3>1, CategoryDescribed, Zenon
  <2>3. StringMatchesEntry.tags["vgi.category"] = "Match Details"
    <3>1. PICK columns, queries :
            StringMatchesEntry.tags
              = ExampleQueries(ResultColumns(ObjectTags("Match Details"),
                                             columns), queries)
      BY DEF StringMatchesEntry
    <3> QED
      BY <3>1, CategoryDescribed, Zenon
  <2>4. ModulesEntry.tags["vgi.category"] = "Reference"
    BY CategoryAlone DEF ModulesEntry
  <2> QED
    BY <2>1, <2>2, <2>3, <2>4, Zenon
<1>3. /\ Members(MainSchema.tables) = {ModulesTable}
      /\ ModulesTable.tags["vgi.category"] = "Reference"
  BY OneMember, CategoryListed DEF MainSchema, ModulesTable
<1>4. Members(MainSchema.categories)
        = {"Scanning", "Match Details", "Rule Validation", "Reference"}
  <2>1. MainSchema.categories
          = <<"Scanning", "Match Details", "Rule Validation", "Reference">>
    BY DEF MainSchema
  <2> QED
    <3> DEFINE details == "Match Details"
    <3> DEFINE validation == "Rule Validation"
    <3>1. MainSchema.categories = <<"Scanning", details, validation, "Reference">>
      BY <2>1
    <3> HIDE DEF details, validation
    <3>2. Members(MainSchema.categories) = {"Scanning", details, validation, "Reference"}
      BY <3>1, FourMembers
    <3> QED
      BY <3>2, Zenon DEF details, validation
<1> QED
  BY <1>1, <1>2, <1>3, <1>4, ZenonT(60) DEF Served

\* All queries that are published, if these are the functions.
LEMMA PublishedKnown ==
  ASSUME NEW q \in Published, Members(Registered) = Served
  PROVE  Known(q)
<1>1. CASE q \in {ExecutableExamples[i].query : i \in DOMAIN ExecutableExamples}
  BY <1>1, CatalogQueries, Zenon
<1>2. CASE q \in Members(AgentTestTasks) \cup Members(MainSchema.queries)
  BY <1>2, CatalogQueries, Zenon
<1>3. CASE q \in UNION {TaggedQueries(t.tags) : t \in Members(MainSchema.tables)}
  BY <1>3, CatalogQueries, Zenon
<1>4. CASE q \in UNION {Members(Entry(f).examples) \cup TaggedQueries(Entry(f).tags) :
                           f \in Members(Registered)}
  BY <1>4, EntryQueries, Zenon
<1> QED
  BY <1>1, <1>2, <1>3, <1>4, Zenon DEF Published

\* The invariant says what the worker serves, and so what it lists is served.
LEMMA MainLists == MainInv => ListedIsServed
<1> SUFFICES ASSUME MainInv, Serving PROVE ListedIsServed
  BY DEF ListedIsServed
<1>1. Members(Registered) = Served /\ Len(Registered) = 7
  BY RegisteredAre
<1>2. \A q \in Published : q.fn \in Served
  BY <1>1, PublishedKnown DEF Known
<1> QED
  BY <1>1, <1>2, ServedCount, PlacedAre, Zenon DEF ListedIsServed

\* main.rs:317: whatever the environment, the worker that runs serves every
\* function of a query it publishes, each registered once, and declares the
\* categories that its functions and its table are in, and no others.
THEOREM CatalogServed == StartupSpec => []ListedIsServed
<1>1. MainInv /\ [Main]_startupVars => MainInv'
  BY MainInvNext
<1> QED
  BY MainInvInit, <1>1, MainLists, PTL DEF StartupSpec

-----------------------------------------------------------------------------
(* The keyword lists.                                                      *)

\* Every list that an object may be given is encoded, whatever main is at.
LEMMA ListsEncoded == KeywordsEncoded
<1> SUFFICES ASSUME NEW list \in Lists
             PROVE  K!Encodes(K!KeywordsJson(list), list)
  BY DEF KeywordsEncoded
<1>1. KP!Encodes(KP!KeywordsJson(list), list)
  <2>1. list \in KP!Piece
    BY ListsAssumption DEF KP!Piece, K!Char, KP!Char
  <2> QED
    BY <2>1, KP!JsonEncodes
<1>2. K!KeywordsJson(list) = KP!KeywordsJson(list)
  BY Zenon
     DEF K!KeywordsJson, K!PushKeyword, K!Trim, K!Blank, K!Quoted, K!Escape, K!Split,
         K!SplitAt, K!FlattenSeq, K!FoldLeft, K!MapThenFoldSet, K!Min, K!Max,
         KP!KeywordsJson, KP!PushKeyword, KP!Trim, KP!Blank, KP!Quoted, KP!Escape,
         KP!Split, KP!SplitAt, KP!FlattenSeq, KP!FoldLeft, KP!MapThenFoldSet, KP!Min,
         KP!Max
<1>3. \A text : K!ReadBack(text) = KP!ReadBack(text)
  BY Zenon
     DEF K!ReadBack, K!Read, K!Reader, K!FoldLeft, K!MapThenFoldSet, K!Max,
         KP!ReadBack, KP!Read, KP!Reader, KP!FoldLeft, KP!MapThenFoldSet, KP!Max
<1>4. /\ K!Pieces(list) = KP!Pieces(list)
      /\ \A p : K!Between(list, p) = KP!Between(list, p)
  BY Zenon DEF K!Pieces, K!Between, KP!Pieces, KP!Between
<1>5. \A k, t : K!IsTrimmed(k, t) <=> KP!IsTrimmed(k, t)
  BY Zenon DEF K!IsTrimmed, K!Blank, KP!IsTrimmed, KP!Blank
<1>6. {p \in K!Pieces(list) : ~K!Blank(K!Between(list, p))}
        = {p \in KP!Pieces(list) : ~KP!Blank(KP!Between(list, p))}
  <2>1. \A t : K!Blank(t) <=> KP!Blank(t)
    BY Zenon DEF K!Blank, KP!Blank
  <2> QED
    BY <1>4, <2>1, SMTT(30)
<1>7. K!Encodes(KP!KeywordsJson(list), list)
  BY <1>1, <1>3, <1>4, <1>5, <1>6, SMTT(30) DEF K!Encodes, KP!Encodes
<1> QED
  BY <1>2, <1>7, Zenon

\* meta.rs:15-18: what set_catalog publishes of the keywords of an object, however
\* long the list and whatever is in it, is a JSON array that reads back as them.
THEOREM KeywordsAlwaysEncoded == StartupSpec => []KeywordsEncoded
BY ListsEncoded, PTL

-----------------------------------------------------------------------------
(* The name of the catalog.                                                *)

\* From set_catalog on, the catalog is called what var() made of the variable,
\* which main does not set after its first statement.
CatalogNamed == pc \in {"run", "serving"} => catalog = CatalogName

\* Every statement of main keeps it.
LEMMA CatalogNamedNext ==
  ASSUME CatalogNamed, [Main]_startupVars
  PROVE  CatalogNamed'
<1>1. CASE SetCatalog
  BY <1>1 DEF SetCatalog, CatalogNamed, CatalogName
<1>2. CASE Run
  BY <1>2 DEF Run, CatalogNamed, CatalogName
<1>3. CASE DefaultName \/ RegisterScalars \/ RegisterTables
  BY <1>3 DEF DefaultName, RegisterScalars, RegisterTables, CatalogNamed
<1>4. CASE UNCHANGED startupVars
  BY <1>4 DEF startupVars, CatalogNamed, CatalogName
<1> QED
  BY <1>1, <1>2, <1>3, <1>4 DEF Main

\* A name that is Unicode is the name that is served.
LEMMA UnicodeIsHonored ==
  ASSUME CatalogNamed, variable \in Unicode
  PROVE  OverrideHonored
BY DEF CatalogNamed, CatalogName, OverrideHonored, Serving

\* main.rs:398-399: whatever the environment, an explicit override that is Unicode
\* is honored, and without one the name that main puts there is: that var() fails
\* on other names is all there is to that divergence.
THEOREM UnicodeOverrideHonored ==
  StartupSpec => [](variable \in Unicode => OverrideHonored)
<1>1. StartupInit => CatalogNamed
  BY DEF StartupInit, CatalogNamed
<1>2. CatalogNamed /\ [Main]_startupVars => CatalogNamed'
  BY CatalogNamedNext
<1>3. CatalogNamed => (variable \in Unicode => OverrideHonored)
  BY UnicodeIsHonored
<1> QED
  BY <1>1, <1>2, <1>3, PTL DEF StartupSpec

=============================================================================
