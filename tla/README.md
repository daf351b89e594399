# vgi-yara in TLA+

TLA+ models of the `vgi-yara` worker, of the container it is shipped in and of
the script that tests it, the TLC configurations that check them on small
instances, and proofs, checked by TLAPS, of theorems that hold for every
instance.

`vgi-yara` compiles YARA rules and scans blobs with them on behalf of DuckDB:
the `vgi` extension sends a worker process Arrow batches over stdio, HTTP, TCP
or a unix socket. The worker keeps no state between calls. What is hard about
it is therefore not shared memory but the life of a call: a loop over rows that
caches, shields, fails and answers per row; a stream that must give each row
once and end; untrusted data cut at a bound; seven functions, separate code,
that have to say the same and what the catalog publishes of them; and, around
the worker, a test script that races with the server it starts and a health
probe that asks a server at times of its own.

## The system

Paths are relative to `src/`; `W/` is `crates/yara-worker/src/`.

| part | state | operations | interacts with | correct when |
|---|---|---|---|---|
| scanning core, `W/scanning.rs` | none | `compile_rules`, `rules_compile`, `bounded`, `scan_rules`, `scan_strings`, `render_matched` | calls YARA-X; called by every SQL function | scanning never fails; matches are those of the first 64 MiB; a hit's bytes are the data's at its offset |
| Arrow cells and types, `W/arrow_io.rs` | none | `blob_bytes`, `text_str`, `list_varchar_type`, `list_varchar_builder` | called by the functions | NULL comes before the type; another type is an error; a column built is of the type announced |
| scan scalars, `W/scalar/matches.rs` | per call: position, builder (`Out`), one-entry `RuleCache` | `on_bind`, `process` | cell readers, core | every row is answered by its own operands, or the batch fails with its first fault; rules are compiled when they change |
| `yara_check`, `W/scalar/check.rs` | per call: position, builder | `on_bind`, `process` | cell readers, core | true or false per row, NULL for NULL |
| scan tables, `W/table/scan.rs`, `string_matches.rs` | per call: producer (`rows`, `done`) | `on_bind`, `producer`, `next_batch` | core | each row once, in order, then the end; an error before the first row or never |
| module list, `W/table/modules.rs` | per call: producer (`done`) | the same | | the modules of `Cargo.toml`, each once |
| registration and catalog, `W/main.rs`, `mod.rs`, `meta.rs`, `metadata` and `argument_specs` of each function | environment, functions registered, catalog | `main`, `register`, `set_catalog`, `keywords_json` | vgi library | every function once, in a declared category; what is published is what is answered |
| test script, `ci/run-integration.sh` | script position, server process, log and socket file, report | staging, start and poll, warm-up, suite, judgement, `cleanup` | worker server, test runner | green only if the suite ran and failed nowhere, and if every test passed; the readiness gate holds; nothing is left behind; it ends |
| test preprocessing, `ci/preprocess-require.awk` | none | line rewriting | test script | a staged test asks for what its transport needs |
| container, `docker-entrypoint.sh`, `Dockerfile` | mode, worker, health | dispatch, health probe | worker, Docker | an HTTP container becomes healthy when it serves and only then |
| version check, `ci/check-version.sh` | none | one comparison | release workflow | |

The hard behaviours are listed at their lines under `hazards` in
`PROJECT.json`, each with the properties that would catch it going wrong.

## The modules

```
YaraX                     the YARA-X engine (external): constants and assumptions
  Scanning                scanning.rs as operators
  ScalarCalls             what a scalar function is sent
    ScalarContract        what a scalar call promises
    Scalars               the scalar functions     (EXTENDS Scanning, ScalarCalls, Announced)
      ScalarsProofs       theorems about Scalars
      MCScalars           instance for TLC         (with MCYara)
  TableCalls              what a table function is sent
    TableContract         what a table call promises
    Tables                the table functions      (EXTENDS Scanning, TableCalls, Announced)
      TablesProofs        theorems about Tables    (with Flattening)
      MCTables            instance for TLC         (with MCYara)
MCYara                    a small concrete engine
Announced                 types and columns the functions announce
  Catalog                 metadata of the functions, the catalog
    Startup               main()                   (INSTANCE Keywords)
      StartupProofs       theorems about Startup   (INSTANCE KeywordsProofs)
      Worker              main, then calls of both kinds
                                                   (INSTANCE Scalars, INSTANCE Tables)
        WorkerProofs      theorems about Worker    (EXTENDS StartupProofs, INSTANCE
                                                    ScalarsProofs, INSTANCE TablesProofs)
        MCWorker          instance for TLC
Keywords                  keywords_json
  KeywordsProofs          the theorem about keywords_json (with Flattening)
Preprocess                preprocess-require.awk and the runner
  Integration             the test script and its server
    IntegrationProofs     theorems about Integration      (INSTANCE Flattening)
    MCIntegration         instance for TLC
Container                 entrypoint, worker and health check
  ContainerProofs         a theorem about Container
  MCContainer             instance for TLC
Flattening                lemmas about concatenations and folds, used by the proofs
```

**YaraX.** The engine's algorithm is not modelled: `Compilable` says which
sources compile, `Engine[<<s, d>>]` what the scanner reports for the rules of
`s` on the bytes `d`, and `Fallible` on which bytes the scanner may return an
error instead. The proofs about the scalars assume no more of it than
`EngineAssumption`; `RangeAssumption` (a match lies within the bytes scanned) is
for the table functions. A scan is a function of rules and bytes: rules that
import `time` are outside the model. Bytes are classes, as many as the rendering
of matched bytes tells apart.

**Scanning** keeps the names of `scanning.rs` in TLA+ capitals. A scan may
fail, so `ScanRules` and `ScanStrings` are the sets of what a call may return.
A rendered match is a record of its form (text or hex) and the bytes rendered.

**Scalars.** One action per iteration of `process_kind` or of `yara_check`'s
`process`, by the way the iteration goes: `RejectData`, `RejectRules` (a cell of
the wrong type), `NullRow`, `ScanCached`, `ScanCompiled`, `CompileFails`,
`CheckNull`, `CheckRow`; `Call` and `Finish` are the head and the tail of the
function, `Take` is the caller's. `row`, `out` and `cache` are the locals
`i`, `out` and `cache`; `compiles` counts calls of `compile_rules` and exists
for the properties only. `rulesType = "other"` is a column DuckDB would have
cast to VARCHAR before the call; `text_str` guards against it, since the worker
is a server that any VGI client can call.

**ScalarContract** has one step between question and answer. Its definitions
(`AtFault`, `IsCell`, `IsAnswer`) are written from the engine's report, with
none of the helpers of `Scanning` or `Scalars`, so that a mistake in a helper
shows as a difference.

**Tables.** `Bind`, then one of `OpenNoRules`, `OpenInvalid`, `OpenNoData`,
`OpenScan`, `OpenModules` (the paths through `producer`), then `NextBatch` once
and `EndOfStream`; `Leave` is the caller dropping the producer at any time, as
under a LIMIT. `schema` is what `on_bind` announced, and `NextBatch` fails, as
`RecordBatch::try_new` does, unless the columns it builds are of those types.
Producers share nothing, so one call at a time is modelled. `ConstBytes` and
`ConstStr` are the vgi library's: they find no constant in data that is neither
BLOB nor VARCHAR.

**TableContract** streams a result in order, in as many pieces as it likes.
The hits of `yara_string_matches` are put in order by rank, not by
concatenation as in the code.

**Catalog** holds what the worker publishes that has to agree with something
else: names, argument positions, result types and columns, categories, and the
queries with the results they pin. The tags of a function are put together as in
the code: those that all functions have (`ObjectTags`), then what `metadata`
pushes after them (`Pushed`). A query is a function, data, rules and the
columns it projects; its SQL text is not modelled. The same query occurs in up
to five lists of the code, each of which is a definition here. What the engine has to report of the examples'
texts for their pinned results to be right is `ExampleAssumption`.

**Startup** is `main`, a statement at a time: `DefaultName`, `RegisterScalars`,
`RegisterTables`, `SetCatalog`, `Run`. That `set_catalog` registers the function
behind a catalog table is the library's doing, as the comment in
`W/table/mod.rs` has it. The environment is not the worker's: the catalog name may
have been set to anything, Unicode or not.

**Keywords** is a pure function with a reader to check it against: the text that
`keywords_json` builds is read back as JSON and compared with the pieces that lie
between one comma of the list and the next. It is checked in the state in which
the catalog is set.

**Worker** composes `Startup`, `Scalars` and `Tables`. A client picks a topic
(data, its SQL type, rules) and a set of functions, and asks each of them about
it, a scalar call and a table call at a time, their steps interleaved. It passes
arguments where `argument_specs` puts them and the functions read them where
they do. `ClientAssumption` says that it asks functions there are about topics
that can be put as calls. DuckDB is part of the client: it sends a scalar a batch (of two equal
rows, so that the second one meets the cache) and a table function constants.
It may leave a table call in the middle (`LeaveTable`), as DuckDB does under a
LIMIT, and ask again later. The scalars and the table functions do not treat all
topics alike. NULL data shields rules that do not compile from a scalar, not from a
table function; and INTEGER data fails a scalar, where a table function finds no
data and has no rows. The agreement properties say so: `FailAlike` has both kinds
fail together on BLOB and VARCHAR data that is not NULL, and says of each kind by
itself what it does elsewhere.

**Preprocess** is the awk script as a function from lines to lines, and the
runner's way through the result: `Stops` are the lines it cannot get past. Which
text of a line counts as a gate, the business of the script's regular
expressions, is abstracted to the kind of the line.

**Integration.** The script's position is `pc`; each external command whose
result it branches on is a step. The two parts of a poll, `kill -0` (`PollAlive`,
`PollDead`) and the look at the log (`PollFound`, `PollNoLog`, `PollAgain`), are
two steps, since the server moves in between. The server is forked, opens its
log, listens and announces itself, in this order for HTTP, the last two in
either order for unix; it may crash or fall silent at any point. `channels` are
the channels that extensions can be had from once the cache has been warmed:
how a test file comes out (`Outcomes`) depends on its staged lines, on them, and
on the server at that moment. The runner is not in the repository, and the script
learns of skipped tests by the words of its summary. `Summaries` assumes as much of
them as the script's own comment does: that a run in which all tests were skipped says
so. How a run in which some were skipped is summed up nothing tells, so that both a
summary the script knows and one it does not are possible; a runner that died prints
none. That a server binds its socket and listens in one step, and that an HTTP server
announces its port after that, are assumptions about the vgi library.
`SelectionAssumption` says that `TEST_PATTERN` selects a file at least.
`SuiteAssumption` says of the test files what holds
of those in `test/sql`: each loads `vgi` before it attaches the worker. One that did
not would be skipped over HTTP without cause, as `httpfs` is put in only after
`vgi`. The EXIT trap is `Kill`, the wait, and `Remove`.
Signals sent to the script are not modelled.

**Container** is the entrypoint up to its `exec`, the worker as the container
shows it (it listens late, stalls, stops), and Docker, which probes and counts.
The start period, interval and timeout have no durations: a probe may come at
any time, and one that the worker does not answer in time fails.

## What the runs check

| run | question | states |
|---|---|---|
| `scalars` | Do the scalar functions keep their contract, with a sound cache that compiles only on a change of rules, and answer every call? | 28,500 |
| `scalars_recompile` | Are rules compiled once per batch? No (finding). | |
| `tables` | Do the table functions keep their contract, are hits where they say, do streams end? | 4,400 |
| `tables_null` | Does NULL input give no rows? Not with invalid rules (finding). | |
| `tables_truncation` | Does truncation lose nothing? It does (finding). | |
| `worker` | Do any two functions agree with each other and with what the catalog publishes, whatever calls interleave? | 43,700 |
| `integration` | Did a green job run, does the script give up for cause only, does the gate hold, is all cleaned up, is nothing skipped without cause, does the run end, wherever the server crashes? | 9,500 |
| `integration_partial_skip` | Is a skip never a pass? It may be, if other tests passed (finding). | |
| `integration_no_log` | Is every startup failure explained? No (finding). | |
| `integration_stale_log` | Does the gate hold in a stage directory used before? No (finding). | |
| `container` | Does the health status tell whether the container serves, in every mode and with every port? | 490 |
| `container_default` | Does a container without arguments serve HTTP? Not under the image's shell (finding). | |

The properties, by module:

* `Scalars`: `CacheSound` (the key and the rules of the cache agree);
  `CompilesOnlyOnChange` (the number of compilations is the number of changes of
  rules between live rows: NULL rows neither compile nor evict);
  `RowsAnswered` (the loop invariant, against the contract);
  `ImplementsContract`; `EveryCallAnswered`.
* `Tables`: `MatchedIsData` (the bytes of each hit are those at its offset in
  the caller's data); `ImplementsContract`; `StreamsEnd`.
* `Startup`: `ListedIsServed` (every published query calls a registered
  function, none registered twice, each in a declared category);
  `KeywordsEncoded`.
* `Worker`: `FunctionsAgree` (`yara_match_count` counts the rows of `yara_scan`,
  `yara_matches` tells whether there are any, `yara_first_rule` is the first,
  every hit belongs to one; they fail together where both kinds can read the data,
  and by kind elsewhere; NULL gives NULL or no rows);
  `CheckTells` (`yara_check` tells which calls fail, those of the table functions
  whatever the data); `ExamplesHold` (every
  published query is answered, and as the example says); `DeliveredAsPublished`
  (types, result columns, cardinality and key); `CallsEnd`.
* `Integration`: `GreenMeansRan` (a green job is one whose runner came to its end, in
  which no test failed and one at least passed, and none was skipped but over HTTP);
  `GivesUpForCause` (a server that is slow is given all its polls); `GateHolds`,
  `NothingLeft`,
  `SkippedForCause` (a test is skipped for want of a worker or an extension,
  never because its staged file does not ask for what the transport needs),
  `RunEnds`.
* `Container`: `HealthyMeansServes`, `BecomesHealthy` (an HTTP container that
  answers from some time on ends up healthy), `SilenceShows` (one that does not,
  or speaks no HTTP, ends up unhealthy).

Each has a mutant: a definition changed as a plausible bug would change it,
which breaks the property. Mutants stand before the definitions they change.

### Bounds

* `MCYara` has two sources that compile and one that does not; rules with the
  conditions any, none and true; and a bound of two bytes where the code has
  64 MiB, so that data at the bound, one byte beyond, and characters across it
  all occur.
* `scalars`: batches of up to three rows of ten kinds, and of up to two rows for
  columns of all six pairs of types. Three rows are what the cache needs: fill,
  change or skip, and come back; a fault can come first, last, or after a
  success. `CountLimit` is 4 in place of 2^31, which the largest count, 3, just
  fits. Longer batches are covered by the proofs.
* `tables`: every string of up to three of the six byte classes, which has
  several hits of a pattern, patterns whose order is not that of the offsets,
  and several rules with hits. `OffsetLimit` is 3 in place of 2^63: the largest
  offset just fits. Longer data is covered by the proofs.
* `worker`: the texts and rules of the published examples, a text one byte
  longer than the bound of 26, data on which the scanner may fail, a rule set
  with a rule without patterns and a pattern with two hits, rules that do not
  compile, and NULL; BLOB and INTEGER data with one of the texts and NULL, and a catalog
  name that is unset, set, and set to what is not Unicode. A text of printable bytes is
  as good as its length. The
  questions are all pairs of functions, as every agreement property relates two.
  Keyword lists have up to five characters of five classes: a keyword, a
  separator and an escape on either side of each other. Control characters,
  which `keywords_json` does not escape and no list of the worker has, are left
  out.
* `integration`: a test file that loads `vgi` itself, as those of the repository
  do, and one with the gates that the preprocessor knows, and three polls in
  place of 60: a first, a middle and a last one. In the three violation runs, two
  polls.
* `container`: the three modes, a command of the caller's, and no arguments;
  `PORT` unset, 8000, and 8001, the port of the tcp mode; three retries, as in
  the `Dockerfile`.

### Fairness

`Scalars` assumes weak fairness of `Process`, the steps of one function without
a blocking call, and nothing of the caller. It includes that a scan returns:
the worker sets no timeout on the scanner, so that this rests on YARA-X. `Tables`
assumes weak fairness of the worker's replies, which are made when the caller
pulls: `StreamsEnd` speaks of a caller that goes on pulling or leaves.
`Worker` assumes both, that `main`, which is straight-line code, goes on, and
that the client takes the answers it asked for; it need not ask.
`Integration` assumes that the script goes on (sleep, the runner, and the tests
in it end) and that a SIGTERM ends the server; the server need do nothing.
`integration` does not check for deadlock, as the script really ends; `RunEnds`
says that it does not stop earlier. `Container` assumes that the shell and a
server that starts get on, and that Docker probes and ends the start period; the
worker need neither stall, recover nor stop. A container does end, so that its
runs do not check for deadlock either.

## What is proved

All theorems hold for every value of the constants that meets the named
assumptions of the modules. Each rests on an inductive invariant, proved as
`Init => Inv`, `Inv /\ [Next]_vars => Inv'` with one step per action, and closed
by a temporal step.

**The scalar functions** (`ScalarsProofs`), for every engine, set of sources and
data, bound, batch and width of the count:

* `TypeCorrect`: `Spec => []TypeOK`;
* `CacheIsSound`: `Spec => []CacheSound`;
* `LoopInvariant`: `Spec => []RowsAnswered`;
* `Implementation`: `Spec => ImplementsContract`;
* `CompilesOnChange`: `Spec => []CompilesOnlyOnChange`;
* `GroupedCompiledOnce`: `CompiledOncePerSource`, which the code does not keep in
  general, while the batch under way is `Grouped`;
* `LoopAlwaysAdvances`: `Spec => LoopAdvances`, an action property: each iteration
  uses up one of the n + 1 steps that a batch of n rows may take.

The inductive invariant is `IInv == TypeOK /\ CacheSound /\ RowsAnswered`. None
of its parts is inductive alone: a cell from the cache is right because the
cache is coherent; the cache is coherent because only a source that compiled
enters it, which needs the types; the column in the answer is well typed and
right because the cells are. `AppendKeeps` and `ReturnKeeps` say once what
appending a cell and returning preserve; each action then has to show that its
cell is the contract's (`ScannedCell`, from `ScanOutcome`, `BoundedIsView`,
`ProjectIsVerdict` and `AsI32Small`), or its fault a fault. For the refinement,
every iteration stutters, and a return is the contract's answer because the
loop invariant holds for the rows before. The count's fit in an Int32 is an
assumption (`CountAssumption`): the engine itself numbers rules with 32 bits.

`CompilesOnlyOnChange` counts changes between neighbouring live rows, the code
compares with its cache; what connects them is that the key of the cache is the
source of the last live row (`CacheKeyed`), which with the count itself makes the
inductive invariant. In a grouped batch, one in which no live row with other rules
comes between two live rows of a source, two changes are never to the same rules:
the last live row before the second would have had to be of that source already
(`ChangesDiffer`). The rest of `GroupedCompiledOnce` is the pigeonhole principle.

**The table functions** (`TablesProofs`), for every engine that meets
`RangeAssumption`, and every request, width of the offset and length of data:

* `TypeCorrect`: `Spec => []TypeOK`;
* `HitsAreData`: `Spec => []MatchedIsData`;
* `Implementation`: `Spec => ImplementsContract`;
* `ShortDataIsSafe`: `TruncationIsSafe` for data within the bound;
* `NullFailsForItsRules`: `NullYieldsNoRows`, but for calls with NULL data and rules
  that do not compile;
* `StreamAlwaysAdvances`: `Spec => StreamAdvances`: a call takes three steps of the
  worker at most, for a result without rows as well.

The inductive invariant adds to `TypeOK` that the producer holds a sound result:
rows of the right type, whose hits are the data's bytes, and that are the
contract's, and that what was received is nothing before the batch and all of it
after. The state machine is the smaller part. The larger one is that the three
nested concatenations of `scan_strings` (matches of a pattern, patterns of a
rule, rules of a report) give what the contract says by rank: each hit is there
once, at a place that counts the hits before it. `Flattening` proves this once
(`RankedFlatten`): if each of some sequences lists its hits by rank, and the
sets of hits are disjoint and in order, so does their concatenation. The lemma
is used three times, from the inside out. The library's `FlattenSeq` is a fold;
as the induction theorems of the library take an operator as a parameter, which
the provers cannot instantiate, the induction is carried out on a set of
counterexamples, which a well-founded order gives a least member of.

**Keyword lists** (`KeywordsProofs`): `JsonEncodes`, for every list of any length,
`Encodes(KeywordsJson(list), list)`. There are three folds to follow: `split` over
the characters, the loop of `keywords_json` over the pieces, and the reader over the
text. Each is given its loop invariant. `CutUp` says where the pieces seen so far
lie, the last one still open; `PushedSoFar` that what has been built reads back as
the trimmed pieces that are not blank, in order; and `ReadQuoted` that a quoted
string reads back as itself wherever one may stand, which goes by the characters of
the string. That `FoldLeft`, which the library defines by a recursion over sets of
places, is such a fold at all is what `FoldExists` is for.

**main and the catalog** (`StartupProofs`), whatever the environment:

* `CatalogServed`: `StartupSpec => []ListedIsServed`;
* `KeywordsAlwaysEncoded`: `StartupSpec => []KeywordsEncoded`;
* `UnicodeOverrideHonored`: `OverrideHonored` wherever the variable is Unicode.

The inductive invariant, `MainInv`, is what has been registered before each
statement of `main`. The rest is about the catalog: which queries the lists hold
(`CatalogQueries`, `EntryQueries`), and where the functions are put (`PlacedAre`).

**The composed worker** (`WorkerProofs`), for every engine, all topics, and all sets
of functions a client may ask, with calls interleaved in any way:

* `WorkerKeepsContracts`: `Spec => SP!ImplementsContract /\ TP!ImplementsContract`,
  the contracts of both kinds of call, in what each caller sees;
* `FunctionsAlwaysAgree`: `Spec => []FunctionsAgree`, for topics of every kind: NULL
  data with rules that do not compile, and data of other types, included;
* `CheckAlwaysTells`: `Spec => []CheckTells`;
* `AnswersAsPublished`: `Spec => []DeliveredAsPublished`;
* `ExamplesAlwaysHold`: `Spec => []ExamplesHold`;
* `WorkerListsWhatItServes`, `WorkerEncodesKeywords`, `WorkerHonorsUnicode`:
  `ListedIsServed`, `KeywordsEncoded` and, for names that are Unicode,
  `OverrideHonored` hold of it as of `main` alone.

The inductive invariant, `WInv`, takes over those of `ScalarsProofs` and
`TablesProofs`: a step of the worker is a step of one of them or none, so that
their lemmas are cited rather than proved again. What it adds connects the two:
the call under way is the one that the client's topic makes, and an answer that the
client holds is right by the contract of its function for that topic. That is all the
agreement theorems use. They hold of any two answers that are right, whatever
happened between the calls: that functions agree is a consequence of their
contracts, not of how they are written. The examples are right by the same
contracts, given what the engine reports of their texts; TLC has checked `WInv` and
`MainInv` on the instance of the run `worker`.

**The test script** (`IntegrationProofs`), for any set of tests, any lines in
them and any number of polls:

* `TypeCorrect`: `Spec => []TypeOK`;
* `Green`: `Spec => []GreenMeansRan`, however the runner words its summary;
* `SkipsAreHttp`: `SkipIsNoPass` over subprocess and unix;
* `GivesUp`: `Spec => []GivesUpForCause`;
* `Gate`: in a fresh stage directory, `Spec => []GateHolds`;
* `Clean`: `Spec => []NothingLeft`;
* `Skips`: `Spec => SkippedForCause`, an action property;
* `Explained`: `FailuresExplained`, but for the HTTP leg in a fresh stage directory,
  where the script may end with status 2;
* `ScriptAlwaysAdvances`: for a finite suite, `Spec => ScriptAdvances`, an action
  property: each step of the script uses up one of the steps it has left, and no
  step of the server's gives it one back.

`GreenMeansRan` speaks of the last state: what makes it inductive is what the
script knows at each position, that the runner's status and the verdicts agree
when the suite ends and that the status of the script is settled with a reason
when the trap is entered (`Located`, `RunnerTells`, `StatusTells`). That a test
passed in a green job rests on the summary of a run in which all were skipped, which
the script does know. That over subprocess and unix none was skipped, as the script's
comment says, is `NoSkipPath`: no line of a staged file is one that such a runner
skips a test for, whether or not the worker answers. `GateHolds`
needs the order in which a server opens its log, listens and announces itself
(`ServerOrder`), and that no log is stale. `NothingLeft` is inductive given the
types, as the last step of the script waits for the server. `Skips` is about the
staged lines: along the prefixes of a test file, no gate is left, and once `vgi` has
been loaded so has all that the transport needs (`RewrittenLine`, `StagedFile`).
Together with `SuiteAssumption` no line can stop the runner while the worker
answers and both channels are there. `StepsLeft` counts two steps for each poll that
is left, one for each test, and eight; that a step of the script takes one off needs
the counting of the polls (`PollsLeft`) and of the tests that have no verdict.

**The container** (`ContainerProofs`), for any ports, arguments, shell and number of
retries:

* `HealthIsEarned`: `Spec => []HealthyMeansServes`;
* `HealthIsLostSlowly`: `Spec => UnhealthyIsEarned`, an action property: a container
  is declared unhealthy only by a probe that found nobody to serve it, the last of
  `Retries` in a row after the start period;
* `DefaultServes`: `DefaultIsHttp`, with a shell that survives a shift of nothing.

What makes the first inductive is that a worker that listens does so where the
entrypoint sent it, in the protocol of its mode, and goes on to while it runs.

**How far the findings go.** A run that finds a property violated shows one way to
it. Theorems say that there is no other: each of the properties below holds once the
cause that the finding names is taken away, for every value of the constants.
`OverrideHonored` alone has a theorem and no run.

| property | holds | theorem |
|---|---|---|
| `CompiledOncePerSource` | in batches whose sources do not come back after others | `GroupedCompiledOnce` |
| `NullYieldsNoRows` | but for NULL data with rules that do not compile | `NullFailsForItsRules` |
| `TruncationIsSafe` | of data that is not truncated | `ShortDataIsSafe` |
| `OverrideHonored` | of names that are Unicode | `UnicodeOverrideHonored` |
| `SkipIsNoPass` | over subprocess and unix | `SkipsAreHttp` |
| `FailuresExplained` | but for status 2 of the HTTP leg, in a fresh directory | `Explained` |
| `GateHolds` | in a fresh directory | `Gate` |
| `DefaultIsHttp` | with a shell that survives the shift | `DefaultServes` |

**Towards liveness.** The three theorems about steps that are left, of the loop over
the rows, of a stream, and of the test script, are the half of `EveryCallAnswered`,
`StreamsEnd` and `RunEnds` that is not about fairness: there is no loop to stay in.
The other half, that a step is always there to take and is taken, is about `ENABLED`
and weak fairness, and is TLC's.

Every safety invariant and action property that a passing run checks is stated by one
of these theorems.

Left to TLC: the liveness properties themselves (`EveryCallAnswered`, `StreamsEnd`,
`CallsEnd`, `RunEnds`, `BecomesHealthy`, `SilenceShows`), which speak of fairness and
are out of the prover's reach.

## Findings

* The rule cache has one entry, so alternating sources are compiled again;
  `main.rs:171` says once per batch.
* `yara_scan(NULL, <invalid rules>)` fails; `README.md:87` says no rows, and the
  scalars return NULL.
* A match beyond 64 MiB is missed; `scanning.rs:40` calls truncation safe.
* `run-integration.sh:80`: if the first HTTP poll comes before the log exists,
  the script ends with status 2 and says nothing, instead of polling again.
* `run-integration.sh:80`: in a reused `STAGE`, the first HTTP poll may take the
  port of the earlier run.
* `run-integration.sh:176`: the script finds skipped tests by two wordings of the
  runner's summary, and nothing tells that the runner uses either where it skipped
  some tests and passed others; where it does not, the job is green, though "a skip is
  NOT a pass" (lines 178-179). That a job in which nothing ran is not green, which is
  what the comment at 164-168 promises, holds (`GreenMeansRan`).
* `docker-entrypoint.sh:19`: without arguments there is nothing to shift, which
  ends the image's shell before the default HTTP server is started.

The container run also shows, as `SilenceShows` states, that a tcp container is
marked unhealthy while it serves: the probe asks for HTTP. The `Dockerfile` says
that the probe is for the HTTP mode, so that this contradicts nothing. The
published examples name the catalog `yara`, whatever the override: a catalog of
another name publishes queries that do not resolve in it. And a name in the environment
that is not Unicode gives way to the default (`main.rs:404`), while the comment at
`main.rs:398-399` has an explicit override honored: no run is about it, but the theorem
`UnicodeOverrideHonored` shows that there is no other such case.

## Not modelled

* The engine; the vgi library (transports, dispatch, projection, Arrow memory
  layout): they are not in the repository and are modelled by what the code
  relies on.
* The wording of names, titles, documentation and descriptions, and the SQL text
  of the examples.
* The version check, `ci/check-version.sh`: one comparison of two strings.
* The build stages of the image, the workflows, and the loop in which the
  publishing workflow waits for a container
  (`.github/workflows/docker-publish.yml`).
* The regular expressions of the preprocessor, and signals sent to the test
  script.
* A `TEST_PATTERN` that selects no file: what the runner does then is not in the
  repository. And the rest of the report that the script greps: a test whose output
  holds one of the two phrases would fail the job, whatever its outcome.
* Columns of Arrow's type Null. Their cells do not count as NULL in Arrow (they have
  no validity bitmap), so that `blob_bytes` and `text_str` reject them for their type.
  In the model NULL cells lie in columns of the types that `Batches` names.
* How long a scan takes. No timeout is set on the scanner; what a slow one does
  to its batch is that the batch is slow.

## Plan

1. Rendering as a question of its own: which bytes `render_matched` lets through
   as text, and that text and hex are not told apart.
2. Several table calls at a time in `Worker`. The producers share nothing, so that
   this asks more of the composition than of the code.
3. A step count for the calls of `Worker`, as there is for those of `Scalars` and
   `Tables`.
