----------------------------- MODULE Announced -----------------------------
(***************************************************************************)
(* What the SQL functions announce when they are bound: the Arrow type of  *)
(* a scalar's result and the columns of a table's rows.  A type is a       *)
(* sequence, so that any two can be compared.                              *)
(***************************************************************************)
EXTENDS Integers, Sequences

Boolean == <<"Boolean">>
Int32 == <<"Int32">>
Int64 == <<"Int64">>
Utf8 == <<"Utf8">>

\* A list type says what its items are called and whether they may be NULL: two
\* list types are the same only if they agree in that.
List(item, of, nullable) == <<"List", item, nullable>> \o of

\* list_varchar_type, and the type of what list_varchar_builder builds.
ListVarcharType == List("item", Utf8, TRUE)
ListVarcharBuilder == List("item", Utf8, TRUE)

\* return_type of the scan scalars, and on_bind of yara_check.
ReturnType(f) ==
  CASE f = "yara_matches" -> Boolean
    [] f = "yara_first_rule" -> Utf8
    [] f = "yara_match_count" -> Int32
    [] f = "yara_check" -> Boolean

Field(name, type, nullable) ==
  [name |-> name, type |-> type, nullable |-> nullable]

\* output_schema of each of the three table functions.
ScanSchema == << Field("rule", Utf8, FALSE), Field("namespace", Utf8, FALSE),
                 Field("tags", ListVarcharType, FALSE) >>

StringMatchesSchema ==
  << Field("rule", Utf8, FALSE), Field("identifier", Utf8, FALSE),
     Field("offset", Int64, FALSE), Field("matched", Utf8, TRUE) >>

ModulesSchema ==
  << Field("module", Utf8, FALSE), Field("description", Utf8, FALSE) >>

\* Mutant: a column that is built is not announced.
OutputSchemaShort(f) ==
  CASE f = "yara_scan" -> ScanSchema
    [] f = "yara_string_matches" -> SubSeq(StringMatchesSchema, 1, 3)
    [] f = "yara_modules" -> ModulesSchema

\* What on_bind announces.
OutputSchema(f) ==
  CASE f = "yara_scan" -> ScanSchema
    [] f = "yara_string_matches" -> StringMatchesSchema
    [] f = "yara_modules" -> ModulesSchema

\* MODULES, in lockstep with the features of Cargo.toml, sorted by name.
MODULES == <<"console", "elf", "hash", "math", "pe", "string", "time">>

\* module_count, the cardinality that the catalog gives for yara_modules.
ModuleCount == Len(MODULES)

=============================================================================
