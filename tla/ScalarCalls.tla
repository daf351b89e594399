----------------------------- MODULE ScalarCalls -----------------------------
(***************************************************************************)
(* What a caller of a scalar function sends: the name of a function and a  *)
(* batch of rows.  Shared by the contract (ScalarContract) and by the      *)
(* implementation (Scalars).                                               *)
(***************************************************************************)
EXTENDS YaraX

CONSTANTS
  Batches,      \* the batches a caller may send
  CountLimit    \* 2^31: an Int32 cell holds -CountLimit .. CountLimit - 1

ScanScalars == {"yara_matches", "yara_first_rule", "yara_match_count"}
ScalarFns == ScanScalars \cup {"yara_check"}

\* A row of a (data, rules) batch.  yara_check receives the rules column only:
\* it leaves the data cell of its rows out of account.
Row == [data : Data \cup {Null}, rules : Source \cup {Null}]

\* A batch: the Arrow types of its two columns, as far as the cell readers tell
\* them apart, and its rows.  Columns of Arrow's type Null, whose cells arrow does
\* not report as NULL, are left out.
Batch == [dataType : {"binary", "utf8", "other"}, rulesType : {"utf8", "other"},
          rows : Seq(Row)]

ASSUME BatchAssumption == Batches \subseteq Batch

\* The count of matching rules fits an Int32: the engine numbers the rules of
\* a compiled set with an i32.
ASSUME CountAssumption ==
  /\ CountLimit \in Nat
  /\ \A s \in Compilable, d \in Data : Len(Engine[<<s, d>>]) < CountLimit

=============================================================================
