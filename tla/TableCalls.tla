----------------------------- MODULE TableCalls -----------------------------
(***************************************************************************)
(* What a caller of a table function sends: the name of a function and its *)
(* bind-time constant arguments.  Shared by the contract (TableContract)   *)
(* and by the implementation (Tables).                                     *)
(***************************************************************************)
EXTENDS YaraX

CONSTANTS
  Requests,     \* the calls a caller may make
  OffsetLimit   \* 2^63: an Int64 cell holds -OffsetLimit .. OffsetLimit - 1

ScanTables == {"yara_scan", "yara_string_matches"}
TableFns == ScanTables \cup {"yara_modules"}

\* The constant data is a BLOB, a VARCHAR or of another type; yara_modules
\* takes no argument and leaves both out of account.
Request == [fn : TableFns, dataType : {"blob", "varchar", "other"},
            data : Data \cup {Null}, rules : Source \cup {Null}]

ASSUME RequestAssumption == Requests \subseteq Request

\* Every offset into the data that is scanned fits an Int64.
ASSUME OffsetAssumption == OffsetLimit \in Nat /\ MaxDataLen < OffsetLimit

\* The yara-x modules enabled as features in Cargo.toml.
Features == {"hash", "pe", "elf", "math", "string", "time", "console"}

=============================================================================
