----------------------------- MODULE MCScalars -----------------------------
(***************************************************************************)
(* Scalars on small batches: every batch of at most MaxRows rows, with    *)
(* columns of the expected types, and every pair of column types on        *)
(* batches of at most one row less.                                        *)
(***************************************************************************)
EXTENDS Scalars, MCYara

CONSTANT MaxRows

ASSUME MaxRowsAssumption == MaxRows \in Nat \ {0}

\* Rows that find a rule, find it only beyond the bound, fail the scanner,
\* carry one NULL operand or two, or carry rules that do not compile.
MCRow ==
  [data : {Hit, Late}, rules : {"A", "B"}]
  \cup [data : {Hostile}, rules : {"A"}]
  \cup [data : {Null}, rules : {"A", "broken", Null}]
  \cup [data : {Hit}, rules : {"broken", Null}]

MCBatches ==
  [dataType : {"binary"}, rulesType : {"utf8"}, rows : BoundedSeq(MCRow, MaxRows)]
  \cup
  [dataType : {"binary", "utf8", "other"}, rulesType : {"utf8", "other"},
   rows : BoundedSeq(MCRow, MaxRows - 1)]

\* The rule set A has three rules, so a count fits below 4 and not below 2.
MCCountLimit == 4

=============================================================================
