------------------------------ MODULE MCTables ------------------------------
(***************************************************************************)
(* Tables on every string of at most one byte more than the bound, with    *)
(* each of the sources of MCYara, and on constants of every type.          *)
(***************************************************************************)
EXTENDS Tables, MCYara

MCBytes == BoundedSeq(Byte, MCMaxDataLen + 1)
MCBytesEngine == EngineOn(MCBytes)

MCRequests ==
  [fn : ScanTables, dataType : {"blob"}, data : MCBytes, rules : MCCompilable]
  \cup
  [fn : ScanTables, dataType : {"blob", "varchar", "other"},
   data : {Hit, Null}, rules : MCSource \cup {Null}]
  \cup
  [fn : {"yara_modules"}, dataType : {"other"}, data : {Null}, rules : {Null}]

\* One more than the bytes that are scanned: offsets fit, and just fit.
MCOffsetLimit == MCMaxDataLen + 1

=============================================================================
