--------------------------- MODULE MCIntegration ---------------------------
(***************************************************************************)
(* Integration with a test file as those of the repository, which load vgi *)
(* themselves, and one with the gates that the preprocessor knows.         *)
(***************************************************************************)
EXTENDS Integration

MCTests == {"scalars", "gated"}

MCSuite ==
  [t \in MCTests |->
     IF t = "gated" THEN <<Require("json"), Require("vgi"), Attach, Query>>
     ELSE <<Query, Load("vgi"), Attach, Query>>]

=============================================================================
