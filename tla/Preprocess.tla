----------------------------- MODULE Preprocess -----------------------------
(***************************************************************************)
(* ci/preprocess-require.awk, by which run-integration.sh stages the test  *)
(* files, and the runner's way through a staged file.  A file is a         *)
(* sequence of lines, of which those count that gate, install or load an   *)
(* extension or attach the worker; all others are queries.                 *)
(***************************************************************************)
EXTENDS Integers, Sequences

Seqs == INSTANCE SequencesExt

Extensions == {"vgi", "httpfs", "json", "parquet", "spatial"}

Require(e) == [kind |-> "require", ext |-> e]
Install(e) == [kind |-> "install", ext |-> e]
Load(e) == [kind |-> "load", ext |-> e]
Attach == [kind |-> "attach", ext |-> "vgi"]
Query == [kind |-> "query", ext |-> "vgi"]

Line == {Require(e) : e \in Extensions} \cup {Install(e) : e \in Extensions}
        \cup {Load(e) : e \in Extensions} \cup {Attach, Query}

-----------------------------------------------------------------------------
(* The preprocessor.                                                       *)

InstallAndLoad(e) == <<Install(e), Load(e)>>

\* What the http transport needs is put in after vgi is loaded.
Httpfs(transport) ==
  IF transport = "http" THEN InstallAndLoad("httpfs") ELSE <<>>

\* Mutant: only the gates are rewritten, not a test's own LOAD vgi.
RewriteGates(transport, line) ==
  CASE line = Require("vgi") -> InstallAndLoad("vgi") \o Httpfs(transport)
    [] line \in {Require(e) : e \in Extensions \ {"vgi"}} -> InstallAndLoad(line.ext)
    [] OTHER -> <<line>>

\* What the preprocessor prints for a line.
Rewrite(transport, line) ==
  CASE line = Require("vgi") -> InstallAndLoad("vgi") \o Httpfs(transport)
    [] line = Load("vgi") -> <<line>> \o Httpfs(transport)
    [] line \in {Require(e) : e \in Extensions \ {"vgi"}} -> InstallAndLoad(line.ext)
    [] OTHER -> <<line>>

\* The file as it is staged.
Staged(transport, file) ==
  Seqs!FlattenSeq([n \in DOMAIN file |-> Rewrite(transport, file[n])])

-----------------------------------------------------------------------------
(* The runner.                                                             *)

\* INSTALL vgi FROM community, everything else FROM core.
Channel(e) == IF e = "vgi" THEN "community" ELSE "core"

LoadedBefore(staged, n) ==
  {staged[k].ext : k \in {k \in 1..(n - 1) : staged[k].kind = "load"}}

\* The client for an http worker is built on httpfs.
AttachNeeds(transport) ==
  IF transport = "http" THEN {"vgi", "httpfs"} ELSE {"vgi"}

\* The lines that stop the runner, given the channels that extensions can be
\* had from and whether the worker answers.  The runner has no extension linked
\* in, so that no gate lets it pass.
Stops(transport, staged, channels, reachable) ==
  {n \in DOMAIN staged :
     \/ staged[n].kind = "require"
     \/ staged[n].kind \in {"install", "load"} /\ Channel(staged[n].ext) \notin channels
     \/ /\ staged[n].kind = "attach"
        /\ ~(reachable /\ AttachNeeds(transport) \subseteq LoadedBefore(staged, n))}

\* How a file can come out: a gate skips it; another line that stops the runner
\* is a failure, but for http one that the runner may ignore for saying HTTP.
OutcomesOf(transport, staged, channels, reachable) ==
  LET stops == Stops(transport, staged, channels, reachable)
      Gated(n) == staged[n].kind = "require" /\ \A k \in stops : n <= k
  IN  IF stops = {} THEN {"passed", "failed"}
      ELSE IF \E n \in stops : Gated(n) THEN {"skipped"}
      ELSE {"failed"} \cup (IF transport = "http" THEN {"skipped"} ELSE {})

=============================================================================
