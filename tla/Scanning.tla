------------------------------ MODULE Scanning ------------------------------
(***************************************************************************)
(* crates/yara-worker/src/scanning.rs: the functions every SQL function of *)
(* the worker is built on.  They keep no state.  A compiled yara_x::Rules  *)
(* is identified with the source it was compiled from, and the compiler's  *)
(* diagnostic with Error.  Scanning is nondeterministic where the scanner  *)
(* may return an error, so ScanRules and ScanStrings are the sets of what  *)
(* a call may return.                                                      *)
(***************************************************************************)
EXTENDS YaraX, SequencesExt

RuleMatch == [rule : RuleName, namespace : Namespace, tags : Seq(Tag)]

\* compile_rules: the compiled rules, or the error of the rejected source.
CompileRules(source) == IF source \in Compilable THEN source ELSE Error

\* Mutant: whatever can be handed to the compiler is fine.
RulesCompileAny(source) == source \in Source

\* rules_compile: do the rules compile?
RulesCompile(source) == CompileRules(source) # Error

\* Mutant: the last bytes are kept instead of the first.
BoundedTail(data) ==
  IF Len(data) > MaxDataLen
  THEN SubSeq(data, Len(data) - MaxDataLen + 1, Len(data)) ELSE data

\* bounded: the slice of the data that the scanner is given.
Bounded(data) ==
  IF Len(data) > MaxDataLen THEN SubSeq(data, 1, MaxDataLen) ELSE data

\* Scanner::scan: the report of the engine, or an error where it may fail.
ScanResults(rules, bytes) ==
  {Engine[<<rules, bytes>>]} \cup (IF bytes \in Fallible THEN {Error} ELSE {})

RuleMatches(results) ==
  [i \in DOMAIN results |->
     [rule |-> results[i].identifier, namespace |-> results[i].namespace,
      tags |-> results[i].tags]]

\* scan_rules: a scanner error is "no matches", never an error.
ScanRules(rules, data) ==
  {IF r = Error THEN <<>> ELSE RuleMatches(r) :
     r \in ScanResults(rules, Bounded(data))}

-----------------------------------------------------------------------------

IsContinuation(byte) == byte \in {"contCtrl", "contPrint"}

\* std::str::from_utf8 over the byte classes: a lead byte and a continuation
\* byte come in pairs, in this order.
ValidUtf8(bytes) ==
  \A i \in DOMAIN bytes :
    /\ bytes[i] = "lead" => i < Len(bytes) /\ IsContinuation(bytes[i + 1])
    /\ IsContinuation(bytes[i]) => i > 1 /\ bytes[i - 1] = "lead"

\* No char is a control character, tab excepted.
NoControl(bytes) ==
  \A i \in DOMAIN bytes : bytes[i] \notin {"ctrl", "contCtrl"}

\* render_matched: the text itself, or two hex digits for each of the bytes.
RenderMatched(bytes) ==
  IF ValidUtf8(bytes) /\ NoControl(bytes)
  THEN [form |-> "text", of |-> bytes]
  ELSE [form |-> "hex", of |-> bytes]

\* m.data(): the bytes of a match.
MatchedBytes(bytes, m) == SubSeq(bytes, m.start + 1, m.end)

\* Mutant: a hit is where its bytes end.
PatternHitsEnd(rule, pattern, bytes) ==
  [k \in DOMAIN pattern.matches |->
     [rule |-> rule.identifier, identifier |-> pattern.identifier,
      offset |-> pattern.matches[k].end,
      matched |-> RenderMatched(MatchedBytes(bytes, pattern.matches[k]))]]

\* One StringMatch per match of a pattern of a matching rule, rule by rule,
\* pattern by pattern and match by match.
PatternHits(rule, pattern, bytes) ==
  [k \in DOMAIN pattern.matches |->
     [rule |-> rule.identifier, identifier |-> pattern.identifier,
      offset |-> pattern.matches[k].start,
      matched |-> RenderMatched(MatchedBytes(bytes, pattern.matches[k]))]]

RuleHits(rule, bytes) ==
  FlattenSeq([p \in DOMAIN rule.patterns |->
                PatternHits(rule, rule.patterns[p], bytes)])

\* scan_strings: a scanner error is "no hits", never an error.
ScanStrings(rules, data) ==
  {IF r = Error THEN <<>>
   ELSE FlattenSeq([i \in DOMAIN r |-> RuleHits(r[i], Bounded(data))]) :
     r \in ScanResults(rules, Bounded(data))}

=============================================================================
