------------------------------- MODULE YaraX -------------------------------
(***************************************************************************)
(* The YARA-X library (crate yara-x 1.7.0), which is not part of the       *)
(* repository, as crates/yara-worker/src/scanning.rs uses it: a compiler   *)
(* that accepts or rejects a rule source, and a scanner that, given        *)
(* compiled rules and bytes, reports the matching rules or gives up.       *)
(*                                                                         *)
(* Nothing of the engine's own algorithm is modelled.  What it reports is  *)
(* the constant function Engine; the instances the model checker uses are  *)
(* built in MCYara, and the proofs hold for every Engine.                  *)
(***************************************************************************)
EXTENDS Integers, Sequences

CONSTANTS
  Source,       \* the rule source texts a caller may send
  Compilable,   \* the sources among them that the compiler accepts
  Data,         \* the byte sequences a caller may send, with their prefixes
  Fallible,     \* the data on which the scanner may return an error
  Engine,       \* Engine[<<s, d>>]: the rules of s that match d, in the order
                \* of Scanner results; each with its patterns and their matches
  RuleName,     \* rule identifiers
  Namespace,    \* rule namespaces
  Tag,          \* rule tags
  PatternName,  \* pattern identifiers, such as $a
  MaxDataLen,   \* scanning::MAX_DATA_LEN: the most bytes handed to the scanner
  Null,         \* a NULL cell, an absent value
  Error         \* the Err of a Result

\* The classes of byte that the rendering of matched bytes tells apart:
\* printable ASCII, tab, another ASCII control character, the UTF-8 lead byte
\* 0xC2, and its continuation bytes, which make a C1 control character (0x80 to
\* 0x9F) or a printable character (0xA0 to 0xBF).
Byte == {"print", "tab", "ctrl", "lead", "contCtrl", "contPrint"}

\* A match is a range of offsets, end excluded, as std::ops::Range<usize>.
EngineMatch == [start : Nat, end : Nat]

EnginePattern == [identifier : PatternName, matches : Seq(EngineMatch)]

EngineRule == [identifier : RuleName, namespace : Namespace,
               tags : Seq(Tag), patterns : Seq(EnginePattern)]

\* What the compiler and the scanner promise their caller.  Data is closed
\* under the truncation the worker applies, so that Engine says what the
\* scanner reports of the truncated bytes as well as of the whole.
ASSUME EngineAssumption ==
  /\ Compilable \subseteq Source
  /\ Data \subseteq Seq(Byte)
  /\ Fallible \subseteq Data
  /\ MaxDataLen \in Nat
  /\ \A d \in Data : Len(d) > MaxDataLen => SubSeq(d, 1, MaxDataLen) \in Data
  /\ Engine \in [Compilable \X Data -> Seq(EngineRule)]

\* Every match the scanner reports is a range of the bytes it was given.
ASSUME RangeAssumption ==
  \A s \in Compilable, d \in Data :
    \A i \in DOMAIN Engine[<<s, d>>] :
      \A p \in DOMAIN Engine[<<s, d>>][i].patterns :
        \A k \in DOMAIN Engine[<<s, d>>][i].patterns[p].matches :
          LET m == Engine[<<s, d>>][i].patterns[p].matches[k]
          IN  m.start <= m.end /\ m.end <= Len(d)

\* The absent value and the error differ from each other and from what a cell,
\* a compilation or a scan otherwise gives.
ASSUME MarkerAssumption ==
  /\ Null # Error
  /\ \A x \in {Null, Error} :
       x \notin Source /\ x \notin Data /\ x \notin Seq(EngineRule)

=============================================================================
