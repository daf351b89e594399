------------------------------- MODULE MCYara -------------------------------
(***************************************************************************)
(* A small YARA engine, to give the constants of YaraX values that TLC can *)
(* use: rules whose patterns are byte strings and whose condition asks for *)
(* any of them, for none of them, or for nothing.                          *)
(***************************************************************************)
EXTENDS Integers, Sequences, FiniteSetsExt

\* Where pattern p occurs in the data d, in ascending order.
Starts(p, d) == {o \in 0..(Len(d) - Len(p)) : SubSeq(d, o + 1, o + Len(p)) = p}

Occurrences(p, d) ==
  LET starts == Starts(p, d)
      nth(k) == CHOOSE o \in starts :
                  Cardinality({q \in starts : q < o}) = k - 1
  IN  [k \in 1..Cardinality(starts) |->
         [start |-> nth(k), end |-> nth(k) + Len(p)]]

\* The rule as the scanner reports it, had it matched d.
Reported(rule, d) ==
  [identifier |-> rule.name, namespace |-> "default", tags |-> rule.tags,
   patterns |-> [i \in DOMAIN rule.patterns |->
                   [identifier |-> rule.patterns[i].name,
                    matches |-> Occurrences(rule.patterns[i].bytes, d)]]]

Satisfied(rule, d) ==
  CASE rule.condition = "any" ->
         \E i \in DOMAIN rule.patterns : Starts(rule.patterns[i].bytes, d) # {}
    [] rule.condition = "none" ->
         \A i \in DOMAIN rule.patterns : Starts(rule.patterns[i].bytes, d) = {}
    [] rule.condition = "true" -> TRUE

Pattern(name, bytes) == [name |-> name, bytes |-> bytes]

Rule(name, tags, patterns, condition) ==
  [name |-> name, tags |-> tags, patterns |-> patterns, condition |-> condition]

-----------------------------------------------------------------------------

\* Two sources that compile and one that does not.
MCSource == {"A", "B", "broken"}
MCCompilable == {"A", "B"}

RulesOf(source) ==
  IF source = "A"
  THEN << Rule("alpha", <<"malicious", "trojan">>,
               << Pattern("$a", <<"print">>), Pattern("$b", <<"lead">>) >>,
               "any"),
          Rule("beta", <<>>, << Pattern("$c", <<"ctrl">>) >>, "none"),
          Rule("delta", <<>>, << Pattern("$d", <<"tab">>) >>, "true") >>
  ELSE << Rule("gamma", <<"tool">>,
               << Pattern("$a", <<"ctrl">>), Pattern("$b", <<"lead", "contPrint">>) >>,
               "any") >>

\* Data with a hit; data whose hit lies beyond the bound of two bytes, with the
\* prefix that is scanned; data on which the scanner may fail; and data whose
\* character straddles the bound.
MCMaxDataLen == 2
Hit == <<"print">>
Late == <<"ctrl", "tab", "print">>
Prefix == <<"ctrl", "tab">>
Hostile == <<"print", "ctrl">>
Straddle == <<"print", "lead", "contPrint">>
Split == <<"print", "lead">>

MCData == {Hit, Late, Prefix, Hostile, Straddle, Split}
MCFallible == {Hostile}

\* The engine on a set of data.
EngineOn(data) ==
  [k \in MCCompilable \X data |->
     LET matching == SelectSeq(RulesOf(k[1]), LAMBDA r : Satisfied(r, k[2]))
     IN  [i \in DOMAIN matching |-> Reported(matching[i], k[2])]]

MCEngine == EngineOn(MCData)

MCRuleName == {"alpha", "beta", "delta", "gamma"}
MCNamespace == {"default"}
MCTag == {"malicious", "trojan", "tool"}
MCPatternName == {"$a", "$b", "$c", "$d"}

=============================================================================
