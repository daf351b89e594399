------------------------------ MODULE MCWorker ------------------------------
(***************************************************************************)
(* Worker with the texts and rules of the published examples, and a rule   *)
(* set with several rules, several hits and a rule without patterns.  The  *)
(* engine is given by its reports.                                         *)
(***************************************************************************)
EXTENDS Worker, FiniteSetsExt

LOCAL Seqs == INSTANCE SequencesExt

\* Text of n printable bytes.  A text is as good as its length here.
Text(n) == [i \in 1..n |-> "print"]

MCInfected == Text(26)
MCEvilWorm == Text(9)
MCMalware == Text(7)

\* As long as the first example's text: one byte more is truncated away.
MCMaxDataLen == 26
MCBeyond == Text(27)

\* Data on which the scanner may fail.
MCHostile == <<"ctrl", "print">>

MCData == {MCInfected, MCEvilWorm, MCBeyond, MCHostile}
MCFallible == {MCHostile}

MCSource == {"demo", "pair", "mixed", "broken"}
MCCompilable == {"demo", "pair", "mixed"}

Match(start, end) == [start |-> start, end |-> end]

Rule(name, tags, patterns) ==
  [identifier |-> name, namespace |-> "default", tags |-> tags, patterns |-> patterns]

Pattern(name, matches) == [identifier |-> name, matches |-> matches]

DemoRules(d) ==
  IF d = MCInfected
  THEN << Rule("demo", <<>>, << Pattern("$a", <<Match(19, 26)>>) >>) >>
  ELSE <<>>

PairRules(d) ==
  IF d = MCEvilWorm
  THEN << Rule("a", <<>>, << Pattern("$a", <<Match(0, 4)>>) >>),
          Rule("b", <<>>, << Pattern("$b", <<Match(5, 9)>>) >>) >>
  ELSE <<>>

\* The rule a asks for nothing; b for two patterns, one of them in two places.
MixedRules(d) ==
  << Rule("a", <<"tag">>, <<>>) >>
  \o IF d = MCHostile THEN <<>>
     ELSE << Rule("b", <<>>, << Pattern("$b", <<Match(3, 6), Match(5, 8)>>),
                                Pattern("$a", <<Match(0, 1)>>) >>) >>

MCEngine ==
  [k \in MCCompilable \X MCData |->
     CASE k[1] = "demo" -> DemoRules(k[2])
       [] k[1] = "pair" -> PairRules(k[2])
       [] k[1] = "mixed" -> MixedRules(k[2])]

MCRuleName == {"demo", "a", "b"}
MCNamespace == {"default"}
MCTag == {"tag"}
MCPatternName == {"$a", "$b"}

MCTopics ==
  [data : {MCInfected, MCEvilWorm, MCBeyond, MCHostile, Null}, dataType : {"varchar"},
   rules : {"demo", "pair", "mixed", "broken", Null}]
  \cup
  [data : {MCEvilWorm, Null}, dataType : {"blob", "other"}, rules : {"mixed", "broken", Null}]

\* Any two functions.
MCQuestions == kSubset(2, ScalarFns \cup TableFns)

\* The calls that come of the topics.
MCBatches ==
  {b \in [dataType : {"binary", "utf8", "other"}, rulesType : {"utf8"},
          rows : [1..2 -> [data : MCData \cup {Null}, rules : MCSource \cup {Null}]]] :
     b.rows[1] = b.rows[2]}

MCRequests ==
  [fn : TableFns, dataType : {"blob", "varchar", "other"},
   data : MCData \cup {Null}, rules : MCSource \cup {Null}]

\* Two rules at most, and offsets up to the bound.
MCCountLimit == 3
MCOffsetLimit == MCMaxDataLen + 1

\* Keyword lists of up to five characters.
MCLists == Seqs!SeqOf(K!Char, 5)

=============================================================================
