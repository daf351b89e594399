---------------------------- MODULE TablesProofs ----------------------------
(***************************************************************************)
(* Proofs about Tables, for every engine, every set of requests and every  *)
(* bound on the data: type correctness, that a hit is where it says it is, *)
(* that Tables implements TableContract, when a call fails on NULL and a   *)
(* scan misses a rule, and how many steps a call takes.                    *)
(***************************************************************************)
EXTENDS Tables, Flattening, FunctionTheorems

-----------------------------------------------------------------------------
(* The arguments of a call.                                                *)

\* What a call scans, where it scans at all.
LEMMA RequestFacts ==
  ASSUME NEW r \in Requests
  PROVE  /\ r.fn \in TableFns
         /\ r.data \in Data \cup {Null} /\ r.rules \in Source \cup {Null}
         /\ ConstDataBytes(r) = IF r.dataType = "other" THEN Null ELSE r.data
         /\ r.rules # Null => r.rules \in Source
         /\ r.rules # Null => (CompileRules(r.rules) = Error <=> r.rules \notin Compilable)
         /\ r.rules \in Compilable => CompileRules(r.rules) = r.rules /\ r.rules # Null
         /\ Contract!Scanned(r) <=> /\ r.fn \in ScanTables
                                    /\ r.rules \in Compilable
                                    /\ ConstDataBytes(r) # Null
         /\ Contract!Invalid(r) <=> /\ r.fn \in ScanTables
                                    /\ r.rules # Null
                                    /\ CompileRules(r.rules) = Error
<1>1. r \in Request
  BY RequestAssumption
<1>2. /\ r.fn \in TableFns /\ r.dataType \in {"blob", "varchar", "other"}
      /\ r.data \in Data \cup {Null} /\ r.rules \in Source \cup {Null}
  BY <1>1 DEF Request
<1>3. ConstDataBytes(r) = IF r.dataType = "other" THEN Null ELSE r.data
  BY <1>2 DEF ConstDataBytes, ConstBytes, ConstStr
<1>4. /\ r.rules # Null => r.rules \in Source /\ r.rules # Error
      /\ r.rules \in Compilable => r.rules \in Source /\ r.rules # Null
  BY <1>2, EngineAssumption, MarkerAssumption
<1>5. /\ r.rules # Null => (CompileRules(r.rules) = Error <=> r.rules \notin Compilable)
      /\ r.rules \in Compilable => CompileRules(r.rules) = r.rules
  BY <1>4 DEF CompileRules
<1>6. Contract!Scanned(r) <=> /\ r.fn \in ScanTables
                              /\ r.rules \in Compilable
                              /\ ConstDataBytes(r) # Null
  BY <1>3 DEF Contract!Scanned, Contract!ScanTables, ScanTables
<1>7. Contract!Invalid(r) <=> /\ r.fn \in ScanTables
                              /\ r.rules # Null
                              /\ CompileRules(r.rules) = Error
  BY <1>5 DEF Contract!Invalid, Contract!ScanTables, ScanTables
<1> QED
  BY <1>2, <1>3, <1>4, <1>5, <1>6, <1>7

\* The bytes that are scanned are those the contract looks at.
LEMMA BoundedFacts ==
  ASSUME NEW d \in Data
  PROVE  /\ Bounded(d) = Contract!View(d) /\ Bounded(d) \in Data
         /\ d \in Seq(Byte) /\ Bounded(d) \in Seq(Byte)
         /\ Len(Bounded(d)) <= Len(d) /\ Len(Bounded(d)) <= MaxDataLen
         /\ \A i \in 1..Len(Bounded(d)) : Bounded(d)[i] = d[i]
<1>1. d \in Seq(Byte) /\ Len(d) \in Nat /\ MaxDataLen \in Nat
  BY EngineAssumption
<1>2. CASE Len(d) > MaxDataLen
  <2>1. Bounded(d) = SubSeq(d, 1, MaxDataLen)
    BY <1>2 DEF Bounded
  <2>2. Contract!View(d) = SubSeq(d, 1, MaxDataLen)
    BY <1>1, <1>2 DEF Contract!View
  <2>3. Bounded(d) \in Data /\ Bounded(d) \in Seq(Byte)
    BY <2>1, <1>2, EngineAssumption
  <2>4. Len(Bounded(d)) = MaxDataLen /\ \A i \in 1..MaxDataLen : Bounded(d)[i] = d[i]
    BY <1>1, <1>2, <2>1
  <2> QED
    BY <1>1, <1>2, <2>1, <2>2, <2>3, <2>4
<1>3. CASE ~(Len(d) > MaxDataLen)
  <2>1. Bounded(d) = d
    BY <1>3 DEF Bounded
  <2>2. Contract!View(d) = SubSeq(d, 1, Len(d))
    BY <1>1, <1>3 DEF Contract!View
  <2>3. SubSeq(d, 1, Len(d)) = d
    BY <1>1, SubSeqFull
  <2> QED
    BY <1>1, <1>3, <2>1, <2>2, <2>3
<1> QED
  BY <1>2, <1>3

\* What the engine reports of the bytes that are scanned.
LEMMA ReportFacts ==
  ASSUME NEW s \in Compilable, NEW d \in Data
  PROVE  /\ Engine[<<s, Bounded(d)>>] \in Seq(EngineRule)
         /\ ScanResults(s, Bounded(d)) \subseteq Seq(EngineRule) \cup {Error}
         /\ Error \notin Seq(EngineRule)
         /\ Error \in ScanResults(s, Bounded(d)) => Contract!View(d) \in Fallible
         /\ \A r \in ScanResults(s, Bounded(d)) :
              r = Error \/ r = Engine[<<s, Contract!View(d)>>]
<1>1. Bounded(d) \in Data /\ Bounded(d) = Contract!View(d)
  BY BoundedFacts
<1>2. Engine[<<s, Bounded(d)>>] \in Seq(EngineRule)
  BY <1>1, EngineAssumption
<1>3. Error \notin Seq(EngineRule)
  BY MarkerAssumption
<1> QED
  BY <1>1, <1>2, <1>3 DEF ScanResults

\* The text of a match is printable as the contract has it.
LEMMA RenderFacts ==
  ASSUME NEW b \in Seq(Byte)
  PROVE  RenderMatched(b) = [form |-> IF Contract!Printable(b) THEN "text" ELSE "hex",
                             of |-> b]
<1>1. \A i \in DOMAIN b : b[i] \in Byte
  OBVIOUS
<1>2. ASSUME ValidUtf8(b), NoControl(b) PROVE Contract!Printable(b)
  <2>1. ASSUME NEW i \in DOMAIN b
        PROVE  \/ b[i] \in {"print", "tab"}
               \/ b[i] = "lead" /\ i < Len(b) /\ b[i + 1] = "contPrint"
               \/ b[i] = "contPrint" /\ i > 1 /\ b[i - 1] = "lead"
    <3>1. b[i] \in {"print", "tab", "lead", "contPrint"}
      BY <1>1, <1>2 DEF NoControl, Byte
    <3>2. b[i] = "lead" => i < Len(b) /\ i + 1 \in DOMAIN b /\ b[i + 1] \in {"contCtrl", "contPrint"}
      BY <1>2 DEF ValidUtf8, IsContinuation
    <3>3. b[i] = "lead" => b[i + 1] # "contCtrl"
      BY <1>2, <3>2 DEF NoControl
    <3>4. b[i] = "contPrint" => i > 1 /\ b[i - 1] = "lead"
      BY <1>2 DEF ValidUtf8, IsContinuation
    <3> QED
      BY <3>1, <3>2, <3>3, <3>4
  <2> QED
    BY <2>1 DEF Contract!Printable
<1>3. ASSUME Contract!Printable(b) PROVE ValidUtf8(b) /\ NoControl(b)
  BY <1>1, <1>3 DEF Contract!Printable, ValidUtf8, NoControl, IsContinuation
<1> QED
  BY <1>2, <1>3 DEF RenderMatched

-----------------------------------------------------------------------------
(* The hits of a report.                                                   *)

\* Reports whose matches are ranges of the bytes b.
InRange(b) ==
  {m \in Seq(EngineRule) :
     \A i \in DOMAIN m : \A p \in DOMAIN m[i].patterns :
       \A k \in DOMAIN m[i].patterns[p].matches :
         LET range == m[i].patterns[p].matches[k]
         IN  range.start <= range.end /\ range.end <= Len(b)}

\* Hits that are where they say they are in the bytes b.
PlacedHit(b) ==
  {row \in [rule : RuleName, identifier : PatternName, offset : Nat,
            matched : Rendered] :
     /\ row.offset + Len(row.matched.of) <= Len(b)
     /\ SubSeq(b, row.offset + 1, row.offset + Len(row.matched.of)) = row.matched.of}

\* The positions of n hits of a pattern, of all of them, and of those of a rule.
Positions(i, p, n) == {<<i, p, k>> : k \in 1..n}
OfPattern(m, i, p) == Positions(i, p, Len(m[i].patterns[p].matches))
OfRule(m, i) == {h \in Contract!Hits(m) : h[1] = i}

\* Which position comes before which, and which row is that of a position.
Before(m) == {gh \in Contract!Hits(m) \X Contract!Hits(m) : Contract!Earlier(gh[1], gh[2])}

Fits(m, b) ==
  {hr \in Contract!Hits(m) \X PlacedHit(b) :
     LET h == hr[1]
         row == hr[2]
         pattern == m[h[1]].patterns[h[2]]
         range == pattern.matches[h[3]]
         bytes == SubSeq(b, range.start + 1, range.end)
     IN  /\ row.rule = m[h[1]].identifier
         /\ row.identifier = pattern.identifier
         /\ row.offset = range.start
         /\ row.matched.of = bytes
         /\ row.matched.form = IF Contract!Printable(bytes) THEN "text" ELSE "hex"}

\* What a report consists of.
LEMMA ReportShape ==
  ASSUME NEW m \in Seq(EngineRule), NEW i \in DOMAIN m
  PROVE  /\ i \in 1..Len(m) /\ m[i] \in EngineRule
         /\ m[i].identifier \in RuleName
         /\ m[i].patterns \in Seq(EnginePattern)
         /\ \A p \in DOMAIN m[i].patterns :
              /\ p \in 1..Len(m[i].patterns)
              /\ m[i].patterns[p].identifier \in PatternName
              /\ m[i].patterns[p].matches \in Seq(EngineMatch)
              /\ \A k \in DOMAIN m[i].patterns[p].matches :
                   /\ m[i].patterns[p].matches[k].start \in Nat
                   /\ m[i].patterns[p].matches[k].end \in Nat
<1>1. i \in 1..Len(m) /\ m[i] \in EngineRule
  OBVIOUS
<1>2. m[i].identifier \in RuleName /\ m[i].patterns \in Seq(EnginePattern)
  BY <1>1 DEF EngineRule
<1>3. ASSUME NEW p \in DOMAIN m[i].patterns
      PROVE  /\ p \in 1..Len(m[i].patterns)
             /\ m[i].patterns[p].identifier \in PatternName
             /\ m[i].patterns[p].matches \in Seq(EngineMatch)
             /\ \A k \in DOMAIN m[i].patterns[p].matches :
                  /\ m[i].patterns[p].matches[k].start \in Nat
                  /\ m[i].patterns[p].matches[k].end \in Nat
  <2>1. p \in 1..Len(m[i].patterns) /\ m[i].patterns[p] \in EnginePattern
    BY <1>2
  <2>2. /\ m[i].patterns[p].identifier \in PatternName
        /\ m[i].patterns[p].matches \in Seq(EngineMatch)
    BY <2>1 DEF EnginePattern
  <2>3. \A k \in DOMAIN m[i].patterns[p].matches :
          m[i].patterns[p].matches[k] \in EngineMatch
    BY <2>2
  <2> QED
    BY <2>1, <2>2, <2>3 DEF EngineMatch
<1> QED
  BY <1>1, <1>2, <1>3

\* The positions are those of the matches.
LEMMA HitsAre ==
  ASSUME NEW m \in Seq(EngineRule), NEW h
  PROVE  h \in Contract!Hits(m) <=>
           \E i \in DOMAIN m : \E p \in DOMAIN m[i].patterns :
             \E k \in DOMAIN m[i].patterns[p].matches : h = <<i, p, k>>
BY DEF Contract!Hits

\* n hits of a pattern have n positions.
LEMMA PositionCount ==
  ASSUME NEW i, NEW p, NEW n \in Nat
  PROVE  IsFiniteSet(Positions(i, p, n)) /\ Cardinality(Positions(i, p, n)) = n
<1> DEFINE T == Positions(i, p, n)
           f == [k \in 1..n |-> <<i, p, k>>]
<1>1. f \in Bijection(1..n, T)
  <2>1. f \in [1..n -> T]
    BY DEF Positions
  <2>2. f \in Injection(1..n, T)
    BY <2>1, Fun_IsInj
  <2>3. f \in Surjection(1..n, T)
    BY <2>1, Fun_IsSurj DEF Positions
  <2> QED
    BY <2>2, <2>3 DEF Bijection
<1>2. IsFiniteSet(1..n) /\ Cardinality(1..n) = n
  BY FS_Interval
<1>3. ExistsBijection(1..n, T)
  BY <1>1 DEF ExistsBijection
<1>4. IsFiniteSet(T) /\ Cardinality(T) = Cardinality(1..n)
  BY <1>2, <1>3, FS_Bijection
<1> QED
  BY <1>2, <1>4

\* The union of finitely many finite sets is finite.
LEMMA FiniteUnion ==
  ASSUME NEW n \in Nat, NEW f, \A i \in 1..n : IsFiniteSet(f[i])
  PROVE  IsFiniteSet(UNION {f[i] : i \in 1..n})
<1> DEFINE T == {f[i] : i \in 1..n}
           g == [i \in 1..n |-> f[i]]
<1>1. g \in Surjection(1..n, T)
  <2>1. g \in [1..n -> T]
    OBVIOUS
  <2> QED
    BY <2>1, Fun_IsSurj
<1>2. IsFiniteSet(1..n) /\ Cardinality(1..n) = n
  BY FS_Interval
<1>3. IsFiniteSet(T)
  <2> HIDE DEF g, T
  <2> QED
    BY <1>1, <1>2, FS_Surjection
<1> QED
  BY <1>3, FS_UNION

\* There are finitely many hits.
LEMMA HitsFinite ==
  ASSUME NEW m \in Seq(EngineRule)
  PROVE  IsFiniteSet(Contract!Hits(m))
<1> DEFINE ofRule == [i \in 1..Len(m) |->
                        UNION {OfPattern(m, i, p) : p \in 1..Len(m[i].patterns)}]
<1>1. ASSUME NEW i \in 1..Len(m) PROVE IsFiniteSet(ofRule[i])
  <2> DEFINE ofPattern == [p \in 1..Len(m[i].patterns) |-> OfPattern(m, i, p)]
  <2>1. Len(m[i].patterns) \in Nat
    BY ReportShape
  <2>2. ASSUME NEW p \in 1..Len(m[i].patterns) PROVE IsFiniteSet(ofPattern[p])
    <3>1. Len(m[i].patterns[p].matches) \in Nat
      BY ReportShape, SMTT(30)
    <3>2. IsFiniteSet(OfPattern(m, i, p))
      BY <3>1, PositionCount DEF OfPattern
    <3> QED
      BY <3>2
  <2>3. ofRule[i] = UNION {ofPattern[p] : p \in 1..Len(m[i].patterns)}
    OBVIOUS
  <2> HIDE DEF ofPattern, ofRule
  <2> QED
    BY <2>1, <2>2, <2>3, FiniteUnion, SMTT(30)
<1>2. IsFiniteSet(UNION {ofRule[i] : i \in 1..Len(m)})
  <2>1. Len(m) \in Nat
    OBVIOUS
  <2> HIDE DEF ofRule
  <2> QED
    BY <1>1, <2>1, FiniteUnion
<1>3. Contract!Hits(m) \subseteq UNION {ofRule[i] : i \in 1..Len(m)}
  <2> SUFFICES ASSUME NEW h \in Contract!Hits(m)
               PROVE  \E i \in 1..Len(m) : h \in ofRule[i]
    OBVIOUS
  <2>1. PICK i, p, k :
          /\ i \in DOMAIN m /\ p \in DOMAIN m[i].patterns
          /\ k \in DOMAIN m[i].patterns[p].matches
          /\ h = <<i, p, k>>
    BY HitsAre
  <2>2. /\ i \in 1..Len(m) /\ p \in 1..Len(m[i].patterns)
        /\ k \in 1..Len(m[i].patterns[p].matches)
    BY <2>1, ReportShape, SMTT(30)
  <2>3. h \in OfPattern(m, i, p)
    BY <2>1, <2>2 DEF OfPattern, Positions
  <2> QED
    BY <2>2, <2>3
<1> QED
  BY <1>2, <1>3, FS_Subset

\* The bytes from one offset to another.
LEMMA SliceFacts ==
  ASSUME NEW s \in Seq(Byte), NEW from \in Nat, NEW to \in Nat,
         from <= to, to <= Len(s)
  PROVE  /\ Len(SubSeq(s, from + 1, to)) = to - from
         /\ SubSeq(s, from + 1, to) \in Seq(Byte)
         /\ \A n \in 1..(to - from) : SubSeq(s, from + 1, to)[n] = s[from + n]
<1> DEFINE start == from + 1
<1>1. start \in Int /\ to \in Int /\ to - start + 1 = to - from
  OBVIOUS
<1>2. \A i \in start..to : s[i] \in Byte
  BY ElementOfSeq
<1>3. \A n \in 1..(to - from) : start + n - 1 = from + n
  OBVIOUS
<1> HIDE DEF start
<1>4. /\ SubSeq(s, start, to) \in Seq(Byte)
      /\ Len(SubSeq(s, start, to)) = IF start <= to THEN to - start + 1 ELSE 0
      /\ \A n \in 1..(to - start + 1) : SubSeq(s, start, to)[n] = s[start + n - 1]
  BY <1>1, <1>2, SubSeqProperties
<1>5. Len(SubSeq(s, start, to)) = to - from
  BY <1>1, <1>4 DEF start
<1>6. \A n \in 1..(to - from) : SubSeq(s, start, to)[n] = s[from + n]
  BY <1>1, <1>3, <1>4
<1> QED
  BY <1>4, <1>5, <1>6 DEF start

\* The hits of a pattern: each is placed, and is the row of its position.
LEMMA PatternRows ==
  ASSUME NEW b \in Seq(Byte), NEW m \in InRange(b),
         NEW i \in DOMAIN m, NEW p \in DOMAIN m[i].patterns
  PROVE  LET hits == PatternHits(m[i], m[i].patterns[p], b)
         IN  /\ hits \in Seq(PlacedHit(b))
             /\ Len(hits) = Len(m[i].patterns[p].matches)
             /\ \A k \in 1..Len(hits) : <<<<i, p, k>>, hits[k]>> \in Fits(m, b)
             /\ InRanks(hits, OfPattern(m, i, p), Before(m), Fits(m, b))
<1> DEFINE pattern == m[i].patterns[p]
           hits == PatternHits(m[i], pattern, b)
           n == Len(pattern.matches)
<1>1. m \in Seq(EngineRule)
  BY DEF InRange
<1>2. /\ m[i].identifier \in RuleName /\ pattern.identifier \in PatternName
      /\ pattern.matches \in Seq(EngineMatch) /\ n \in Nat
      /\ DOMAIN pattern.matches = 1..n
  BY <1>1, ReportShape, SMTT(30)
<1>3. ASSUME NEW k \in 1..n
      PROVE  hits[k] \in PlacedHit(b) /\ <<<<i, p, k>>, hits[k]>> \in Fits(m, b)
  <2> DEFINE range == pattern.matches[k]
             bytes == SubSeq(b, range.start + 1, range.end)
             row == hits[k]
  <2>1. row = [rule |-> m[i].identifier, identifier |-> pattern.identifier,
               offset |-> range.start, matched |-> RenderMatched(bytes)]
    BY <1>2 DEF PatternHits, MatchedBytes
  <2>2. /\ range.start \in Nat /\ range.end \in Nat
        /\ range.start <= range.end /\ range.end <= Len(b)
    <3>1. range.start \in Nat /\ range.end \in Nat
      BY <1>1, <1>2, ReportShape
    <3>2. range.start <= range.end /\ range.end <= Len(b)
      BY <1>2 DEF InRange
    <3> QED
      BY <3>1, <3>2
  <2>3. bytes \in Seq(Byte) /\ Len(bytes) = range.end - range.start
    <3>1. range.start \in Nat /\ range.end \in Nat
      BY <2>2, Zenon
    <3>2. range.start <= range.end /\ range.end <= Len(b)
      BY <2>2, Zenon
    <3> HIDE DEF range
    <3> QED
      BY <3>1, <3>2, SliceFacts, ZenonT(60)
  <2>4. row.matched = [form |-> IF Contract!Printable(bytes) THEN "text" ELSE "hex",
                       of |-> bytes]
    <3> HIDE DEF bytes, hits
    <3> QED
      BY <2>1, <2>3, RenderFacts
  <2>5. row.matched \in Rendered /\ row.matched.of = bytes
    <3> HIDE DEF bytes, row
    <3> QED
      BY <2>3, <2>4 DEF Rendered
  <2>6. /\ row.rule = m[i].identifier /\ row.identifier = pattern.identifier
        /\ row.offset = range.start
    BY <2>1
  <2>7. row \in [rule : RuleName, identifier : PatternName, offset : Nat,
                 matched : Rendered]
    <3>1. RenderMatched(bytes) = row.matched
      BY <2>1
    <3> HIDE DEF row, bytes, range, pattern
    <3> QED
      BY <1>2, <2>1, <2>2, <2>5, <3>1
  <2>8. row \in PlacedHit(b)
    <3>1. row.offset + Len(row.matched.of) = range.end
      <4> HIDE DEF row, bytes, range
      <4> QED
        BY <2>2, <2>3, <2>5, <2>6
    <3> HIDE DEF row, range, pattern
    <3> QED
      BY <2>2, <2>5, <2>6, <2>7, <3>1 DEF PlacedHit
  <2>9. <<i, p, k>> \in Contract!Hits(m)
    BY <1>1, <1>2, HitsAre, Zenon
  <2>10. row.matched.form = IF Contract!Printable(bytes) THEN "text" ELSE "hex"
    <3> HIDE DEF row, bytes
    <3> QED
      BY <2>4
  <2>11. <<<<i, p, k>>, row>> \in Fits(m, b)
    <3> HIDE DEF row
    <3> QED
      BY <2>5, <2>6, <2>8, <2>9, <2>10, Zenon DEF Fits
  <2> QED
    BY <2>8, <2>11
<1>4. hits = [k \in 1..n |-> hits[k]]
  BY <1>2 DEF PatternHits
<1>5. hits \in Seq(PlacedHit(b)) /\ Len(hits) = n
  <2> HIDE DEF hits, n
  <2>1. hits \in [1..n -> PlacedHit(b)]
    BY <1>3, <1>4
  <2> QED
    BY <1>2, <2>1, FunctionIsSeq, Zenon
<1>6. \A k \in 1..Len(hits) : <<<<i, p, k>>, hits[k]>> \in Fits(m, b)
  <2> HIDE DEF hits, n
  <2> QED
    BY <1>3, <1>5
<1>7. OfPattern(m, i, p) \subseteq Contract!Hits(m)
  <2> SUFFICES ASSUME NEW k \in 1..n PROVE <<i, p, k>> \in Contract!Hits(m)
    BY DEF OfPattern, Positions
  <2> QED
    BY <1>1, <1>2, HitsAre
<1>8. ASSUME NEW k \in 1..n
      PROVE  /\ <<i, p, k>> \in OfPattern(m, i, p)
             /\ {g \in OfPattern(m, i, p) : <<g, <<i, p, k>>>> \in Before(m)}
                  = Positions(i, p, k - 1)
  <2>1. k \in Nat /\ k <= n /\ i \in Nat /\ p \in Nat
    BY <1>1, <1>2, ReportShape
  <2>2. ASSUME NEW j \in 1..n
        PROVE  <<<<i, p, j>>, <<i, p, k>>>> \in Before(m) <=> j \in 1..(k - 1)
    <3>1. Contract!Earlier(<<i, p, j>>, <<i, p, k>>) <=> j < k
      BY <2>1 DEF Contract!Earlier
    <3>2. <<<<i, p, j>>, <<i, p, k>>>> \in Before(m) <=> j < k
      BY <1>7, <3>1 DEF Before, OfPattern, Positions
    <3> QED
      BY <2>1, <3>2
  <2>3. 1..(k - 1) \subseteq 1..n
    BY <1>2, <2>1
  <2> QED
    BY <2>2, <2>3 DEF OfPattern, Positions
<1>9. InRanks(hits, OfPattern(m, i, p), Before(m), Fits(m, b))
  <2> DEFINE H == OfPattern(m, i, p)
  <2>1. Len(hits) = Cardinality(H)
    BY <1>2, <1>5, PositionCount DEF OfPattern
  <2>2. ASSUME NEW k \in 1..Len(hits)
        PROVE  \E h \in H :
                 /\ <<h, hits[k]>> \in Fits(m, b)
                 /\ Cardinality({g \in H : <<g, h>> \in Before(m)}) = k - 1
    <3> DEFINE h == <<i, p, k>>
    <3>1. k \in 1..n /\ k - 1 \in Nat
      BY <1>2, <1>5
    <3>2. Cardinality(Positions(i, p, k - 1)) = k - 1
      BY <3>1, PositionCount
    <3>3. h \in H /\ {g \in H : <<g, h>> \in Before(m)} = Positions(i, p, k - 1)
      BY <1>8, <3>1
    <3>4. <<h, hits[k]>> \in Fits(m, b)
      BY <1>6
    <3> HIDE DEF h, H, hits
    <3> QED
      BY <3>2, <3>3, <3>4
  <2> HIDE DEF hits, H
  <2> QED
    BY <2>1, <2>2 DEF InRanks, H
<1> QED
  BY <1>5, <1>6, <1>9

\* The parts of a position.
LEMMA HitParts ==
  ASSUME NEW m \in Seq(EngineRule), NEW h \in Contract!Hits(m)
  PROVE  /\ h = <<h[1], h[2], h[3]>>
         /\ h[1] \in DOMAIN m /\ h[2] \in DOMAIN m[h[1]].patterns
         /\ h[3] \in DOMAIN m[h[1]].patterns[h[2]].matches
         /\ h[1] \in 1..Len(m) /\ h[2] \in 1..Len(m[h[1]].patterns)
         /\ h[3] \in 1..Len(m[h[1]].patterns[h[2]].matches)
         /\ h[1] \in Nat /\ h[2] \in Nat /\ h[3] \in Nat
<1>1. PICK i, p, k :
        /\ i \in DOMAIN m /\ p \in DOMAIN m[i].patterns
        /\ k \in DOMAIN m[i].patterns[p].matches
        /\ h = <<i, p, k>>
  BY HitsAre
<1>2. i = h[1] /\ p = h[2] /\ k = h[3]
  BY <1>1
<1>3. /\ h = <<h[1], h[2], h[3]>>
      /\ h[1] \in DOMAIN m /\ h[2] \in DOMAIN m[h[1]].patterns
      /\ h[3] \in DOMAIN m[h[1]].patterns[h[2]].matches
  BY <1>1, <1>2
<1>4. /\ h[1] \in 1..Len(m) /\ h[2] \in 1..Len(m[h[1]].patterns)
      /\ m[h[1]].patterns[h[2]].matches \in Seq(EngineMatch)
  BY <1>3, ReportShape
<1>5. h[3] \in 1..Len(m[h[1]].patterns[h[2]].matches)
  BY <1>3, <1>4, SMTT(30)
<1> QED
  BY <1>3, <1>4, <1>5, SMTT(30)

\* The hits of a rule: each is placed, and they are in the order of the
\* positions.
LEMMA RuleRows ==
  ASSUME NEW b \in Seq(Byte), NEW m \in InRange(b), NEW i \in DOMAIN m
  PROVE  /\ RuleHits(m[i], b) \in Seq(PlacedHit(b))
         /\ InRanks(RuleHits(m[i], b), OfRule(m, i), Before(m), Fits(m, b))
<1> DEFINE S == PlacedHit(b)
           H == OfRule(m, i)
           ss == [p \in DOMAIN m[i].patterns |-> PatternHits(m[i], m[i].patterns[p], b)]
           piece == [h \in H |-> h[2]]
<1>1. m \in Seq(EngineRule)
  BY DEF InRange
<1>2. /\ m[i].patterns \in Seq(EnginePattern) /\ Len(m[i].patterns) \in Nat
      /\ DOMAIN m[i].patterns = 1..Len(m[i].patterns)
  BY <1>1, ReportShape
<1>3. /\ ss \in Seq(Seq(S)) /\ Len(ss) = Len(m[i].patterns)
      /\ \A p \in 1..Len(ss) : ss[p] = PatternHits(m[i], m[i].patterns[p], b)
  <2>1. \A p \in DOMAIN m[i].patterns : PatternHits(m[i], m[i].patterns[p], b) \in Seq(S)
    BY PatternRows
  <2>2. ss \in [1..Len(m[i].patterns) -> Seq(S)]
    <3> HIDE DEF S
    <3> QED
      BY <1>2, <2>1
  <2>3. ss \in Seq(Seq(S))
    <3> HIDE DEF ss, S
    <3> QED
      BY <1>2, <2>2, FunctionIsSeq, Zenon
  <2>4. Len(ss) = Len(m[i].patterns)
    <3> HIDE DEF ss, S
    <3> QED
      BY <1>2, <2>2, <2>3
  <2> QED
    BY <1>2, <2>3, <2>4
<1>4. H \subseteq Contract!Hits(m) /\ IsFiniteSet(H)
  BY <1>1, HitsFinite, FS_Subset DEF OfRule
<1>5. \A h \in H : h[1] = i /\ h[2] \in 1..Len(ss) /\ h[2] \in Nat /\ h[3] \in Nat
  <2> HIDE DEF ss
  <2> QED
    BY <1>1, <1>3, HitParts DEF OfRule
<1>6. ASSUME NEW p \in 1..Len(ss)
      PROVE  {h \in H : piece[h] = p} = OfPattern(m, i, p)
  <2>1. p \in DOMAIN m[i].patterns /\ i \in 1..Len(m)
    BY <1>1, <1>2, <1>3, ReportShape
  <2>2. /\ m[i].patterns[p].matches \in Seq(EngineMatch)
        /\ DOMAIN m[i].patterns[p].matches = 1..Len(m[i].patterns[p].matches)
    BY <1>1, <2>1, ReportShape
  <2>3. ASSUME NEW h \in H, piece[h] = p PROVE h \in OfPattern(m, i, p)
    <3>1. h[1] = i /\ h[2] = p /\ h \in Contract!Hits(m)
      BY <2>3, <1>4, <1>5
    <3>2. h = <<i, p, h[3]>> /\ h[3] \in 1..Len(m[i].patterns[p].matches)
      <4> HIDE DEF H, ss
      <4> QED
        BY <1>1, <3>1, HitParts
    <3> QED
      BY <3>2 DEF OfPattern, Positions
  <2>4. ASSUME NEW k \in 1..Len(m[i].patterns[p].matches)
        PROVE  <<i, p, k>> \in H /\ piece[<<i, p, k>>] = p
    <3>1. <<i, p, k>> \in Contract!Hits(m)
      BY <1>1, <2>1, <2>2, HitsAre
    <3>2. <<i, p, k>> \in H
      BY <3>1 DEF OfRule
    <3> QED
      BY <3>2
  <2> HIDE DEF H, piece, ss
  <2> QED
    BY <2>3, <2>4 DEF OfPattern, Positions
<1>7. Ranked(ss, H, piece, Before(m), Fits(m, b))
  <2>1. piece \in [H -> 1..Len(ss)]
    <3> HIDE DEF H, ss
    <3> QED
      BY <1>5
  <2>2. ASSUME NEW p \in 1..Len(ss)
        PROVE  InRanks(ss[p], {h \in H : piece[h] = p}, Before(m), Fits(m, b))
    <3>1. p \in DOMAIN m[i].patterns /\ ss[p] = PatternHits(m[i], m[i].patterns[p], b)
      BY <1>2, <1>3
    <3>2. InRanks(ss[p], OfPattern(m, i, p), Before(m), Fits(m, b))
      BY <3>1, PatternRows
    <3> HIDE DEF piece, H, ss
    <3> QED
      BY <1>6, <3>2
  <2>3. ASSUME NEW g \in H, NEW h \in H
        PROVE  /\ piece[g] < piece[h] => <<g, h>> \in Before(m)
               /\ piece[g] > piece[h] => <<g, h>> \notin Before(m)
    <3>1. /\ piece[g] = g[2] /\ piece[h] = h[2] /\ g[1] = h[1] /\ g[2] \in Nat /\ h[2] \in Nat
          /\ g[1] \in Nat
      <4> HIDE DEF H, ss
      <4> QED
        BY <1>1, <1>4, <1>5, HitParts
    <3>2. g \in Contract!Hits(m) /\ h \in Contract!Hits(m)
      BY <1>4
    <3> HIDE DEF H, piece
    <3> QED
      BY <3>1, <3>2 DEF Before, Contract!Earlier
  <2> HIDE DEF piece, H, ss
  <2> QED
    BY <1>4, <2>1, <2>2, <2>3 DEF Ranked
<1>8. RuleHits(m[i], b) = FlattenSeq(ss)
  BY DEF RuleHits
<1> HIDE DEF piece, H, ss, S
<1>9. FlattenSeq(ss) \in Seq(S)
  BY <1>3, FlattenType
<1>10. InRanks(FlattenSeq(ss), H, Before(m), Fits(m, b))
  BY <1>3, <1>7, RankedFlatten
<1> QED
  BY <1>8, <1>9, <1>10 DEF H, S

\* The hits of a report are placed, and in the order of their positions.
LEMMA ReportRows ==
  ASSUME NEW b \in Seq(Byte), NEW m \in InRange(b)
  PROVE  LET rows == FlattenSeq([i \in DOMAIN m |-> RuleHits(m[i], b)])
         IN  /\ rows \in Seq(PlacedHit(b))
             /\ InRanks(rows, Contract!Hits(m), Before(m), Fits(m, b))
<1> DEFINE S == PlacedHit(b)
           H == Contract!Hits(m)
           ss == [i \in DOMAIN m |-> RuleHits(m[i], b)]
           piece == [h \in H |-> h[1]]
<1>1. m \in Seq(EngineRule) /\ Len(m) \in Nat /\ DOMAIN m = 1..Len(m)
  BY DEF InRange
<1>2. /\ ss \in Seq(Seq(S)) /\ Len(ss) = Len(m)
      /\ \A i \in 1..Len(ss) : ss[i] = RuleHits(m[i], b)
  <2>1. \A i \in DOMAIN m : RuleHits(m[i], b) \in Seq(S)
    BY RuleRows
  <2>2. ss \in [1..Len(m) -> Seq(S)]
    <3> HIDE DEF S
    <3> QED
      BY <1>1, <2>1
  <2>3. ss \in Seq(Seq(S))
    <3> HIDE DEF ss, S
    <3> QED
      BY <1>1, <2>2, FunctionIsSeq, Zenon
  <2>4. Len(ss) = Len(m)
    <3> HIDE DEF ss, S
    <3> QED
      BY <1>1, <2>2, <2>3
  <2> QED
    BY <1>1, <2>3, <2>4
<1>3. \A h \in H : h[1] \in 1..Len(ss) /\ h[1] \in Nat
  <2> HIDE DEF ss
  <2> QED
    BY <1>1, <1>2, HitParts
<1>4. Ranked(ss, H, piece, Before(m), Fits(m, b))
  <2>1. piece \in [H -> 1..Len(ss)]
    <3> HIDE DEF H, ss
    <3> QED
      BY <1>3
  <2>2. ASSUME NEW i \in 1..Len(ss)
        PROVE  InRanks(ss[i], {h \in H : piece[h] = i}, Before(m), Fits(m, b))
    <3>1. i \in DOMAIN m /\ ss[i] = RuleHits(m[i], b)
      BY <1>1, <1>2
    <3>2. InRanks(ss[i], OfRule(m, i), Before(m), Fits(m, b))
      BY <3>1, RuleRows
    <3>3. {h \in H : piece[h] = i} = OfRule(m, i)
      BY DEF OfRule
    <3> HIDE DEF piece, H, ss
    <3> QED
      BY <3>2, <3>3
  <2>3. ASSUME NEW g \in H, NEW h \in H
        PROVE  /\ piece[g] < piece[h] => <<g, h>> \in Before(m)
               /\ piece[g] > piece[h] => <<g, h>> \notin Before(m)
    <3>1. piece[g] = g[1] /\ piece[h] = h[1] /\ g[1] \in Nat /\ h[1] \in Nat
      BY <1>3
    <3> HIDE DEF piece
    <3> QED
      BY <3>1 DEF Before, Contract!Earlier
  <2>4. IsFiniteSet(H)
    BY <1>1, HitsFinite
  <2> HIDE DEF piece, H, ss
  <2> QED
    BY <2>1, <2>2, <2>3, <2>4 DEF Ranked
<1> HIDE DEF piece, H, ss, S
<1>5. FlattenSeq(ss) \in Seq(S)
  BY <1>2, FlattenType
<1>6. InRanks(FlattenSeq(ss), H, Before(m), Fits(m, b))
  BY <1>2, <1>4, RankedFlatten
<1> QED
  BY <1>5, <1>6 DEF H, S, ss

\* The contract counts as everyone does.
LEMMA SameCardinality ==
  ASSUME NEW S
  PROVE  Contract!Cardinality(S) = Cardinality(S)
BY DEF Cardinality, Contract!Cardinality

\* They are the rows that the contract wants of the report.
LEMMA RanksAreRows ==
  ASSUME NEW b \in Seq(Byte), NEW m \in InRange(b), NEW rows,
         InRanks(rows, Contract!Hits(m), Before(m), Fits(m, b))
  PROVE  /\ Len(rows) = Contract!RowCount("yara_string_matches", m)
         /\ \A n \in 1..Len(rows) :
              Contract!IsRow("yara_string_matches", m, b, n, rows[n])
<1>1. Len(rows) = Cardinality(Contract!Hits(m))
  BY DEF InRanks
<1>2. m \in Seq(EngineRule)
  BY DEF InRange
<1>3. IsFiniteSet(Contract!Hits(m)) /\ Cardinality(Contract!Hits(m)) \in Nat
  BY <1>2, HitsFinite, FS_CardinalityType, Zenon
<1>4. ASSUME NEW n \in 1..Len(rows)
      PROVE  Contract!IsRow("yara_string_matches", m, b, n, rows[n])
  <2>1. PICK h \in Contract!Hits(m) :
          /\ <<h, rows[n]>> \in Fits(m, b)
          /\ Cardinality({g \in Contract!Hits(m) : <<g, h>> \in Before(m)}) = n - 1
    BY DEF InRanks
  <2>2. {g \in Contract!Hits(m) : <<g, h>> \in Before(m)}
          = {g \in Contract!Hits(m) : Contract!Earlier(g, h)}
    BY DEF Before
  <2>3. Contract!Rank(m, h) = n
    <3>1. Cardinality({g \in Contract!Hits(m) : Contract!Earlier(g, h)}) = n - 1
      BY <2>1, <2>2, Zenon
    <3>2. Contract!Rank(m, h) = Cardinality({g \in Contract!Hits(m) : Contract!Earlier(g, h)}) + 1
      BY SameCardinality, Zenon DEF Contract!Rank
    <3>3. n \in Nat
      BY <1>1, <1>3
    <3> HIDE DEF Contract!Rank
    <3> QED
      BY <3>1, <3>2, <3>3
  <2> QED
    BY <2>1, <2>3, Zenon DEF Fits, Contract!IsRow
<1>5. Contract!RowCount("yara_string_matches", m) = Cardinality(Contract!Hits(m))
  BY SameCardinality DEF Contract!RowCount
<1> QED
  BY <1>1, <1>4, <1>5

-----------------------------------------------------------------------------
(* The result of a call.                                                   *)

\* rows are what a producer may hold for the call r: all of the result, in
\* values the columns can hold, and hits that are where they say they are.
Sound(r, rows) ==
  /\ Contract!IsWhole(r, rows)
  /\ rows \in Seq(RowType(r.fn))
  /\ BatchOf(r.fn, rows) = rows
  /\ r.fn = "yara_string_matches" =>
       \A n \in DOMAIN rows : r.data \in Data /\ rows[n] \in PlacedHit(Bounded(r.data))

\* The columns that are built are those that were announced.
LEMMA ColumnsAccepted ==
  ASSUME NEW f \in TableFns
  PROVE  Accepts(OutputSchema(f), BuiltColumns(f))
<1>1. CASE f = "yara_scan"
  <2>1. ListVarcharType = ListVarcharBuilder
    BY DEF ListVarcharType, ListVarcharBuilder
  <2> QED
    BY <1>1, <2>1 DEF Accepts, OutputSchema, ScanSchema, BuiltColumns, ScanColumns, Field
<1>2. CASE f = "yara_string_matches"
  BY <1>2 DEF Accepts, OutputSchema, StringMatchesSchema, BuiltColumns,
              StringMatchesColumns, Field
<1>3. CASE f = "yara_modules"
  BY <1>3 DEF Accepts, OutputSchema, ModulesSchema, BuiltColumns, ModulesColumns, Field
<1> QED
  BY <1>1, <1>2, <1>3 DEF TableFns, ScanTables

\* No rows are all of the result of a scan that has nothing to scan, or failed.
LEMMA EmptyIsSound ==
  ASSUME NEW r \in Requests, r.fn \in ScanTables, ~Contract!Invalid(r),
         Contract!Scanned(r) => Contract!View(r.data) \in Fallible
  PROVE  Sound(r, <<>>)
<1>1. Contract!IsPartial(r, <<>>)
  BY DEF Contract!IsPartial
<1>2. r.fn # "yara_modules"
  BY DEF ScanTables
<1>3. Contract!IsWhole(r, <<>>)
  BY <1>1, <1>2 DEF Contract!IsWhole
<1>4. BatchOf(r.fn, <<>>) = <<>>
  BY DEF BatchOf
<1> QED
  BY <1>3, <1>4 DEF Sound

\* What the scan of a call gives is all of its result.
LEMMA ScanIsSound ==
  ASSUME NEW r \in Requests, Contract!Scanned(r),
         NEW rows \in ScanRows(r.fn, CompileRules(r.rules), ConstDataBytes(r))
  PROVE  Sound(r, rows)
<1> DEFINE d == r.data
           b == Bounded(d)
           m == Engine[<<r.rules, b>>]
<1>1. /\ r.fn \in ScanTables /\ r.rules \in Compilable /\ CompileRules(r.rules) = r.rules
      /\ d \in Data /\ ConstDataBytes(r) = d /\ ~Contract!Invalid(r)
  BY RequestFacts, Zenon DEF Contract!Scanned, Contract!Invalid
<1>2. b \in Seq(Byte) /\ b \in Data /\ Contract!View(d) = b /\ Len(b) <= MaxDataLen
  BY <1>1, BoundedFacts
<1>3. m \in Seq(EngineRule) /\ Contract!Report(r) = m
  <2>1. m \in Seq(EngineRule)
    BY <1>1, ReportFacts, Zenon
  <2>2. Contract!Report(r) = m
    BY <1>2, ZenonT(60) DEF Contract!Report
  <2> QED
    BY <2>1, <2>2, Zenon
<1>4. m \in InRange(b)
  BY <1>1, <1>2, <1>3, RangeAssumption DEF InRange
<1>5. \A x \in ScanResults(r.rules, b) : x = m \/ (x = Error /\ b \in Fallible)
  BY DEF ScanResults
<1>6. Error # m
  BY <1>3, MarkerAssumption
<1>7. CASE rows = <<>> /\ b \in Fallible
  BY <1>1, <1>2, <1>7, EmptyIsSound
<1>8. CASE r.fn = "yara_scan" /\ rows = RuleMatches(m)
  <2>1. Len(m) \in Nat /\ DOMAIN m = 1..Len(m) /\ \A n \in 1..Len(m) : m[n] \in EngineRule
    BY <1>3, SMTT(30)
  <2>2. \A n \in 1..Len(m) :
          rows[n] = [rule |-> m[n].identifier, namespace |-> m[n].namespace,
                     tags |-> m[n].tags]
    BY <1>8, <2>1 DEF RuleMatches
  <2>3. ASSUME NEW n \in 1..Len(m) PROVE rows[n] \in ScanRow
    <3> HIDE DEF m
    <3>1. /\ m[n].identifier \in RuleName
          /\ m[n].namespace \in Namespace /\ m[n].tags \in Seq(Tag)
      BY <2>1 DEF EngineRule
    <3>2. rows[n] = [rule |-> m[n].identifier, namespace |-> m[n].namespace,
                     tags |-> m[n].tags]
      BY <2>2, SMTT(30)
    <3> QED
      BY <3>1, <3>2 DEF ScanRow
  <2>4. rows \in [1..Len(m) -> ScanRow]
    <3>1. rows = [n \in 1..Len(m) |-> rows[n]]
      BY <1>8, <2>1 DEF RuleMatches
    <3> HIDE DEF m
    <3> QED
      BY <2>3, <3>1, Zenon
  <2>5. rows \in Seq(ScanRow) /\ Len(rows) = Len(m) /\ DOMAIN rows = 1..Len(m)
    <3> HIDE DEF m
    <3> QED
      BY <2>1, <2>4, SeqDef
  <2>6. \A n \in DOMAIN rows : Contract!IsRow(r.fn, m, b, n, rows[n])
    <3> HIDE DEF m
    <3> QED
      BY <1>8, <2>1, <2>2, <2>5 DEF Contract!IsRow
  <2>7. Len(rows) = Contract!RowCount(r.fn, m)
    BY <1>8, <2>5 DEF Contract!RowCount
  <2>8. Contract!IsWhole(r, rows)
    <3> HIDE DEF m, b
    <3> QED
      BY <1>1, <1>2, <1>3, <1>8, <2>6, <2>7 DEF Contract!IsWhole, Contract!IsPartial
  <2> QED
    BY <1>8, <2>5, <2>8 DEF Sound, RowType, BatchOf
<1>9. CASE r.fn = "yara_string_matches"
           /\ rows = FlattenSeq([i \in DOMAIN m |-> RuleHits(m[i], b)])
  <2>1. /\ rows \in Seq(PlacedHit(b))
        /\ InRanks(rows, Contract!Hits(m), Before(m), Fits(m, b))
    BY <1>2, <1>4, <1>9, ReportRows
  <2>2. /\ Len(rows) = Contract!RowCount(r.fn, m)
        /\ \A n \in 1..Len(rows) : Contract!IsRow(r.fn, m, b, n, rows[n])
    <3> HIDE DEF m, b
    <3> QED
      BY <1>2, <1>4, <1>9, <2>1, RanksAreRows
  <2>3. DOMAIN rows = 1..Len(rows) /\ \A n \in DOMAIN rows : rows[n] \in PlacedHit(b)
    <3> HIDE DEF b
    <3> QED
      BY <2>1
  <2>4. Contract!IsWhole(r, rows)
    <3> HIDE DEF m, b
    <3> QED
      BY <1>1, <1>2, <1>3, <1>9, <2>2, <2>3 DEF Contract!IsWhole, Contract!IsPartial
  <2>5. rows \in Seq(HitRow)
    <3>1. PlacedHit(b) \subseteq HitRow
      BY DEF PlacedHit, HitRow
    <3> HIDE DEF b
    <3> QED
      BY <2>1, <3>1
  <2>6. BatchOf(r.fn, rows) = rows
    <3>1. ASSUME NEW n \in DOMAIN rows
          PROVE  [rows[n] EXCEPT !.offset = AsI64(@)] = rows[n]
      <4>1. /\ rows[n] \in [rule : RuleName, identifier : PatternName, offset : Nat,
                            matched : Rendered]
            /\ rows[n].offset + Len(rows[n].matched.of) <= Len(b)
        <5> HIDE DEF b
        <5> QED
          BY <2>3 DEF PlacedHit
      <4>2. rows[n].offset \in Nat /\ Len(rows[n].matched.of) \in Nat
        <5> HIDE DEF b
        <5> QED
          BY <4>1 DEF Rendered
      <4>3. rows[n].offset < OffsetLimit
        <5> HIDE DEF b
        <5> QED
          BY <1>2, <4>1, <4>2, EngineAssumption, OffsetAssumption
      <4>4. AsI64(rows[n].offset) = rows[n].offset
        BY <4>2, <4>3, OffsetAssumption DEF AsI64
      <4> QED
        BY <4>1, <4>4
    <3>2. rows = [n \in DOMAIN rows |-> rows[n]]
      <4> HIDE DEF b
      <4> QED
        BY <2>1
    <3>3. BatchOf(r.fn, rows) = [n \in DOMAIN rows |-> [rows[n] EXCEPT !.offset = AsI64(@)]]
      BY <1>9 DEF BatchOf
    <3> QED
      BY <3>1, <3>2, <3>3
  <2> QED
    <3> HIDE DEF m
    <3> QED
      BY <1>1, <1>9, <2>3, <2>4, <2>5, <2>6 DEF Sound, RowType
<1>10. \/ rows = <<>> /\ b \in Fallible
       \/ r.fn = "yara_scan" /\ rows = RuleMatches(m)
       \/ r.fn = "yara_string_matches"
          /\ rows = FlattenSeq([i \in DOMAIN m |-> RuleHits(m[i], b)])
  <2>1. CASE r.fn = "yara_scan"
    <3>1. rows \in ScanRules(r.rules, d)
      BY <1>1, <2>1 DEF ScanRows
    <3>2. PICK x \in ScanResults(r.rules, b) :
            rows = IF x = Error THEN <<>> ELSE RuleMatches(x)
      BY <3>1 DEF ScanRules
    <3> HIDE DEF m, b
    <3> QED
      BY <1>5, <1>6, <2>1, <3>2
  <2>2. CASE r.fn = "yara_string_matches"
    <3>1. rows \in ScanStrings(r.rules, d)
      BY <1>1, <2>2 DEF ScanRows
    <3>2. PICK x \in ScanResults(r.rules, b) :
            rows = IF x = Error THEN <<>>
                   ELSE FlattenSeq([i \in DOMAIN x |-> RuleHits(x[i], b)])
      BY <3>1 DEF ScanStrings
    <3> HIDE DEF m, b
    <3> QED
      BY <1>5, <1>6, <2>2, <3>2
  <2> QED
    BY <1>1, <2>1, <2>2 DEF ScanTables
<1> HIDE DEF m, b
<1> QED
  BY <1>7, <1>8, <1>9, <1>10

\* The modules are those of the features, each once.
LEMMA ModulesAreSound ==
  ASSUME NEW r \in Requests, r.fn = "yara_modules"
  PROVE  Sound(r, MODULES)
<1>1. Len(MODULES) = 7 /\ DOMAIN MODULES = 1..7
  BY DEF MODULES
<1>2. Cardinality(Features) = 7
  <2>1. \A n, k \in 1..7 : MODULES[n] = MODULES[k] => n = k
    BY DEF MODULES
  <2>2. MODULES \in [1..7 -> Features] /\ \A t \in Features : \E n \in 1..7 : MODULES[n] = t
    BY DEF MODULES, Features
  <2>3. MODULES \in Bijection(1..7, Features)
    BY <2>1, <2>2, Fun_IsBij
  <2>4. IsFiniteSet(1..7) /\ Cardinality(1..7) = 7
    <3>1. \A n \in Nat : IsFiniteSet(1..n) /\ Cardinality(1..n) = n
      BY FS_Interval
    <3> QED
      BY <3>1
  <2> QED
    BY <2>3, <2>4, FS_Bijection DEF ExistsBijection
<1>3. Contract!IsPartial(r, MODULES)
  <2>1. \A n \in 1..7 : MODULES[n] \in Features
    BY DEF MODULES, Features
  <2>2. \A n, k \in 1..7 : n # k => MODULES[n] # MODULES[k]
    BY DEF MODULES
  <2> QED
    BY <1>1, <2>1, <2>2 DEF Contract!IsPartial, Contract!Features, Features
<1>4. Contract!IsWhole(r, MODULES)
  BY <1>1, <1>2, <1>3, SameCardinality
     DEF Contract!IsWhole, Contract!Invalid, Contract!Scanned, Contract!ScanTables,
         Contract!Features, Features
<1>5. MODULES \in Seq(Features)
  <2>1. \A n \in 1..7 : MODULES[n] \in Features
    BY DEF MODULES, Features
  <2>2. MODULES = [n \in 1..7 |-> MODULES[n]]
    BY DEF MODULES
  <2>3. MODULES \in [1..7 -> Features]
    BY <2>1, <2>2
  <2> QED
    BY <2>3, SeqDef
<1> QED
  BY <1>4, <1>5 DEF Sound, RowType, BatchOf

-----------------------------------------------------------------------------
(* The inductive invariant.                                                *)

\* A producer holds all of the result of its call and hands it out once, and a
\* call has failed only on rules that do not compile.
Inv ==
  /\ TypeOK
  /\ phase \in {"open", "ended"} =>
       /\ Sound(request, producer.rows)
       /\ received = IF producer.done THEN producer.rows ELSE <<>>
  /\ phase = "ended" => producer.done
  /\ phase = "failed" => Contract!Invalid(request)

LEMMA InvInit == Init => Inv
BY DEF Init, Inv, TypeOK

\* A producer that is opened with all of the result of the call.
LEMMA OpenPreserves ==
  ASSUME Inv, phase = "bound", NEW rows, Sound(request, rows), Open(rows)
  PROVE  Inv'
<1>1. /\ phase' = "open" /\ request' = request /\ schema' = schema
      /\ received' = received /\ producer'.rows = rows /\ producer'.done = FALSE
  BY DEF Open
<1>2. producer'.done \in BOOLEAN
  BY <1>1
<1>3. /\ request \in Requests /\ schema = OutputSchema(request.fn) /\ received = <<>>
      /\ received \in Seq(RowType(request.fn))
  BY DEF Inv, TypeOK
<1>4. rows \in Seq(RowType(request.fn))
  BY DEF Sound
<1>5. TypeOK'
  BY <1>1, <1>2, <1>3, <1>4 DEF TypeOK
<1>6. Sound(request, producer.rows)'
  BY <1>1 DEF Sound
<1> QED
  BY <1>1, <1>3, <1>5, <1>6 DEF Inv

\* Every way to open a call opens it with all of its result.
LEMMA OpensSound ==
  ASSUME Inv, OpenNoRules \/ OpenNoData \/ OpenScan \/ OpenModules
  PROVE  /\ phase = "bound" /\ ~Contract!Invalid(request)
         /\ \E rows : Sound(request, rows) /\ Open(rows)
<1>1. phase = "bound" => request \in Requests
  BY DEF Inv, TypeOK
<1>2. CASE OpenNoRules
  <2>1. phase = "bound" /\ request.fn \in ScanTables /\ request.rules = Null /\ Open(<<>>)
    BY <1>2 DEF OpenNoRules
  <2>2. ~Contract!Invalid(request) /\ ~Contract!Scanned(request)
    BY <1>1, <2>1, RequestFacts
  <2> QED
    BY <1>1, <2>1, <2>2, EmptyIsSound
<1>3. CASE OpenNoData
  <2>1. /\ phase = "bound" /\ request.fn \in ScanTables
        /\ CompileRules(request.rules) # Error
        /\ ConstDataBytes(request) = Null /\ Open(<<>>)
    BY <1>3 DEF OpenNoData
  <2>2. ~Contract!Invalid(request) /\ ~Contract!Scanned(request)
    BY <1>1, <2>1, RequestFacts
  <2> QED
    BY <1>1, <2>1, <2>2, EmptyIsSound
<1>4. CASE OpenScan
  <2>1. /\ phase = "bound" /\ request.fn \in ScanTables
        /\ request.rules # Null /\ CompileRules(request.rules) # Error
        /\ ConstDataBytes(request) # Null
    BY <1>4 DEF OpenScan
  <2>2. PICK rows \in ScanRows(request.fn, CompileRules(request.rules),
                               ConstDataBytes(request)) : Open(rows)
    BY <1>4 DEF OpenScan
  <2>3. ~Contract!Invalid(request) /\ Contract!Scanned(request)
    BY <1>1, <2>1, RequestFacts
  <2> QED
    BY <1>1, <2>1, <2>2, <2>3, ScanIsSound
<1>5. CASE OpenModules
  <2>1. phase = "bound" /\ request.fn = "yara_modules" /\ Open(MODULES)
    BY <1>5 DEF OpenModules
  <2>2. ~Contract!Invalid(request)
    BY <2>1 DEF Contract!Invalid, Contract!ScanTables
  <2> QED
    BY <1>1, <2>1, <2>2, ModulesAreSound
<1> QED
  BY <1>2, <1>3, <1>4, <1>5

\* The first pull hands out the whole result; it never fails.
LEMMA NextBatchIs ==
  ASSUME Inv, NextBatch
  PROVE  /\ phase = "open" /\ phase' = "open" /\ request' = request /\ schema' = schema
         /\ request \in Requests /\ received = <<>> /\ received' = producer.rows
         /\ Sound(request, producer.rows) /\ producer.rows \in Seq(RowType(request.fn))
         /\ producer'.rows = producer.rows /\ producer'.done = TRUE
<1>1. /\ phase = "open" /\ ~producer.done
      /\ producer' = [producer EXCEPT !.done = TRUE]
      /\ request' = request /\ schema' = schema
  BY DEF NextBatch
<1>2. /\ request \in Requests /\ schema = OutputSchema(request.fn)
      /\ producer.rows \in Seq(RowType(request.fn))
      /\ Sound(request, producer.rows) /\ received = <<>>
  BY <1>1 DEF Inv, TypeOK
<1>3. Accepts(schema, BuiltColumns(request.fn))
  BY <1>2, RequestFacts, ColumnsAccepted
<1>4. received' = received \o BatchOf(request.fn, producer.rows) /\ phase' = phase
  BY <1>3 DEF NextBatch
<1>5. received' = producer.rows
  <2>1. BatchOf(request.fn, producer.rows) = producer.rows
    BY <1>2 DEF Sound
  <2> QED
    BY <1>2, <1>4, <2>1, ConcatEmptySeq
<1> QED
  BY <1>1, <1>2, <1>4, <1>5

LEMMA InvNext == Inv /\ [Next]_vars => Inv'
<1> SUFFICES ASSUME Inv, [Next]_vars PROVE Inv'
  OBVIOUS
<1>1. ASSUME NEW r \in Requests, Bind(r) PROVE Inv'
  <2>1. /\ phase = "idle" /\ phase' = "bound" /\ request' = r
        /\ schema' = OutputSchema(r.fn) /\ producer' = producer /\ received' = received
    BY <1>1 DEF Bind
  <2>2. producer = Null /\ received = <<>>
    BY <2>1 DEF Inv, TypeOK
  <2>3. TypeOK'
    BY <2>1, <2>2 DEF TypeOK
  <2> QED
    BY <2>1, <2>3 DEF Inv
<1>2. CASE OpenNoRules \/ OpenNoData \/ OpenScan \/ OpenModules
  BY <1>2, OpensSound, OpenPreserves
<1>3. CASE OpenInvalid
  <2>1. /\ phase = "bound" /\ phase' = "failed" /\ request' = request /\ schema' = schema
        /\ producer' = producer /\ received' = received
        /\ request.fn \in ScanTables /\ request.rules # Null
        /\ CompileRules(request.rules) = Error
    BY <1>3 DEF OpenInvalid
  <2>2. /\ request \in Requests /\ schema = OutputSchema(request.fn) /\ producer = Null
        /\ received = <<>> /\ received \in Seq(RowType(request.fn))
    BY <2>1 DEF Inv, TypeOK
  <2>3. TypeOK'
    BY <2>1, <2>2 DEF TypeOK
  <2>4. Contract!Invalid(request)
    BY <2>1, <2>2, RequestFacts
  <2>5. Contract!Invalid(request)'
    BY <2>1, <2>4 DEF Contract!Invalid
  <2> QED
    BY <2>1, <2>3, <2>5 DEF Inv
<1>4. CASE NextBatch
  <2>1. /\ phase = "open" /\ phase' = "open" /\ request' = request /\ schema' = schema
        /\ request \in Requests /\ received' = producer.rows
        /\ Sound(request, producer.rows) /\ producer.rows \in Seq(RowType(request.fn))
        /\ producer'.rows = producer.rows /\ producer'.done = TRUE
    BY <1>4, NextBatchIs
  <2>2. producer'.done \in BOOLEAN /\ producer'.done
    BY <2>1
  <2>3. schema = OutputSchema(request.fn)
    BY <2>1 DEF Inv, TypeOK
  <2>4. TypeOK'
    BY <2>1, <2>2, <2>3 DEF TypeOK
  <2>5. Sound(request, producer.rows)'
    BY <2>1 DEF Sound
  <2> QED
    BY <2>1, <2>2, <2>4, <2>5 DEF Inv
<1>5. CASE EndOfStream
  <2>1. /\ phase = "open" /\ producer.done /\ phase' = "ended" /\ request' = request
        /\ schema' = schema /\ producer' = producer /\ received' = received
    BY <1>5 DEF EndOfStream
  <2>2. TypeOK'
    BY <2>1 DEF Inv, TypeOK
  <2>3. Sound(request, producer.rows)' /\ received' = producer'.rows
    BY <2>1 DEF Inv, Sound
  <2> QED
    BY <2>1, <2>2, <2>3 DEF Inv
<1>6. CASE Leave
  BY <1>6 DEF Leave, Inv, TypeOK
<1>7. CASE UNCHANGED vars
  <2>1. TypeOK'
    BY <1>7 DEF Inv, TypeOK, vars
  <2>2. phase \in {"open", "ended"} => Sound(request, producer.rows)'
    BY <1>7 DEF Inv, Sound, vars
  <2>3. phase = "failed" => Contract!Invalid(request)'
    BY <1>7 DEF Inv, Contract!Invalid, vars
  <2> QED
    BY <1>7, <2>1, <2>2, <2>3 DEF Inv, vars
<1> QED
  BY <1>1, <1>2, <1>3, <1>4, <1>5, <1>6, <1>7 DEF Next, Work

LEMMA Invariance == Spec => []Inv
BY InvInit, InvNext, PTL DEF Spec

-----------------------------------------------------------------------------
(* The theorems.                                                           *)

\* Every variable always holds a value of its kind: a caller has no row of
\* another function's, and there is a producer as long as a call is open.
THEOREM TypeCorrect == Spec => []TypeOK
<1>1. Inv => TypeOK
  BY DEF Inv
<1> QED
  BY <1>1, Invariance, PTL

\* A hit that was placed in the bytes that were scanned is where it says it is
\* in the data as the caller sent it.
LEMMA PlacedInData ==
  ASSUME NEW d \in Data, NEW hit \in PlacedHit(Bounded(d))
  PROVE  LET end == hit.offset + Len(hit.matched.of)
         IN  /\ hit.offset >= 0 /\ end <= Len(d)
             /\ SubSeq(d, hit.offset + 1, end) = hit.matched.of
<1> DEFINE b == Bounded(d)
           of == hit.matched.of
           end == hit.offset + Len(of)
<1>1. /\ hit \in [rule : RuleName, identifier : PatternName, offset : Nat,
                  matched : Rendered]
      /\ end <= Len(b) /\ SubSeq(b, hit.offset + 1, end) = of
  BY DEF PlacedHit
<1>2. hit.offset \in Nat /\ of \in Seq(Byte) /\ Len(of) \in Nat /\ end \in Nat
  BY <1>1 DEF Rendered
<1>3. /\ d \in Seq(Byte) /\ b \in Seq(Byte) /\ Len(b) <= Len(d)
      /\ \A i \in 1..Len(b) : b[i] = d[i]
  BY BoundedFacts
<1> HIDE DEF b, of, end
<1>4. Len(b) \in Nat /\ Len(d) \in Nat /\ hit.offset <= end
  BY <1>2, <1>3 DEF end
<1>5. end <= Len(d)
  BY <1>1, <1>2, <1>3, <1>4
<1>6. SubSeq(d, hit.offset + 1, end) = SubSeq(b, hit.offset + 1, end)
  <2>1. /\ Len(SubSeq(d, hit.offset + 1, end)) = end - hit.offset
        /\ SubSeq(d, hit.offset + 1, end) \in Seq(Byte)
        /\ \A n \in 1..(end - hit.offset) :
             SubSeq(d, hit.offset + 1, end)[n] = d[hit.offset + n]
    <3>1. d \in Seq(Byte) /\ hit.offset \in Nat /\ end \in Nat
      BY <1>2, <1>3, Zenon
    <3> QED
      BY <3>1, <1>4, <1>5, SliceFacts, Zenon
  <2>2. /\ Len(SubSeq(b, hit.offset + 1, end)) = end - hit.offset
        /\ SubSeq(b, hit.offset + 1, end) \in Seq(Byte)
        /\ \A n \in 1..(end - hit.offset) :
             SubSeq(b, hit.offset + 1, end)[n] = b[hit.offset + n]
    <3>1. b \in Seq(Byte) /\ hit.offset \in Nat /\ end \in Nat /\ end <= Len(b)
      BY <1>1, <1>2, <1>3, Zenon
    <3> QED
      BY <3>1, <1>4, SliceFacts, Zenon
  <2>3. ASSUME NEW n \in 1..(end - hit.offset)
        PROVE  d[hit.offset + n] = b[hit.offset + n]
    <3>1. hit.offset + n \in 1..Len(b)
      BY <1>1, <1>2, <1>4
    <3> QED
      BY <1>3, <3>1
  <2> QED
    BY <2>1, <2>2, <2>3, SeqEqual, SMTT(30)
<1>7. /\ hit.offset >= 0 /\ end <= Len(d)
      /\ SubSeq(d, hit.offset + 1, end) = of
  <2>1. hit.offset >= 0
    BY <1>2
  <2> QED
    BY <1>1, <1>5, <1>6, <2>1, Zenon
<1> QED
  BY <1>7, Zenon DEF end, of

\* README.md:68 and 73: a hit is where it says it is, in data of any length,
\* scanned in full or not, with any engine that reports ranges of what it is
\* given.
THEOREM HitsAreData == Spec => []MatchedIsData
<1>1. Inv => MatchedIsData
  <2> SUFFICES ASSUME Inv, phase # "idle", request.fn = "yara_string_matches",
                      NEW n \in DOMAIN received
               PROVE  LET hit == received[n]
                          end == hit.offset + Len(hit.matched.of)
                      IN  /\ hit.offset >= 0 /\ end <= Len(request.data)
                          /\ SubSeq(request.data, hit.offset + 1, end) = hit.matched.of
    BY DEF MatchedIsData
  <2>1. received # <<>>
    OBVIOUS
  <2>2. phase \in {"open", "ended"} /\ received = producer.rows
    BY <2>1 DEF Inv, TypeOK
  <2>3. request.data \in Data /\ received[n] \in PlacedHit(Bounded(request.data))
    BY <2>2 DEF Inv, Sound
  <2> QED
    BY <2>3, PlacedInData
<1> QED
  BY <1>1, Invariance, PTL

\* Seen by its caller, each step is one of the contract, or nothing.
LEMMA StepRefines == Inv /\ [Next]_vars => [Contract!ContractNext]_(Contract!contractVars)
<1> SUFFICES ASSUME Inv, [Next]_vars
             PROVE  [Contract!ContractNext]_(Contract!contractVars)
  OBVIOUS
<1>1. ASSUME NEW r \in Requests, Bind(r) PROVE Contract!Ask
  BY <1>1 DEF Bind, Contract!Ask, Inv, TypeOK
<1>2. CASE OpenNoRules \/ OpenNoData \/ OpenScan \/ OpenModules
  BY <1>2, OpensSound DEF Open, Contract!contractVars
<1>3. CASE OpenInvalid
  <2>1. /\ phase = "bound" /\ phase' = "failed" /\ request' = request
        /\ received' = received
        /\ request.fn \in ScanTables /\ request.rules # Null
        /\ CompileRules(request.rules) = Error
    BY <1>3 DEF OpenInvalid
  <2>2. request \in Requests /\ received = <<>>
    BY <2>1 DEF Inv, TypeOK
  <2>3. Contract!Invalid(request)
    BY <2>1, <2>2, RequestFacts
  <2> QED
    BY <2>1, <2>2, <2>3 DEF Contract!Fail, Contract!ContractNext
<1>4. CASE NextBatch
  <2>1. /\ phase = "open" /\ phase' = "open" /\ request' = request
        /\ received = <<>> /\ received' = producer.rows
        /\ Sound(request, producer.rows) /\ producer.rows \in Seq(RowType(request.fn))
    BY <1>4, NextBatchIs
  <2>2. ~Contract!Invalid(request) /\ Contract!IsPartial(request, received')
    BY <2>1 DEF Sound, Contract!IsWhole
  <2>3. Contract!Extends(received', received)
    BY <2>1 DEF Contract!Extends
  <2> QED
    BY <2>1, <2>2, <2>3 DEF Contract!Deliver, Contract!ContractNext
<1>5. CASE EndOfStream
  <2>1. /\ phase = "open" /\ phase' = "ended" /\ request' = request
        /\ received' = received /\ producer.done
    BY <1>5 DEF EndOfStream
  <2>2. Contract!IsWhole(request, received)
    BY <2>1 DEF Inv, Sound
  <2> QED
    BY <2>1, <2>2 DEF Contract!End, Contract!ContractNext
<1>6. CASE Leave
  BY <1>6 DEF Leave, Contract!Leave, Contract!ContractNext
<1>7. CASE UNCHANGED vars
  BY <1>7 DEF vars, Contract!contractVars
<1> QED
  BY <1>1, <1>2, <1>3, <1>4, <1>5, <1>6, <1>7
     DEF Next, Work, Contract!ContractNext

\* README.md:62-90: for every engine, every set of requests and every bound on
\* the data, what a caller sees of a table function is a behaviour of the
\* contract: the rows of the result in order and each once, or a failure before
\* the first of them.
THEOREM Implementation == Spec => ImplementsContract
<1>1. Init => Contract!ContractInit
  BY DEF Init, Contract!ContractInit
<1> QED
  BY <1>1, StepRefines, Invariance, PTL
     DEF Spec, ImplementsContract, Contract!ContractSafety

-----------------------------------------------------------------------------
(* How far the findings go.                                                *)

\* The call is made with data that the scanner is given as a whole.
WithinBound ==
  phase # "idle" /\ request.data # Null /\ Len(request.data) <= MaxDataLen

\* A caller who came to the end of yara_scan has the rules of the report on the
\* bytes that were scanned, unless the scanner failed on them.
LEMMA EndedIsReport ==
  ASSUME Inv, phase = "ended", request.fn = "yara_scan",
         request.rules \in Compilable, ConstDataBytes(request) # Null,
         Bounded(request.data) \notin Fallible
  PROVE  received = RuleMatches(Engine[<<request.rules, Bounded(request.data)>>])
<1> DEFINE b == Bounded(request.data)
           m == Engine[<<request.rules, b>>]
<1>1. request \in Requests /\ received \in Seq(ScanRow)
  BY DEF Inv, TypeOK, RowType
<1>2. Contract!Scanned(request) /\ request.fn # "yara_modules"
  BY <1>1, RequestFacts DEF ScanTables
<1>3. request.data \in Data /\ b = Contract!View(request.data)
  BY <1>1, <1>2, RequestFacts, BoundedFacts DEF Contract!Scanned
<1>4. m \in Seq(EngineRule) /\ Contract!Report(request) = m
  BY <1>3, ReportFacts DEF Contract!Report
<1>5. Contract!IsWhole(request, received)
  BY DEF Inv, Sound
<1>6. Len(received) = Len(m)
  <2>1. \/ Len(received) = Contract!RowCount(request.fn, m)
        \/ received = <<>> /\ b \in Fallible
    BY <1>2, <1>3, <1>4, <1>5, Zenon DEF Contract!IsWhole
  <2> QED
    BY <2>1 DEF Contract!RowCount
<1>7. received = <<>>
      \/ \A n \in DOMAIN received :
           Contract!IsRow("yara_scan", m, b, n, received[n])
  BY <1>2, <1>3, <1>4, <1>5, Zenon DEF Contract!IsWhole, Contract!IsPartial
<1>8. \A n \in 1..Len(m) :
        received[n] = [rule |-> m[n].identifier, namespace |-> m[n].namespace,
                       tags |-> m[n].tags]
  <2>1. DOMAIN received = 1..Len(m)
    BY <1>1, <1>6
  <2>2. CASE received = <<>>
    BY <2>1, <2>2
  <2>3. CASE \A n \in DOMAIN received :
               Contract!IsRow("yara_scan", m, b, n, received[n])
    BY <2>1, <2>3 DEF Contract!IsRow
  <2> QED
    BY <1>7, <2>2, <2>3
<1>9. DOMAIN m = 1..Len(m) /\ received = [n \in 1..Len(m) |-> received[n]]
  BY <1>1, <1>4, <1>6
<1> HIDE DEF b, m
<1>10. received = RuleMatches(m)
  BY <1>8, <1>9 DEF RuleMatches
<1> QED
  BY <1>10 DEF b, m

\* scanning.rs:39-40: for every engine and all data that is no longer than the
\* bound, a scan reports the rules that the data as a whole matches, in order and
\* each once: what is lost, is lost by truncation.
THEOREM ShortDataIsSafe == Spec => [](WithinBound => TruncationIsSafe)
<1>1. Inv /\ WithinBound => TruncationIsSafe
  <2> SUFFICES ASSUME Inv, WithinBound, phase = "ended", request.fn = "yara_scan",
                      request.rules \in Compilable, ConstDataBytes(request) # Null,
                      Bounded(request.data) \notin Fallible
               PROVE  received = RuleMatches(Engine[<<request.rules, request.data>>])
    BY DEF TruncationIsSafe
  <2>1. Bounded(request.data) = request.data
    <3>1. request \in Requests
      BY DEF Inv, TypeOK
    <3>2. request.data \in Data
      BY <3>1, RequestFacts DEF WithinBound
    <3>3. Len(request.data) \in Nat /\ MaxDataLen \in Nat
      BY <3>2, EngineAssumption
    <3> QED
      BY <3>3 DEF Bounded, WithinBound
  <2> QED
    BY <2>1, EndedIsReport
<1> QED
  BY <1>1, Invariance, PTL

\* README.md:87: a call that fails on NULL data fails for its rules, which are not
\* NULL and do not compile; no other call with a NULL operand fails, and none for
\* the batch that next_batch builds.
THEOREM NullFailsForItsRules ==
  Spec => [](\/ NullYieldsNoRows
             \/ /\ request.fn \in ScanTables /\ request.data = Null
                /\ request.rules \in Source \ Compilable)
<1>1. Inv => \/ NullYieldsNoRows
             \/ /\ request.fn \in ScanTables /\ request.data = Null
                /\ request.rules \in Source \ Compilable
  <2> SUFFICES ASSUME Inv, phase = "failed", request.data = Null \/ request.rules = Null
               PROVE  /\ request.fn \in ScanTables /\ request.data = Null
                      /\ request.rules \in Source \ Compilable
    BY DEF NullYieldsNoRows
  <2>1. request \in Requests /\ Contract!Invalid(request)
    BY DEF Inv, TypeOK
  <2>2. /\ request.fn \in ScanTables /\ request.rules # Null
        /\ request.rules \in Source /\ request.rules \notin Compilable
    BY <2>1, RequestFacts
  <2> QED
    BY <2>2
<1> QED
  BY <1>1, Invariance, PTL

-----------------------------------------------------------------------------
(* How long a stream is.                                                   *)

\* The steps that the worker has left in a call: to open it, to hand out the one
\* batch, and to end the stream.
PullsLeft ==
  CASE phase = "bound" -> 3
    [] phase = "open" -> IF producer.done THEN 1 ELSE 2
    [] OTHER -> 0

\* The worker does not give the same batch twice, nor open a call again.
StreamAdvances == [][Work => PullsLeft' < PullsLeft]_vars

\* scan.rs:144: whatever the rows of its result, empty ones included, a call takes
\* three steps of the worker at most: a caller who goes on pulling has not far to
\* go to the end of the stream.
THEOREM StreamAlwaysAdvances == Spec => StreamAdvances
<1>1. Inv /\ [Next]_vars => [Work => PullsLeft' < PullsLeft]_vars
  <2> SUFFICES ASSUME Inv, Work PROVE PullsLeft' < PullsLeft
    OBVIOUS
  <2>1. CASE OpenNoRules \/ OpenNoData \/ OpenScan \/ OpenModules
    <3>1. PICK rows : phase = "bound" /\ Open(rows)
      BY <2>1, OpensSound
    <3>2. phase' = "open" /\ producer'.done = FALSE
      BY <3>1 DEF Open
    <3> QED
      BY <3>1, <3>2 DEF PullsLeft
  <2>2. CASE OpenInvalid
    BY <2>2 DEF OpenInvalid, PullsLeft
  <2>3. CASE NextBatch
    <3>1. phase = "open" /\ ~producer.done
      BY <2>3 DEF NextBatch
    <3>2. phase' = "open" /\ producer'.done = TRUE
      BY <2>3, NextBatchIs
    <3> QED
      BY <3>1, <3>2 DEF PullsLeft
  <2>4. CASE EndOfStream
    <3>1. phase = "open" /\ producer.done /\ phase' = "ended"
      BY <2>4 DEF EndOfStream
    <3> QED
      BY <3>1 DEF PullsLeft
  <2> QED
    BY <2>1, <2>2, <2>3, <2>4 DEF Work
<1> QED
  BY <1>1, Invariance, PTL DEF Spec, StreamAdvances

=============================================================================
