--------------------------- MODULE KeywordsProofs ---------------------------
(***************************************************************************)
(* keywords_json encodes every keyword list as a JSON array of its         *)
(* keywords.  Each of the three folds, over the characters of the list,    *)
(* over its pieces and over the text that is read back, is followed prefix *)
(* by prefix.                                                              *)
(***************************************************************************)
EXTENDS Keywords, Flattening

-----------------------------------------------------------------------------
(* What trim() and the escapes make of a piece, and the folds by prefix.   *)

Piece == Seq(Char)

\* The characters of the JSON text, and what a reader of it can be.
Symbol == Char \cup {"[", "]"}
Readers == [at : {"start", "open", "comma", "string", "escape", "value", "end", "invalid"},
            text : Seq(Symbol), list : Seq(Seq(Symbol))]

\* trim() leaves nothing of a blank piece, and of another one what is without blanks
\* around it.
LEMMA TrimIs ==
  ASSUME NEW s \in Piece
  PROVE  /\ Trim(s) \in Piece
         /\ Blank(s) => Trim(s) = <<>>
         /\ ~Blank(s) => IsTrimmed(Trim(s), s)
<1> DEFINE inked == {i \in DOMAIN s : s[i] # "space"}
           a == Min(inked)
           b == Max(inked)
<1>1. CASE Blank(s)
  BY <1>1 DEF Trim, Piece
<1>2. CASE ~Blank(s)
  <2>1. /\ s \in Seq(Char) /\ Len(s) \in Nat /\ DOMAIN s = 1..Len(s)
        /\ inked \in SUBSET (1..Len(s)) /\ inked # {}
    BY <1>2 DEF Blank, Piece
  <2>2. /\ a \in inked /\ b \in inked
        /\ \A y \in inked : a <= y /\ y <= b
    <3> HIDE DEF inked
    <3> QED
      BY <2>1, FirstAndLast
  <2>3. /\ a \in 1..Len(s) /\ b \in 1..Len(s) /\ a <= b
        /\ s[a] # "space" /\ s[b] # "space"
        /\ \A i \in 1..Len(s) : i < a \/ i > b => s[i] = "space"
    <3> HIDE DEF a, b
    <3> QED
      BY <2>1, <2>2
  <2>4. Trim(s) = SubSeq(s, a, b)
    BY <1>2, Zenon DEF Trim
  <2> HIDE DEF a, b, inked
  <2> DEFINE k == SubSeq(s, a, b)
  <2>5. /\ k \in Seq(Char) /\ Len(k) = b - a + 1
        /\ \A i \in 1..Len(k) : k[i] = s[a + i - 1]
    BY <2>1, <2>3
  <2>6. k # <<>> /\ k[1] # "space" /\ k[Len(k)] # "space"
    <3>1. 1 \in 1..Len(k) /\ Len(k) \in 1..Len(k) /\ a + 1 - 1 = a /\ a + Len(k) - 1 = b
      BY <2>3, <2>5
    <3>2. k[1] = s[a] /\ k[Len(k)] = s[b]
      BY <2>5, <3>1, Zenon
    <3> HIDE DEF k
    <3> QED
      BY <2>3, <2>5, <3>1, <3>2
  <2>7. /\ a - 1 \in 0..(Len(s) - Len(k))
        /\ (a - 1) + 1 = a /\ (a - 1) + Len(k) = b /\ (a - 1) + Len(k) + 1 = b + 1
    BY <2>1, <2>3, <2>5
  <2>8. Blank(SubSeq(s, 1, a - 1)) /\ Blank(SubSeq(s, b + 1, Len(s)))
    <3> HIDE DEF a, b
    <3>1. \A i \in 1..(a - 1) : i \in 1..Len(s) /\ s[i] = "space"
      BY <2>1, <2>3
    <3>2. \A i \in (b + 1)..Len(s) : i \in 1..Len(s) /\ s[i] = "space"
      BY <2>1, <2>3
    <3>3. Blank(SubSeq(s, 1, a - 1))
      BY <2>1, <2>3, <3>1, SMTT(30) DEF Blank
    <3>4. Blank(SubSeq(s, b + 1, Len(s)))
      BY <2>1, <2>3, <3>2, SMTT(30) DEF Blank
    <3> QED
      BY <3>3, <3>4
  <2>9. IsTrimmed(k, s)
    <3> HIDE DEF k
    <3>1. k = SubSeq(s, (a - 1) + 1, (a - 1) + Len(k))
      BY <2>7 DEF k
    <3>2. Blank(SubSeq(s, (a - 1) + Len(k) + 1, Len(s)))
      BY <2>7, <2>8
    <3> QED
      BY <2>6, <2>7, <2>8, <3>1, <3>2 DEF IsTrimmed
  <2> QED
    BY <1>2, <2>4, <2>5, <2>9 DEF Piece
<1> QED
  BY <1>1, <1>2

\* The escapes of the characters of s, one by one.
Escapes(s) == [i \in DOMAIN s |-> Escape(s[i])]

LEMMA EscapesType ==
  ASSUME NEW s \in Piece
  PROVE  Escapes(s) \in Seq(Seq(Symbol)) /\ Len(Escapes(s)) = Len(s)
<1>1. s \in Seq(Char) /\ Len(s) \in Nat /\ DOMAIN s = 1..Len(s)
  BY DEF Piece
<1>2. ASSUME NEW c \in Char PROVE Escape(c) \in Seq(Symbol)
  <2>1. c \in Symbol /\ "backslash" \in Symbol
    BY DEF Symbol, Char
  <2>2. <<c>> \in Seq(Symbol) /\ <<"backslash", c>> \in Seq(Symbol)
    BY <2>1
  <2> QED
    BY <2>2, Zenon DEF Escape
<1>3. Escapes(s) \in [1..Len(s) -> Seq(Symbol)]
  BY <1>1, <1>2 DEF Escapes
<1> QED
  BY <1>1, <1>3, FunctionIsSeq

LEMMA QuotedType ==
  ASSUME NEW s \in Piece
  PROVE  Quoted(s) \in Seq(Symbol)
<1>1. FlattenSeq(Escapes(s)) \in Seq(Symbol)
  BY EscapesType, FlattenType
<1>2. Quoted(s) = <<"quote">> \o FlattenSeq(Escapes(s)) \o <<"quote">>
  BY DEF Quoted, Escapes
<1>3. <<"quote">> \in Seq(Symbol)
  BY DEF Symbol, Char
<1> QED
  BY <1>1, <1>2, <1>3

LEMMA SplitFold ==
  ASSUME NEW list \in Piece
  PROVE  \E G : /\ G[0] = << <<>> >>
                /\ \A i \in 1..Len(list) : G[i] = SplitAt(G[i - 1], list[i])
                /\ Split(list) = G[Len(list)]
<1> DEFINE N == Len(list)
           A == Seq(Piece) \ {<<>>}
           base == << <<>> >>
           step == [p \in A \X Char |-> SplitAt(p[1], p[2])]
           Places == SUBSET DOMAIN list
           Fold(f) == f = [S \in Places |->
                             IF S = {} THEN << <<>> >>
                             ELSE SplitAt(f[S \ {Max(S)}], list[Max(S)])]
           f == CHOOSE f : Fold(f)
           G == [i \in 0..N |-> f[1..i]]
<1>1. N \in Nat /\ DOMAIN list = 1..N /\ list \in Seq(Char) /\ base \in A
  BY DEF Piece
<1>2. step \in [A \X Char -> A]
  <2>1. ASSUME NEW a \in A, NEW c \in Char PROVE SplitAt(a, c) \in A
    <3>1. Len(a) \in 1..Len(a) /\ <<>> \in Piece /\ a[Len(a)] \in Piece
      BY DEF Piece
    <3>2. Append(a[Len(a)], c) \in Piece
      BY <3>1 DEF Piece
    <3> QED
      BY <3>1, <3>2 DEF SplitAt
  <2> QED
    BY <2>1
<1>3. PICK h : IsFold(h, A, base, step, list)
  <2> HIDE DEF base, step, A
  <2> QED
    BY <1>1, <1>2, FoldExists, Zenon
<1>4. Fold(h)
  <2>0. /\ h \in [SUBSET (1..N) -> A]
        /\ \A S \in SUBSET (1..N) :
             h[S] = IF S = {} THEN base ELSE step[<<h[S \ {Max(S)}], list[Max(S)]>>]
    BY <1>3 DEF IsFold
  <2>1. ASSUME NEW S \in Places, S # {}
        PROVE  h[S] = SplitAt(h[S \ {Max(S)}], list[Max(S)])
    <3>1. Max(S) \in 1..N /\ S \ {Max(S)} \in SUBSET (1..N)
      BY <1>1, <2>1, FirstAndLast
    <3>2. h[S \ {Max(S)}] \in A /\ list[Max(S)] \in Char
      BY <1>1, <2>0, <3>1
    <3>3. step[<<h[S \ {Max(S)}], list[Max(S)]>>] = SplitAt(h[S \ {Max(S)}], list[Max(S)])
      BY <3>2
    <3> HIDE DEF step, A
    <3> QED
      BY <1>1, <2>0, <2>1, <3>3
  <2>2. h = [S \in Places |-> h[S]] /\ h[{}] = base
    BY <1>1, <2>0
  <2> QED
    BY <2>1, <2>2
<1>5. Fold(f)
  BY <1>4, Zenon
<1>6. Split(list) = f[DOMAIN list]
  BY Zenon DEF Split, FoldLeft, MapThenFoldSet
<1> HIDE DEF f
<1>7. G[0] = << <<>> >> /\ Split(list) = G[N]
  <2>1. 1..0 = {} /\ 0 \in 0..N /\ N \in 0..N
    BY <1>1
  <2> QED
    BY <1>1, <1>5, <1>6, <2>1
<1>8. ASSUME NEW i \in 1..N PROVE G[i] = SplitAt(G[i - 1], list[i])
  <2>1. 1..i \in Places /\ i - 1 \in 0..N /\ i \in 0..N /\ i \in Nat \ {0}
    BY <1>1
  <2>2. \A S \in Places : S # {} => f[S] = SplitAt(f[S \ {Max(S)}], list[Max(S)])
    BY <1>5, Zenon
  <2>3. 1..i # {} /\ Max(1..i) = i /\ (1..i) \ {i} = 1..(i - 1)
    BY <2>1, LastPlace, Zenon
  <2>4. f[1..i] = SplitAt(f[1..(i - 1)], list[i])
    BY <2>1, <2>2, <2>3, Zenon
  <2> QED
    BY <2>1, <2>4
<1> HIDE DEF G
<1> QED
  BY <1>7, <1>8

LEMMA PushFold ==
  ASSUME NEW pieces \in Seq(Piece)
  PROVE  \E G : /\ G[0] = [first |-> TRUE, out |-> <<"[">>]
                /\ \A i \in 1..Len(pieces) : G[i] = PushKeyword(G[i - 1], pieces[i])
                /\ FoldLeft(PushKeyword, [first |-> TRUE, out |-> <<"[">>], pieces) = G[Len(pieces)]
<1> DEFINE N == Len(pieces)
           A == [first : BOOLEAN, out : Seq(Symbol)]
           base == [first |-> TRUE, out |-> <<"[">>]
           step == [p \in A \X Piece |-> PushKeyword(p[1], p[2])]
           Places == SUBSET DOMAIN pieces
           Fold(f) == f = [S \in Places |->
                             IF S = {} THEN [first |-> TRUE, out |-> <<"[">>]
                             ELSE PushKeyword(f[S \ {Max(S)}], pieces[Max(S)])]
           f == CHOOSE f : Fold(f)
           G == [i \in 0..N |-> f[1..i]]
<1>1. N \in Nat /\ DOMAIN pieces = 1..N /\ pieces \in Seq(Piece) /\ base \in A
  <2>1. "[" \in Symbol
    BY DEF Symbol
  <2> QED
    BY <2>1
<1>2. step \in [A \X Piece -> A]
  <2>1. ASSUME NEW a \in A, NEW c \in Piece PROVE PushKeyword(a, c) \in A
    <3>1. Quoted(Trim(c)) \in Seq(Symbol)
      BY TrimIs, QuotedType
    <3>2. "comma" \in Symbol
      BY DEF Symbol, Char
    <3> QED
      BY <3>1, <3>2 DEF PushKeyword
  <2> QED
    BY <2>1
<1>3. PICK h : IsFold(h, A, base, step, pieces)
  <2> HIDE DEF base, step, A
  <2> QED
    BY <1>1, <1>2, FoldExists, Zenon
<1>4. Fold(h)
  <2>0. /\ h \in [SUBSET (1..N) -> A]
        /\ \A S \in SUBSET (1..N) :
             h[S] = IF S = {} THEN base ELSE step[<<h[S \ {Max(S)}], pieces[Max(S)]>>]
    BY <1>3 DEF IsFold
  <2>1. ASSUME NEW S \in Places, S # {}
        PROVE  h[S] = PushKeyword(h[S \ {Max(S)}], pieces[Max(S)])
    <3>1. Max(S) \in 1..N /\ S \ {Max(S)} \in SUBSET (1..N)
      BY <1>1, <2>1, FirstAndLast
    <3>2. h[S \ {Max(S)}] \in A /\ pieces[Max(S)] \in Piece
      BY <1>1, <2>0, <3>1
    <3>3. step[<<h[S \ {Max(S)}], pieces[Max(S)]>>] = PushKeyword(h[S \ {Max(S)}], pieces[Max(S)])
      BY <3>2
    <3> HIDE DEF step, A
    <3> QED
      BY <1>1, <2>0, <2>1, <3>3
  <2>2. h = [S \in Places |-> h[S]] /\ h[{}] = base
    BY <1>1, <2>0
  <2> QED
    BY <2>1, <2>2
<1>5. Fold(f)
  BY <1>4, Zenon
<1>6. FoldLeft(PushKeyword, [first |-> TRUE, out |-> <<"[">>], pieces) = f[DOMAIN pieces]
  BY Zenon DEF FoldLeft, MapThenFoldSet
<1> HIDE DEF f
<1>7. G[0] = [first |-> TRUE, out |-> <<"[">>] /\ FoldLeft(PushKeyword, [first |-> TRUE, out |-> <<"[">>], pieces) = G[N]
  <2>1. 1..0 = {} /\ 0 \in 0..N /\ N \in 0..N
    BY <1>1
  <2> QED
    BY <1>1, <1>5, <1>6, <2>1
<1>8. ASSUME NEW i \in 1..N PROVE G[i] = PushKeyword(G[i - 1], pieces[i])
  <2>1. 1..i \in Places /\ i - 1 \in 0..N /\ i \in 0..N /\ i \in Nat \ {0}
    BY <1>1
  <2>2. \A S \in Places : S # {} => f[S] = PushKeyword(f[S \ {Max(S)}], pieces[Max(S)])
    BY <1>5, Zenon
  <2>3. 1..i # {} /\ Max(1..i) = i /\ (1..i) \ {i} = 1..(i - 1)
    BY <2>1, LastPlace, Zenon
  <2>4. f[1..i] = PushKeyword(f[1..(i - 1)], pieces[i])
    BY <2>1, <2>2, <2>3, Zenon
  <2> QED
    BY <2>1, <2>4
<1> HIDE DEF G
<1> QED
  BY <1>7, <1>8

LEMMA ReadFold ==
  ASSUME NEW text \in Seq(Symbol)
  PROVE  \E G : /\ G[0] = Reader("start", <<>>, <<>>)
                /\ \A i \in 1..Len(text) : G[i] = Read(G[i - 1], text[i])
                /\ ReadBack(text) = G[Len(text)]
<1> DEFINE N == Len(text)
           A == Readers
           base == Reader("start", <<>>, <<>>)
           step == [p \in A \X Symbol |-> Read(p[1], p[2])]
           Places == SUBSET DOMAIN text
           Fold(f) == f = [S \in Places |->
                             IF S = {} THEN Reader("start", <<>>, <<>>)
                             ELSE Read(f[S \ {Max(S)}], text[Max(S)])]
           f == CHOOSE f : Fold(f)
           G == [i \in 0..N |-> f[1..i]]
<1>1. N \in Nat /\ DOMAIN text = 1..N /\ text \in Seq(Symbol) /\ base \in A
  BY DEF Reader, Readers
<1>2. step \in [A \X Symbol -> A]
  <2>1. ASSUME NEW a \in A, NEW c \in Symbol PROVE Read(a, c) \in A
    BY DEF Read, Reader, Readers
  <2> QED
    BY <2>1
<1>3. PICK h : IsFold(h, A, base, step, text)
  <2> HIDE DEF base, step, A
  <2> QED
    BY <1>1, <1>2, FoldExists, Zenon
<1>4. Fold(h)
  <2>0. /\ h \in [SUBSET (1..N) -> A]
        /\ \A S \in SUBSET (1..N) :
             h[S] = IF S = {} THEN base ELSE step[<<h[S \ {Max(S)}], text[Max(S)]>>]
    BY <1>3 DEF IsFold
  <2>1. ASSUME NEW S \in Places, S # {}
        PROVE  h[S] = Read(h[S \ {Max(S)}], text[Max(S)])
    <3>1. Max(S) \in 1..N /\ S \ {Max(S)} \in SUBSET (1..N)
      BY <1>1, <2>1, FirstAndLast
    <3>2. h[S \ {Max(S)}] \in A /\ text[Max(S)] \in Symbol
      BY <1>1, <2>0, <3>1
    <3>3. step[<<h[S \ {Max(S)}], text[Max(S)]>>] = Read(h[S \ {Max(S)}], text[Max(S)])
      BY <3>2
    <3> HIDE DEF step, A
    <3> QED
      BY <1>1, <2>0, <2>1, <3>3
  <2>2. h = [S \in Places |-> h[S]] /\ h[{}] = base
    BY <1>1, <2>0
  <2> QED
    BY <2>1, <2>2
<1>5. Fold(f)
  BY <1>4, Zenon
<1>6. ReadBack(text) = f[DOMAIN text]
  BY Zenon DEF ReadBack, FoldLeft, MapThenFoldSet
<1> HIDE DEF f
<1>7. G[0] = Reader("start", <<>>, <<>>) /\ ReadBack(text) = G[N]
  <2>1. 1..0 = {} /\ 0 \in 0..N /\ N \in 0..N
    BY <1>1
  <2> QED
    BY <1>1, <1>5, <1>6, <2>1
<1>8. ASSUME NEW i \in 1..N PROVE G[i] = Read(G[i - 1], text[i])
  <2>1. 1..i \in Places /\ i - 1 \in 0..N /\ i \in 0..N /\ i \in Nat \ {0}
    BY <1>1
  <2>2. \A S \in Places : S # {} => f[S] = Read(f[S \ {Max(S)}], text[Max(S)])
    BY <1>5, Zenon
  <2>3. 1..i # {} /\ Max(1..i) = i /\ (1..i) \ {i} = 1..(i - 1)
    BY <2>1, LastPlace, Zenon
  <2>4. f[1..i] = Read(f[1..(i - 1)], text[i])
    BY <2>1, <2>2, <2>3, Zenon
  <2> QED
    BY <2>1, <2>4
<1> HIDE DEF G
<1> QED
  BY <1>7, <1>8

-----------------------------------------------------------------------------
(* The reader.                                                             *)

\* The reader goes on where it stands.
LEMMA ReadMore ==
  ASSUME NEW text \in Seq(Symbol), NEW c \in Symbol
  PROVE  ReadBack(Append(text, c)) = Read(ReadBack(text), c)
<1> DEFINE N == Len(text)
           more == Append(text, c)
<1>1. /\ N \in Nat /\ more \in Seq(Symbol) /\ Len(more) = N + 1
      /\ \A i \in 1..N : more[i] = text[i]
      /\ more[N + 1] = c
  OBVIOUS
<1>2. PICK G : /\ G[0] = Reader("start", <<>>, <<>>)
               /\ \A i \in 1..N : G[i] = Read(G[i - 1], text[i])
               /\ ReadBack(text) = G[N]
  BY ReadFold
<1> HIDE DEF more
<1>3. PICK H : /\ H[0] = Reader("start", <<>>, <<>>)
               /\ \A i \in 1..(N + 1) : H[i] = Read(H[i - 1], more[i])
               /\ ReadBack(more) = H[N + 1]
  <2>1. \E H : /\ H[0] = Reader("start", <<>>, <<>>)
               /\ \A i \in 1..Len(more) : H[i] = Read(H[i - 1], more[i])
               /\ ReadBack(more) = H[Len(more)]
    BY <1>1, ReadFold, Zenon
  <2> QED
    BY <1>1, <2>1
<1> DEFINE P == {i \in Nat : G[i] = H[i]}
<1>4. 0 \in P
  BY <1>2, <1>3
<1>5. ASSUME NEW i \in 0..(N - 1), i \in P PROVE i + 1 \in P
  <2>1. i + 1 \in 1..N /\ i + 1 \in 1..(N + 1) /\ (i + 1) - 1 = i /\ i + 1 \in Nat
    BY <1>1
  <2>2. G[i + 1] = Read(G[i], text[i + 1])
    BY <1>2, <2>1, Zenon
  <2>3. H[i + 1] = Read(H[i], more[i + 1])
    BY <1>3, <2>1, Zenon
  <2>4. more[i + 1] = text[i + 1] /\ G[i] = H[i]
    BY <1>1, <1>5, <2>1
  <2> QED
    BY <2>1, <2>2, <2>3, <2>4
<1>6. G[N] = H[N]
  <2> HIDE DEF P
  <2>1. \A i \in 0..N : i \in P
    BY <1>1, <1>4, <1>5, SetInduction
  <2>2. N \in 0..N
    BY <1>1
  <2> QED
    BY <2>1, <2>2 DEF P
<1>7. N + 1 \in 1..(N + 1) /\ (N + 1) - 1 = N
  BY <1>1
<1>8. H[N + 1] = Read(H[N], c)
  BY <1>1, <1>3, <1>7, Zenon
<1> QED
  BY <1>2, <1>3, <1>6, <1>8, Zenon DEF more

\* What the reader makes of a character in each of the places it comes to.
LEMMA ReadStep ==
  ASSUME NEW text, NEW list
  PROVE  /\ Read(Reader("start", text, list), "[") = Reader("open", <<>>, <<>>)
         /\ \A at \in {"open", "comma"} :
              Read(Reader(at, text, list), "quote") = Reader("string", <<>>, list)
         /\ Read(Reader("string", text, list), "quote")
              = Reader("value", <<>>, Append(list, text))
         /\ Read(Reader("string", text, list), "backslash") = Reader("escape", text, list)
         /\ \A c \in Char \ {"quote", "backslash"} :
              Read(Reader("string", text, list), c)
                = Reader("string", Append(text, c), list)
         /\ \A c \in {"quote", "backslash"} :
              Read(Reader("escape", text, list), c)
                = Reader("string", Append(text, c), list)
         /\ Read(Reader("value", text, list), "comma") = Reader("comma", <<>>, list)
         /\ \A at \in {"open", "value"} :
              Read(Reader(at, text, list), "]") = Reader("end", <<>>, list)
<1>1. \A at : /\ Reader(at, text, list).at = at
              /\ Reader(at, text, list).text = text
              /\ Reader(at, text, list).list = list
  BY DEF Reader
<1> QED
  BY <1>1 DEF Read, Char

\* Of these: a quote opens a string,
LEMMA ReadFirst ==
  ASSUME NEW text, NEW list, NEW at \in {"open", "comma"}
  PROVE  Read(Reader(at, text, list), "quote") = Reader("string", <<>>, list)
<1>1. Reader(at, text, list).at = at /\ Reader(at, text, list).list = list
  BY DEF Reader
<1> QED
  BY <1>1 DEF Read, Char

\* a backslash in a string says that a character comes,
LEMMA ReadBackslash ==
  ASSUME NEW text, NEW list
  PROVE  Read(Reader("string", text, list), "backslash") = Reader("escape", text, list)
<1>1. /\ Reader("string", text, list).at = "string"
      /\ Reader("string", text, list).text = text
      /\ Reader("string", text, list).list = list
  BY DEF Reader
<1> QED
  BY <1>1 DEF Read, Char

\* and a character that is escaped, or need not be, becomes part of the string.
LEMMA ReadChar ==
  ASSUME NEW text, NEW list, NEW c \in Char
  PROVE  /\ c \notin {"quote", "backslash"}
              => Read(Reader("string", text, list), c)
                   = Reader("string", Append(text, c), list)
         /\ c \in {"quote", "backslash"}
              => Read(Reader("escape", text, list), c)
                   = Reader("string", Append(text, c), list)
<1>1. \A at : /\ Reader(at, text, list).at = at
              /\ Reader(at, text, list).text = text
              /\ Reader(at, text, list).list = list
  BY DEF Reader
<1> QED
  BY <1>1 DEF Read, Char

\* Two elements after a concatenation, and two around a sequence.
LEMMA AppendTwo ==
  ASSUME NEW a \in Seq(Symbol), NEW b \in Seq(Symbol), NEW c \in Symbol, NEW d \in Symbol
  PROVE  /\ a \o (b \o <<c, d>>) = Append(Append(a \o b, c), d)
         /\ a \o ((<<c>> \o b) \o <<d>>) = Append(Append(a, c) \o b, d)
<1> DEFINE N == Len(a) + Len(b) + 2
           x == a \o (b \o <<c, d>>)
           y == Append(Append(a \o b, c), d)
           u == a \o ((<<c>> \o b) \o <<d>>)
           v == Append(Append(a, c) \o b, d)
<1>1. x \in Seq(Symbol) /\ Len(x) = N
  OBVIOUS
<1>2. y \in Seq(Symbol) /\ Len(y) = N
  OBVIOUS
<1>3. \A i \in 1..N : x[i] = y[i]
  OBVIOUS
<1>4. u \in Seq(Symbol) /\ Len(u) = N
  OBVIOUS
<1>5. v \in Seq(Symbol) /\ Len(v) = N
  OBVIOUS
<1>6. \A i \in 1..N : u[i] = v[i]
  BY SMTT(30)
<1>7. N \in Nat
  OBVIOUS
<1> HIDE DEF N, x, y, u, v
<1>8. x = y
  BY <1>1, <1>2, <1>3, <1>7
<1>9. u = v
  BY <1>4, <1>5, <1>6, <1>7
<1> QED
  BY <1>8, <1>9, Zenon DEF x, y, u, v

\* A quoted string reads back as the string, wherever one may stand.
LEMMA ReadQuoted ==
  ASSUME NEW text \in Seq(Symbol), NEW at \in {"open", "comma"}, NEW list,
         ReadBack(text) = Reader(at, <<>>, list),
         NEW s \in Piece
  PROVE  /\ text \o Quoted(s) \in Seq(Symbol)
         /\ ReadBack(text \o Quoted(s)) = Reader("value", <<>>, Append(list, s))
<1> DEFINE N == Len(s)
           ss == Escapes(s)
<1>1. /\ s \in Seq(Char) /\ N \in Nat /\ DOMAIN s = 1..N
      /\ \A i \in 1..N : s[i] \in Char
      /\ ss \in Seq(Seq(Symbol)) /\ Len(ss) = N
      /\ \A i \in 1..N : ss[i] = Escape(s[i])
  BY EscapesType DEF Piece, Escapes
<1>2. \A c \in Char : c \in Symbol
  BY DEF Symbol
<1>3. "quote" \in Symbol /\ "backslash" \in Symbol
  BY DEF Symbol, Char
<1>4. ASSUME NEW a \in Seq(Symbol), NEW b \in Seq(Symbol),
              NEW c \in Symbol, NEW d \in Symbol
       PROVE  /\ a \o (b \o <<c, d>>) = Append(Append(a \o b, c), d)
              /\ a \o ((<<c>> \o b) \o <<d>>) = Append(Append(a, c) \o b, d)
  BY AppendTwo, ZenonT(60)
<1> HIDE DEF ss
<1>5. PICK G \in [0..N -> Seq(Symbol)] :
        /\ G[0] = <<>>
        /\ \A i \in 1..N : G[i] = G[i - 1] \o ss[i]
        /\ FlattenSeq(ss) = G[N]
  <2>1. \E G \in [0..Len(ss) -> Seq(Symbol)] :
          /\ G[0] = <<>>
          /\ \A i \in 1..Len(ss) : G[i] = G[i - 1] \o ss[i]
          /\ FlattenSeq(ss) = G[Len(ss)]
    BY <1>1, FlattenByPrefix, Zenon
  <2> QED
    BY <1>1, <2>1, Zenon
<1> DEFINE opened == Append(text, "quote")
           W(i) == opened \o G[i]
           P == {i \in Nat : ReadBack(W(i)) = Reader("string", SubSeq(s, 1, i), list)}
<1>6. opened \in Seq(Symbol) /\ ReadBack(opened) = Reader("string", <<>>, list)
  <2>1. ReadBack(opened) = Read(Reader(at, <<>>, list), "quote")
    BY <1>3, ReadMore
  <2>2. \A a \in {"open", "comma"} :
           Read(Reader(a, <<>>, list), "quote") = Reader("string", <<>>, list)
    BY ReadFirst, Zenon
  <2>3. ReadBack(opened) = Reader("string", <<>>, list)
    BY <2>1, <2>2
  <2> QED
    BY <1>3, <2>3
<1> HIDE DEF opened
<1>7. 0 \in P
  <2>1. W(0) = opened
    BY <1>5, <1>6
  <2>2. SubSeq(s, 1, 0) = <<>>
    BY <1>1
  <2> QED
    BY <1>6, <2>1, <2>2, Zenon
<1>8. ASSUME NEW i \in 0..(N - 1), i \in P PROVE i + 1 \in P
  <2> DEFINE c == s[i + 1]
             w == W(i)
             part == SubSeq(s, 1, i)
  <2>1. /\ i \in 0..N /\ i + 1 \in 1..N /\ (i + 1) - 1 = i /\ i + 1 \in Nat
        /\ c \in Char /\ c \in Symbol
    BY <1>1, <1>2
  <2>2. w \in Seq(Symbol) /\ ReadBack(w) = Reader("string", part, list)
    BY <1>5, <1>6, <1>8, <2>1
  <2>3. G[i + 1] = G[i] \o Escape(c) /\ G[i] \in Seq(Symbol)
    BY <1>1, <1>5, <2>1
  <2>4. SubSeq(s, 1, i + 1) = Append(part, c)
    BY <1>1, <2>1
  <2>5. ReadBack(W(i + 1)) = Reader("string", Append(part, c), list)
    <3>1. CASE c \in {"quote", "backslash"}
      <4>1. W(i + 1) = Append(Append(w, "backslash"), c)
        <5>1. Escape(c) = <<"backslash", c>>
          BY <3>1 DEF Escape
        <5>2. W(i + 1) = opened \o (G[i] \o <<"backslash", c>>)
          BY <2>3, <5>1
        <5> HIDE DEF c
        <5>3. opened \o (G[i] \o <<"backslash", c>>)
                = Append(Append(opened \o G[i], "backslash"), c)
          BY <1>3, <1>6, <1>4, <2>1, <2>3, ZenonT(60)
        <5> QED
          BY <5>2, <5>3
      <4> HIDE DEF w, c, part, W
      <4>2. Append(w, "backslash") \in Seq(Symbol)
        BY <1>3, <2>2
      <4>3. ReadBack(Append(w, "backslash")) = Read(Reader("string", part, list), "backslash")
        BY <1>3, <2>2, ReadMore
      <4>4. ReadBack(Append(w, "backslash")) = Reader("escape", part, list)
        BY <4>3, ReadBackslash, Zenon
      <4>5. ReadBack(W(i + 1)) = Read(Reader("escape", part, list), c)
        BY <2>1, <4>1, <4>2, <4>4, ReadMore
      <4> QED
        BY <2>1, <3>1, <4>5, ReadChar, Zenon
    <3>2. CASE c \notin {"quote", "backslash"}
      <4>1. W(i + 1) = Append(w, c)
        <5>1. Escape(c) = <<c>>
          BY <3>2 DEF Escape
        <5> HIDE DEF c
        <5> QED
          BY <1>6, <2>1, <2>3, <5>1, SMTT(30)
      <4> HIDE DEF w, c, part, W
      <4>2. ReadBack(W(i + 1)) = Read(Reader("string", part, list), c)
        BY <2>1, <2>2, <4>1, ReadMore
      <4> QED
        BY <2>1, <3>2, <4>2, ReadChar, Zenon
    <3> QED
      BY <3>1, <3>2
  <2> HIDE DEF W, c, part
  <2> QED
    BY <2>1, <2>4, <2>5
<1>9. N \in P
  <2> HIDE DEF P
  <2>1. \A i \in 0..N : i \in P
    BY <1>1, <1>7, <1>8, SetInduction
  <2> QED
    BY <1>1, <2>1
<1>10. /\ text \o Quoted(s) = Append(W(N), "quote")
      /\ W(N) \in Seq(Symbol)
  <2>1. Quoted(s) = <<"quote">> \o G[N] \o <<"quote">>
    BY <1>5, Zenon DEF Quoted, Escapes, ss
  <2>2. N \in 0..N
    BY <1>1
  <2>3. G[N] \in Seq(Symbol)
    BY <1>5, <2>2
  <2>4. text \o (<<"quote">> \o G[N] \o <<"quote">>) = Append(opened \o G[N], "quote")
    BY <1>3, <1>4, <2>3 DEF opened
  <2>5. opened \o G[N] \in Seq(Symbol)
    BY <1>6, <2>3
  <2> QED
    BY <2>1, <2>4, <2>5
<1>11. ReadBack(W(N)) = Reader("string", s, list)
  <2>1. SubSeq(s, 1, N) = s
    BY <1>1
  <2> HIDE DEF W
  <2> QED
    BY <1>9, <2>1
<1> HIDE DEF W
<1>12. ReadBack(text \o Quoted(s)) = Read(Reader("string", s, list), "quote")
  BY <1>3, <1>10, <1>11, ReadMore
<1>13. Read(Reader("string", s, list), "quote") = Reader("value", <<>>, Append(list, s))
  BY ReadStep, Zenon
<1> QED
  BY <1>3, <1>10, <1>12, <1>13

-----------------------------------------------------------------------------
(* The pieces.                                                             *)

\* The first i characters of the list are cut up into pieces, the last of them still
\* open: cut[0] is the beginning and the other cuts are the commas, in order.
CutUp(list, i, pieces, m, cut) ==
  /\ cut \in [0..m -> 0..i]
  /\ cut[0] = 0
  /\ \A k \in 1..m : list[cut[k]] = "comma"
  /\ \A c \in 1..i : list[c] = "comma" => \E k \in 1..m : cut[k] = c
  /\ \A h, k \in 0..m : h < k => cut[h] < cut[k]
  /\ pieces \in Seq(Piece)
  /\ Len(pieces) = m + 1
  /\ \A k \in 1..m : pieces[k] = SubSeq(list, cut[k - 1] + 1, cut[k] - 1)
  /\ pieces[m + 1] = SubSeq(list, cut[m] + 1, i)

\* A comma closes the piece that is open and opens another.
LEMMA CutAtComma ==
  ASSUME NEW list \in Piece, NEW i \in 0..(Len(list) - 1), NEW pieces, NEW m \in Nat, NEW cut,
         CutUp(list, i, pieces, m, cut), list[i + 1] = "comma"
  PROVE  CutUp(list, i + 1, SplitAt(pieces, list[i + 1]), m + 1,
               [k \in 0..(m + 1) |-> IF k = m + 1 THEN i + 1 ELSE cut[k]])
<1> DEFINE more == [k \in 0..(m + 1) |-> IF k = m + 1 THEN i + 1 ELSE cut[k]]
           next == Append(pieces, <<>>)
<1>1. /\ Len(list) \in Nat /\ i \in Nat /\ i + 1 \in 1..Len(list) /\ i + 1 \in Nat
      /\ list \in Seq(Char)
  BY DEF Piece
<1>2. /\ cut \in [0..m -> 0..i]
      /\ cut[0] = 0
      /\ \A k \in 1..m : list[cut[k]] = "comma"
      /\ \A c \in 1..i : list[c] = "comma" => \E k \in 1..m : cut[k] = c
      /\ \A h, k \in 0..m : h < k => cut[h] < cut[k]
      /\ pieces \in Seq(Piece)
      /\ Len(pieces) = m + 1
      /\ \A k \in 1..m : pieces[k] = SubSeq(list, cut[k - 1] + 1, cut[k] - 1)
      /\ pieces[m + 1] = SubSeq(list, cut[m] + 1, i)
  BY DEF CutUp
<1>3. /\ \A k \in 0..m : more[k] = cut[k] /\ cut[k] \in 0..i
      /\ more[m + 1] = i + 1
      /\ more \in [0..(m + 1) -> 0..(i + 1)]
  BY <1>1, <1>2
<1>4. /\ next \in Seq(Piece) /\ Len(next) = m + 2
      /\ \A k \in 1..(m + 1) : next[k] = pieces[k]
      /\ next[m + 2] = <<>>
  BY <1>2 DEF Piece
<1>5. SplitAt(pieces, list[i + 1]) = next
  BY DEF SplitAt
<1> HIDE DEF more, next
<1>6. more[0] = 0 /\ \A k \in 1..(m + 1) : list[more[k]] = "comma"
  <2>1. 0 \in 0..m /\ more[0] = 0
    BY <1>2, <1>3
  <2>2. ASSUME NEW k \in 1..(m + 1)
        PROVE  list[more[k]] = "comma"
    <3>1. CASE k = m + 1
      BY <1>3, <3>1, Zenon
    <3>2. CASE k # m + 1
      <4>1. k \in 1..m /\ k \in 0..m
        BY <3>2
      <4>2. more[k] = cut[k] /\ list[cut[k]] = "comma"
        BY <1>2, <1>3, <4>1, Zenon
      <4> QED
        BY <4>2, Zenon
    <3> QED
      BY <3>1, <3>2, Zenon
  <2> QED
    BY <2>1, <2>2, Zenon
<1>7. ASSUME NEW c \in 1..(i + 1), list[c] = "comma"
      PROVE  \E k \in 1..(m + 1) : more[k] = c
  <2>1. CASE c = i + 1
    BY <1>3, <2>1
  <2>2. CASE c # i + 1
    <3>1. c \in 1..i
      BY <1>1, <2>2
    <3>2. PICK k \in 1..m : cut[k] = c
      BY <1>2, <1>7, <3>1
    <3> QED
      BY <1>3, <3>2
  <2> QED
    BY <2>1, <2>2
<1>8. ASSUME NEW h \in 0..(m + 1), NEW k \in 0..(m + 1), h < k
      PROVE  more[h] < more[k]
  <2>1. h \in 0..m /\ more[h] = cut[h] /\ cut[h] \in 0..i
    BY <1>3, <1>8
  <2>2. CASE k = m + 1
    BY <1>1, <1>3, <2>1, <2>2
  <2>3. CASE k # m + 1
    <3>1. k \in 0..m
      BY <2>3
    <3> QED
      BY <1>2, <1>3, <1>8, <2>1, <3>1
  <2> QED
    BY <2>2, <2>3
<1>9. ASSUME NEW k \in 1..(m + 1)
      PROVE  next[k] = SubSeq(list, more[k - 1] + 1, more[k] - 1)
  <2>1. k - 1 \in 0..m /\ more[k - 1] = cut[k - 1] /\ next[k] = pieces[k]
    BY <1>3, <1>4
  <2>2. CASE k = m + 1
    <3>1. more[k] - 1 = i /\ k - 1 = m
      BY <1>1, <1>3, <2>2
    <3> QED
      BY <1>2, <2>1, <2>2, <3>1
  <2>3. CASE k # m + 1
    <3>1. k \in 1..m /\ more[k] = cut[k]
      BY <1>3, <2>3
    <3> QED
      BY <1>2, <2>1, <3>1
  <2> QED
    BY <2>2, <2>3
<1>10. next[(m + 1) + 1] = SubSeq(list, more[m + 1] + 1, i + 1)
  <2>1. SubSeq(list, (i + 1) + 1, i + 1) = <<>>
    BY <1>1
  <2>2. (m + 1) + 1 = m + 2
    OBVIOUS
  <2> QED
    BY <1>3, <1>4, <2>1, <2>2
<1>11. Len(next) = (m + 1) + 1
  BY <1>4
<1>12. CutUp(list, i + 1, next, m + 1, more)
  BY <1>3, <1>4, <1>6, <1>7, <1>8, <1>9, <1>10, <1>11 DEF CutUp
<1> QED
  BY <1>5, <1>12 DEF more

\* Another character goes on the piece that is open.
LEMMA CutGoesOn ==
  ASSUME NEW list \in Piece, NEW i \in 0..(Len(list) - 1), NEW pieces, NEW m \in Nat, NEW cut,
         CutUp(list, i, pieces, m, cut), list[i + 1] # "comma"
  PROVE  CutUp(list, i + 1, SplitAt(pieces, list[i + 1]), m, cut)
<1> DEFINE last == Append(pieces[m + 1], list[i + 1])
           next == [pieces EXCEPT ![m + 1] = last]
<1>1. /\ Len(list) \in Nat /\ i \in Nat /\ i + 1 \in 1..Len(list) /\ i + 1 \in Nat
      /\ list \in Seq(Char) /\ list[i + 1] \in Char
  BY DEF Piece
<1>2. /\ cut \in [0..m -> 0..i]
      /\ cut[0] = 0
      /\ \A k \in 1..m : list[cut[k]] = "comma"
      /\ \A c \in 1..i : list[c] = "comma" => \E k \in 1..m : cut[k] = c
      /\ \A h, k \in 0..m : h < k => cut[h] < cut[k]
      /\ pieces \in Seq(Piece)
      /\ Len(pieces) = m + 1
      /\ \A k \in 1..m : pieces[k] = SubSeq(list, cut[k - 1] + 1, cut[k] - 1)
      /\ pieces[m + 1] = SubSeq(list, cut[m] + 1, i)
  BY DEF CutUp
<1>3. SplitAt(pieces, list[i + 1]) = next
  BY <1>2 DEF SplitAt
<1>4. last \in Piece /\ m + 1 \in 1..Len(pieces) /\ pieces[m + 1] \in Piece
  <2>1. m + 1 \in 1..Len(pieces)
    BY <1>2
  <2>2. pieces \in Seq(Piece)
    BY <1>2
  <2>3. pieces[m + 1] \in Piece
    <3> HIDE DEF next, last
    <3> QED
      BY <2>1, <2>2
  <2> QED
    BY <1>1, <2>1, <2>3 DEF Piece
<1>5. last = SubSeq(list, cut[m] + 1, i + 1)
  <2>1. cut[m] + 1 \in 1..(i + 1)
    <3>1. cut[m] \in 0..i
      BY <1>2
    <3> QED
      BY <3>1
  <2>2. SubSeq(list, cut[m] + 1, i + 1) = Append(SubSeq(list, cut[m] + 1, i), list[i + 1])
    BY <1>1, <2>1, SubSeqMore, Zenon
  <2> QED
    BY <1>2, <2>2
<1> HIDE DEF last
<1>6. /\ next \in Seq(Piece) /\ Len(next) = m + 1
      /\ \A k \in 1..m : next[k] = pieces[k]
      /\ next[m + 1] = last
  BY <1>2, <1>4
<1> HIDE DEF next
<1>7. cut \in [0..m -> 0..(i + 1)]
  BY <1>1, <1>2
<1>8. \A c \in 1..(i + 1) : list[c] = "comma" => c \in 1..i
  BY <1>1
<1> QED
  BY <1>2, <1>3, <1>5, <1>6, <1>7, <1>8 DEF CutUp

\* split(',') cuts the list at its commas and nowhere else.
LEMMA SplitCuts ==
  ASSUME NEW list \in Piece
  PROVE  \E m \in Nat : \E cut : CutUp(list, Len(list), Split(list), m, cut)
<1> DEFINE N == Len(list)
<1>1. N \in Nat
  BY DEF Piece
<1>2. PICK G : /\ G[0] = << <<>> >>
               /\ \A i \in 1..N : G[i] = SplitAt(G[i - 1], list[i])
               /\ Split(list) = G[N]
  BY SplitFold
<1> DEFINE P == {i \in Nat : \E m \in Nat : \E cut : CutUp(list, i, G[i], m, cut)}
<1>3. 0 \in P
  <2> DEFINE cut == [k \in 0..0 |-> 0]
  <2>1. << <<>> >> \in Seq(Piece)
    BY DEF Piece
  <2>2. SubSeq(list, cut[0] + 1, 0) = <<>>
    BY <1>1
  <2>3. CutUp(list, 0, G[0], 0, cut)
    BY <1>2, <2>1, <2>2 DEF CutUp
  <2> HIDE DEF cut
  <2> QED
    BY <2>3
<1>4. ASSUME NEW i \in 0..(N - 1), i \in P PROVE i + 1 \in P
  <2>1. i + 1 \in 1..N /\ (i + 1) - 1 = i /\ i + 1 \in Nat
    BY <1>1
  <2>2. PICK m \in Nat : \E cut : CutUp(list, i, G[i], m, cut)
    BY <1>4
  <2>3. PICK cut : CutUp(list, i, G[i], m, cut)
    BY <2>2
  <2>4. G[i + 1] = SplitAt(G[i], list[i + 1])
    BY <1>2, <2>1, Zenon
  <2>5. \E n \in Nat : \E cuts : CutUp(list, i + 1, SplitAt(G[i], list[i + 1]), n, cuts)
    <3>1. CASE list[i + 1] = "comma"
      <4>1. m + 1 \in Nat
        OBVIOUS
      <4> QED
        BY <2>3, <3>1, <4>1, CutAtComma, Zenon
    <3>2. CASE list[i + 1] # "comma"
      BY <2>3, <3>2, CutGoesOn, Zenon
    <3> QED
      BY <3>1, <3>2
  <2> QED
    BY <2>1, <2>4, <2>5
<1>5. N \in P
  <2> HIDE DEF P
  <2>1. \A i \in 0..N : i \in P
    BY <1>1, <1>3, <1>4, SetInduction
  <2> QED
    BY <1>1, <2>1
<1> QED
  BY <1>2, <1>5

\* place[k] is where the kth of n pieces lies in the list, from left to right.
LieAt(place, list, pieces, n) ==
  /\ place \in [1..n -> Pieces(list)]
  /\ \A k \in 1..n : Between(list, place[k]) = pieces[k]
  /\ \A h, k \in 1..n : h < k => place[h][1] < place[k][1]
  /\ \A p \in Pieces(list) : \E k \in 1..n : place[k] = p

\* The pieces that the list is cut up into are those that lie between one cut or end
\* and the next, each once and in order.
LEMMA PiecesAre ==
  ASSUME NEW list \in Piece, NEW pieces, NEW m \in Nat, NEW cut,
         CutUp(list, Len(list), pieces, m, cut)
  PROVE  \E place : LieAt(place, list, pieces, m + 1)
<1> DEFINE N == Len(list)
           cuts == {i \in 0..(N + 1) : i \in DOMAIN list => list[i] = "comma"}
           e == [k \in 0..(m + 1) |-> IF k = m + 1 THEN N + 1 ELSE cut[k]]
           place == [k \in 1..(m + 1) |-> <<e[k - 1], e[k]>>]
<1>1. N \in Nat /\ DOMAIN list = 1..N /\ list \in Seq(Char)
  BY DEF Piece
<1>2. /\ cut \in [0..m -> 0..N]
      /\ cut[0] = 0
      /\ \A k \in 1..m : list[cut[k]] = "comma"
      /\ \A c \in 1..N : list[c] = "comma" => \E k \in 1..m : cut[k] = c
      /\ \A h, k \in 0..m : h < k => cut[h] < cut[k]
      /\ \A k \in 1..m : pieces[k] = SubSeq(list, cut[k - 1] + 1, cut[k] - 1)
      /\ pieces[m + 1] = SubSeq(list, cut[m] + 1, N)
  BY DEF CutUp
<1>3. /\ \A k \in 0..m : e[k] = cut[k] /\ e[k] \in 0..N
      /\ e[m + 1] = N + 1 /\ e[0] = 0
  BY <1>1, <1>2
<1>4. \A k \in 0..(m + 1) : e[k] \in 0..(N + 1)
  <2>1. \A k \in 0..(m + 1) : k = m + 1 \/ k \in 0..m
    OBVIOUS
  <2>2. N + 1 \in 0..(N + 1) /\ \A i \in 0..N : i \in 0..(N + 1)
    BY <1>1
  <2> HIDE DEF e
  <2> QED
    BY <1>3, <2>1, <2>2
<1>5. \A p : p \in Pieces(list) <=>
               /\ p \in cuts \X cuts
               /\ p[1] < p[2]
               /\ \A i \in (p[1] + 1)..(p[2] - 1) : i \notin cuts
  BY DEF Pieces
<1>6. \A i : i \in cuts <=> i \in 0..(N + 1) /\ (i \in 1..N => list[i] = "comma")
  BY <1>1
<1>7. \A k \in 1..(m + 1) : place[k] = <<e[k - 1], e[k]>>
  OBVIOUS
<1>8. place = [k \in 1..(m + 1) |-> place[k]]
  OBVIOUS
<1> HIDE DEF cuts, e, place
<1>9. \A h, k \in 0..(m + 1) : h < k => e[h] < e[k]
  <2> SUFFICES ASSUME NEW h \in 0..(m + 1), NEW k \in 0..(m + 1), h < k
               PROVE  e[h] < e[k]
    OBVIOUS
  <2>1. h \in 0..m /\ (k = m + 1 \/ k \in 0..m)
    OBVIOUS
  <2>2. CASE k = m + 1
    BY <1>1, <1>3, <2>1, <2>2
  <2>3. CASE k \in 0..m
    BY <1>2, <1>3, <2>1, <2>3
  <2> QED
    BY <2>1, <2>2, <2>3
<1>10. \A k \in 0..(m + 1) : e[k] \in cuts
  <2> SUFFICES ASSUME NEW k \in 0..(m + 1) PROVE e[k] \in cuts
    OBVIOUS
  <2>1. k = 0 \/ k = m + 1 \/ k \in 1..m
    OBVIOUS
  <2>2. CASE k \in 1..m
    <3>1. e[k] = cut[k] /\ list[cut[k]] = "comma"
      <4>1. k \in 0..m
        BY <2>2
      <4>2. e[k] = cut[k]
        BY <1>3, <4>1, Zenon
      <4>3. list[cut[k]] = "comma"
        BY <1>2, <2>2, Zenon
      <4> QED
        BY <4>2, <4>3
    <3> QED
      BY <1>4, <1>6, <3>1
  <2>3. CASE k = 0 \/ k = m + 1
    BY <1>1, <1>3, <1>4, <1>6, <2>3
  <2> QED
    BY <2>1, <2>2, <2>3
<1>11. \A i \in cuts : \E k \in 0..(m + 1) : e[k] = i
  <2> SUFFICES ASSUME NEW i \in cuts PROVE \E k \in 0..(m + 1) : e[k] = i
    OBVIOUS
  <2>1. i = 0 \/ i = N + 1 \/ i \in 1..N
    BY <1>1, <1>6
  <2>2. CASE i = 0 \/ i = N + 1
    <3>1. 0 \in 0..(m + 1) /\ m + 1 \in 0..(m + 1)
      OBVIOUS
    <3> QED
      BY <1>3, <2>2, <3>1
  <2>3. CASE i \in 1..N
    <3>1. PICK k \in 1..m : cut[k] = i
      BY <1>2, <1>6, <2>3
    <3>2. k \in 0..m /\ k \in 0..(m + 1)
      OBVIOUS
    <3> QED
      BY <1>3, <3>1, <3>2
  <2> QED
    BY <2>1, <2>2, <2>3
<1>12. ASSUME NEW k \in 1..(m + 1)
       PROVE  /\ place[k] \in Pieces(list)
              /\ Between(list, place[k]) = pieces[k]
  <2>1. k - 1 \in 0..(m + 1) /\ k \in 0..(m + 1) /\ k - 1 < k
    OBVIOUS
  <2>2. place[k][1] = e[k - 1] /\ place[k][2] = e[k]
    BY <1>7
  <2>3. e[k - 1] < e[k] /\ e[k - 1] \in cuts /\ e[k] \in cuts
    BY <1>9, <1>10, <2>1
  <2>4. ASSUME NEW i \in (e[k - 1] + 1)..(e[k] - 1), i \in cuts PROVE FALSE
    <3>1. PICK j \in 0..(m + 1) : e[j] = i
      BY <1>11, <2>4
    <3>2. e[k - 1] < e[j] /\ e[j] < e[k]
      BY <1>4, <2>1, <2>4, <3>1
    <3>3. j = k \/ j = k - 1 \/ j < k - 1 \/ k < j
      OBVIOUS
    <3>4. (j < k - 1 => e[j] < e[k - 1]) /\ (k < j => e[k] < e[j])
      BY <1>9, <2>1
    <3>5. e[j] \in Int /\ e[k] \in Int /\ e[k - 1] \in Int
      BY <1>4, <2>1
    <3> QED
      BY <3>2, <3>3, <3>4, <3>5
  <2>5. place[k] \in Pieces(list)
    <3>1. place[k] \in cuts \X cuts
      <4>1. place[k] = <<e[k - 1], e[k]>>
        BY <1>7
      <4>2. <<e[k - 1], e[k]>> \in cuts \X cuts
        BY <2>3
      <4> QED
        BY <4>1, <4>2, Zenon
    <3>2. \A i \in (place[k][1] + 1)..(place[k][2] - 1) : i \notin cuts
      BY <2>2, <2>4
    <3> QED
      BY <1>5, <2>2, <2>3, <3>1, <3>2
  <2>6. pieces[k] = SubSeq(list, e[k - 1] + 1, e[k] - 1)
    <3>1. CASE k = m + 1
      <4>1. e[k] - 1 = N /\ e[k - 1] = cut[m]
        BY <1>1, <1>3, <3>1
      <4> QED
        BY <1>2, <3>1, <4>1
    <3>2. CASE k # m + 1
      <4>1. k \in 1..m /\ e[k] = cut[k] /\ e[k - 1] = cut[k - 1]
        BY <1>3, <3>2
      <4> QED
        BY <1>2, <4>1
    <3> QED
      BY <3>1, <3>2
  <2> QED
    BY <2>2, <2>5, <2>6 DEF Between
<1>13. ASSUME NEW h \in 1..(m + 1), NEW k \in 1..(m + 1), h < k
       PROVE  place[h][1] < place[k][1]
  <2>1. h - 1 \in 0..(m + 1) /\ k - 1 \in 0..(m + 1) /\ h - 1 < k - 1
    BY <1>13
  <2>2. place[h][1] = e[h - 1] /\ place[k][1] = e[k - 1]
    BY <1>7
  <2> QED
    BY <1>9, <2>1, <2>2
<1>14. ASSUME NEW p \in Pieces(list)
       PROVE  \E k \in 1..(m + 1) : place[k] = p
  <2>1. /\ p = <<p[1], p[2]>> /\ p[1] \in cuts /\ p[2] \in cuts
        /\ p[1] < p[2]
        /\ \A i \in (p[1] + 1)..(p[2] - 1) : i \notin cuts
    BY <1>5
  <2>2. PICK h \in 0..(m + 1) : e[h] = p[1]
    BY <1>11, <2>1
  <2>3. PICK k \in 0..(m + 1) : e[k] = p[2]
    BY <1>11, <2>1
  <2>4. h < k
    <3>1. h = k \/ k < h \/ h < k
      OBVIOUS
    <3>2. e[h] \in Int /\ e[k] \in Int
      BY <1>4
    <3>3. k < h => e[k] < e[h]
      BY <1>9
    <3> QED
      BY <2>1, <2>2, <2>3, <3>1, <3>2, <3>3
  <2>5. h + 1 \in 0..(m + 1) /\ k \in 1..(m + 1)
    BY <2>4
  <2>6. ~(h + 1 < k)
    <3> SUFFICES ASSUME h + 1 < k PROVE FALSE
      OBVIOUS
    <3>1. e[h] < e[h + 1] /\ e[h + 1] < e[k]
      BY <1>9, <2>5
    <3>2. e[h + 1] \in (p[1] + 1)..(p[2] - 1)
      BY <1>4, <2>2, <2>3, <2>5, <3>1, SMTT(30)
    <3> QED
      BY <1>10, <2>1, <2>5, <3>2
  <2>7. k - 1 = h
    BY <2>4, <2>6
  <2>8. place[k] = p
    BY <1>7, <2>1, <2>2, <2>3, <2>5, <2>7
  <2> QED
    BY <2>5, <2>8
<1>15. place \in [1..(m + 1) -> Pieces(list)]
  BY <1>8, <1>12
<1> QED
  BY <1>12, <1>13, <1>14, <1>15 DEF LieAt

-----------------------------------------------------------------------------
(* The keywords.                                                           *)

\* What reads back, when the first k pieces have been pushed, are the keywords of
\* those that are not blank, each once and in order.
PushedSoFar(text, pieces, k, list, place) ==
  /\ text \in [first : BOOLEAN, out : Seq(Symbol)]
  /\ list \in Seq(Piece)
  /\ place \in Seq(1..k)
  /\ Len(place) = Len(list)
  /\ text.first => ReadBack(text.out) = Reader("open", <<>>, list)
  /\ ~text.first => ReadBack(text.out) = Reader("value", <<>>, list)
  /\ \A n \in 1..Len(list) :
       ~Blank(pieces[place[n]]) /\ IsTrimmed(list[n], pieces[place[n]])
  /\ \A i, n \in 1..Len(list) : i < n => place[i] < place[n]
  /\ \A i \in 1..k : ~Blank(pieces[i]) => \E n \in 1..Len(list) : place[n] = i

\* A blank piece is passed over.
LEMMA PushBlank ==
  ASSUME NEW pieces \in Seq(Piece), NEW k \in 0..(Len(pieces) - 1),
         NEW text, NEW list, NEW place, PushedSoFar(text, pieces, k, list, place),
         Blank(pieces[k + 1])
  PROVE  PushedSoFar(PushKeyword(text, pieces[k + 1]), pieces, k + 1, list, place)
<1>1. pieces[k + 1] \in Piece /\ k \in Nat
  OBVIOUS
<1>2. PushKeyword(text, pieces[k + 1]) = text
  BY <1>1, TrimIs DEF PushKeyword
<1>3. place \in Seq(1..k) => place \in Seq(1..(k + 1))
  <2>1. 1..k \subseteq 1..(k + 1)
    BY <1>1
  <2> QED
    BY <2>1
<1>4. \A i \in 1..(k + 1) : i = k + 1 \/ i \in 1..k
  BY <1>1
<1> QED
  BY <1>2, <1>3, <1>4 DEF PushedSoFar

\* Another one has its keyword pushed.
LEMMA PushInked ==
  ASSUME NEW pieces \in Seq(Piece), NEW k \in 0..(Len(pieces) - 1),
         NEW text, NEW list, NEW place, PushedSoFar(text, pieces, k, list, place),
         ~Blank(pieces[k + 1])
  PROVE  PushedSoFar(PushKeyword(text, pieces[k + 1]), pieces, k + 1,
                Append(list, Trim(pieces[k + 1])), Append(place, k + 1))
<1> DEFINE piece == pieces[k + 1]
           word == Trim(piece)
           L == Len(list)
           sep == IF text.first THEN <<>> ELSE <<"comma">>
           next == PushKeyword(text, piece)
           words == Append(list, word)
           places == Append(place, k + 1)
<1>1. /\ text \in [first : BOOLEAN, out : Seq(Symbol)]
      /\ list \in Seq(Piece)
      /\ place \in Seq(1..k)
      /\ Len(place) = L
      /\ text.first => ReadBack(text.out) = Reader("open", <<>>, list)
      /\ ~text.first => ReadBack(text.out) = Reader("value", <<>>, list)
      /\ \A n \in 1..L :
           ~Blank(pieces[place[n]]) /\ IsTrimmed(list[n], pieces[place[n]])
      /\ \A i, n \in 1..L : i < n => place[i] < place[n]
      /\ \A i \in 1..k : ~Blank(pieces[i]) => \E n \in 1..L : place[n] = i
  BY DEF PushedSoFar
<1>2. piece \in Piece /\ k \in Nat /\ L \in Nat /\ k + 1 \in 1..(k + 1)
  <2>1. k + 1 \in 1..Len(pieces) /\ k \in Nat /\ k + 1 \in 1..(k + 1)
    OBVIOUS
  <2> QED
    BY <1>1, <2>1
<1>3. word \in Piece /\ IsTrimmed(word, piece) /\ word # <<>>
  BY <1>2, TrimIs DEF IsTrimmed
<1>4. next = [first |-> FALSE, out |-> text.out \o sep \o Quoted(word)]
  BY <1>3, Zenon DEF PushKeyword
<1>5. /\ words \in Seq(Piece) /\ Len(words) = L + 1
      /\ \A n \in 1..L : words[n] = list[n]
      /\ words[L + 1] = word
  BY <1>1, <1>3
<1>6. /\ places \in Seq(1..(k + 1)) /\ Len(places) = L + 1
      /\ \A n \in 1..L : places[n] = place[n] /\ place[n] \in 1..k
      /\ places[L + 1] = k + 1
  <2>1. place \in Seq(1..(k + 1))
    <3>1. 1..k \subseteq 1..(k + 1)
      BY <1>2
    <3> QED
      BY <1>1, <3>1
  <2> QED
    BY <1>1, <1>2, <2>1, SMTT(30)
<1>7. /\ text.out \o sep \in Seq(Symbol)
      /\ \E at \in {"open", "comma"} : ReadBack(text.out \o sep) = Reader(at, <<>>, list)
  <2>1. text.out \in Seq(Symbol) /\ text.first \in BOOLEAN
    BY <1>1
  <2>2. CASE text.first
    <3>1. text.out \o sep = text.out
      BY <2>1, <2>2
    <3> QED
      BY <1>1, <2>1, <2>2, <3>1
  <2>3. CASE ~text.first
    <3>1. "comma" \in Symbol
      BY DEF Symbol, Char
    <3>2. text.out \o sep = Append(text.out, "comma") /\ text.out \o sep \in Seq(Symbol)
      BY <2>1, <2>3, <3>1
    <3>3. ReadBack(Append(text.out, "comma")) = Read(Reader("value", <<>>, list), "comma")
      BY <1>1, <2>1, <2>3, <3>1, ReadMore
    <3>4. Read(Reader("value", <<>>, list), "comma") = Reader("comma", <<>>, list)
      BY ReadStep, Zenon
    <3> QED
      BY <3>2, <3>3, <3>4
  <2> QED
    BY <2>1, <2>2, <2>3
<1> HIDE DEF sep, word, piece
<1>8. /\ text.out \o sep \o Quoted(word) \in Seq(Symbol)
      /\ ReadBack(text.out \o sep \o Quoted(word)) = Reader("value", <<>>, words)
  BY <1>3, <1>7, ReadQuoted
<1> HIDE DEF next, words, places
<1>9. \A n \in 1..(L + 1) : n = L + 1 \/ n \in 1..L
  BY <1>2
<1>10. \A n \in 1..(L + 1) :
         ~Blank(pieces[places[n]]) /\ IsTrimmed(words[n], pieces[places[n]])
  BY <1>1, <1>3, <1>5, <1>6, <1>9 DEF piece
<1>11. \A i, n \in 1..(L + 1) : i < n => places[i] < places[n]
  <2> SUFFICES ASSUME NEW i \in 1..(L + 1), NEW n \in 1..(L + 1), i < n
               PROVE  places[i] < places[n]
    OBVIOUS
  <2>1. i \in 1..L /\ places[i] = place[i] /\ place[i] \in 1..k
    BY <1>2, <1>6, SMTT(30)
  <2>2. CASE n = L + 1
    BY <1>2, <1>6, <2>1, <2>2
  <2>3. CASE n \in 1..L
    BY <1>1, <1>6, <2>1, <2>3
  <2> QED
    BY <1>9, <2>2, <2>3
<1>12. ASSUME NEW i \in 1..(k + 1), ~Blank(pieces[i])
       PROVE  \E n \in 1..(L + 1) : places[n] = i
  <2>1. CASE i = k + 1
    <3>1. L + 1 \in 1..(L + 1)
      BY <1>2
    <3> QED
      BY <1>6, <2>1, <3>1
  <2>2. CASE i # k + 1
    <3>1. i \in 1..k
      BY <1>2, <2>2
    <3>2. PICK n \in 1..L : place[n] = i
      BY <1>1, <1>12, <3>1
    <3>3. n \in 1..(L + 1)
      BY <1>2
    <3> QED
      BY <1>6, <3>2, <3>3
  <2> QED
    BY <2>1, <2>2
<1>13. /\ next \in [first : BOOLEAN, out : Seq(Symbol)]
       /\ ~next.first /\ ReadBack(next.out) = Reader("value", <<>>, words)
  BY <1>4, <1>8
<1>14. PushedSoFar(next, pieces, k + 1, words, places)
  BY <1>5, <1>6, <1>10, <1>11, <1>12, <1>13 DEF PushedSoFar
<1> QED
  BY <1>14 DEF next, words, places, word, piece

\* After the last piece, all keywords have been pushed.
LEMMA AllPushed ==
  ASSUME NEW pieces \in Seq(Piece)
  PROVE  \E text, list, place :
           /\ text = FoldLeft(PushKeyword, [first |-> TRUE, out |-> <<"[">>], pieces)
           /\ PushedSoFar(text, pieces, Len(pieces), list, place)
<1> DEFINE N == Len(pieces)
           start == [first |-> TRUE, out |-> <<"[">>]
<1>1. N \in Nat
  OBVIOUS
<1>2. PICK G : /\ G[0] = start
               /\ \A i \in 1..N : G[i] = PushKeyword(G[i - 1], pieces[i])
               /\ FoldLeft(PushKeyword, start, pieces) = G[N]
  BY PushFold
<1> DEFINE P == {i \in Nat : \E list, place : PushedSoFar(G[i], pieces, i, list, place)}
<1>3. 0 \in P
  <2>1. "[" \in Symbol /\ <<>> \in Seq(Symbol)
    BY DEF Symbol
  <2>2. <<"[">> = Append(<<>>, "[") /\ <<"[">> \in Seq(Symbol)
    BY <2>1
  <2>3. ReadBack(<<>>) = Reader("start", <<>>, <<>>)
    BY <2>1, ReadFold
  <2>4. ReadBack(<<"[">>) = Read(Reader("start", <<>>, <<>>), "[")
    BY <2>1, <2>2, <2>3, ReadMore
  <2>5. Read(Reader("start", <<>>, <<>>), "[") = Reader("open", <<>>, <<>>)
    BY ReadStep, Zenon
  <2>6. start.first = TRUE /\ start.out = <<"[">>
    OBVIOUS
  <2>7. start \in [first : BOOLEAN, out : Seq(Symbol)]
    BY <2>2
  <2> HIDE DEF start
  <2>8. /\ <<>> \in Seq(Piece) /\ <<>> \in Seq(1..0) /\ Len(<<>>) = 0
        /\ ReadBack(start.out) = Reader("open", <<>>, <<>>)
    BY <2>4, <2>5, <2>6
  <2>9. PushedSoFar(G[0], pieces, 0, <<>>, <<>>)
    BY <1>2, <2>6, <2>7, <2>8 DEF PushedSoFar
  <2> QED
    BY <2>9
<1>4. ASSUME NEW k \in 0..(N - 1), k \in P PROVE k + 1 \in P
  <2>1. k + 1 \in 1..N /\ (k + 1) - 1 = k /\ k + 1 \in Nat
    BY <1>1
  <2>2. PICK list, place : PushedSoFar(G[k], pieces, k, list, place)
    BY <1>4
  <2>3. G[k + 1] = PushKeyword(G[k], pieces[k + 1])
    BY <1>2, <2>1, Zenon
  <2>4. \E words, places :
          PushedSoFar(PushKeyword(G[k], pieces[k + 1]), pieces, k + 1, words, places)
    <3>1. CASE Blank(pieces[k + 1])
      BY <2>2, <3>1, PushBlank, Zenon
    <3>2. CASE ~Blank(pieces[k + 1])
      BY <2>2, <3>2, PushInked, Zenon
    <3> QED
      BY <3>1, <3>2
  <2> QED
    BY <2>1, <2>3, <2>4
<1>5. N \in P
  <2> HIDE DEF P
  <2>1. \A i \in 0..N : i \in P
    BY <1>1, <1>3, <1>4, SetInduction
  <2> QED
    BY <1>1, <2>1
<1> QED
  BY <1>2, <1>5

\* meta.rs:15-18: whatever quotes, backslashes, commas and blanks a keyword list has,
\* what keywords_json makes of it is a JSON array that reads back as the keywords of
\* the list, each once and in order.
THEOREM JsonEncodes ==
  ASSUME NEW list \in Piece
  PROVE  Encodes(KeywordsJson(list), list)
<1> DEFINE pieces == Split(list)
           text == FoldLeft(PushKeyword, [first |-> TRUE, out |-> <<"[">>], pieces)
           inked == {p \in Pieces(list) : ~Blank(Between(list, p))}
<1>1. PICK m \in Nat : \E cut : CutUp(list, Len(list), pieces, m, cut)
  BY SplitCuts
<1>2. pieces \in Seq(Piece) /\ Len(pieces) = m + 1
  BY <1>1 DEF CutUp
<1> HIDE DEF pieces, inked
<1>3. PICK piece : LieAt(piece, list, pieces, m + 1)
  BY <1>1, PiecesAre, Zenon
<1>4. /\ piece \in [1..(m + 1) -> Pieces(list)]
      /\ \A k \in 1..(m + 1) : Between(list, piece[k]) = pieces[k]
      /\ \A h, k \in 1..(m + 1) : h < k => piece[h][1] < piece[k][1]
      /\ \A p \in Pieces(list) : \E k \in 1..(m + 1) : piece[k] = p
  BY <1>3 DEF LieAt
<1>5. PICK words, place : PushedSoFar(text, pieces, m + 1, words, place)
  BY <1>2, AllPushed, Zenon
<1> HIDE DEF text
<1>6. /\ text \in [first : BOOLEAN, out : Seq(Symbol)]
      /\ words \in Seq(Piece) /\ place \in Seq(1..(m + 1)) /\ Len(place) = Len(words)
      /\ text.first => ReadBack(text.out) = Reader("open", <<>>, words)
      /\ ~text.first => ReadBack(text.out) = Reader("value", <<>>, words)
      /\ \A n \in 1..Len(words) :
           ~Blank(pieces[place[n]]) /\ IsTrimmed(words[n], pieces[place[n]])
      /\ \A i, n \in 1..Len(words) : i < n => place[i] < place[n]
      /\ \A i \in 1..(m + 1) : ~Blank(pieces[i]) => \E n \in 1..Len(words) : place[n] = i
  BY <1>5 DEF PushedSoFar
<1>7. KeywordsJson(list) = Append(text.out, "]")
  BY Zenon DEF KeywordsJson, text, pieces
<1>8. ReadBack(KeywordsJson(list)) = Reader("end", <<>>, words)
  <2>1. "]" \in Symbol /\ text.out \in Seq(Symbol)
    BY <1>6 DEF Symbol
  <2>2. PICK at \in {"open", "value"} : ReadBack(text.out) = Reader(at, <<>>, words)
    BY <1>6
  <2>3. ReadBack(Append(text.out, "]")) = Read(Reader(at, <<>>, words), "]")
    BY <2>1, <2>2, ReadMore
  <2>4. \A a \in {"open", "value"} :
          Read(Reader(a, <<>>, words), "]") = Reader("end", <<>>, words)
    BY ReadStep
  <2> QED
    BY <1>7, <2>2, <2>3, <2>4
<1>9. DOMAIN words = 1..Len(words) /\ \A n \in 1..Len(words) : place[n] \in 1..(m + 1)
  BY <1>6
<1> DEFINE where == [n \in DOMAIN words |-> piece[place[n]]]
<1>10. \A n \in DOMAIN words : where[n] = piece[place[n]]
  OBVIOUS
<1>11. where \in [DOMAIN words -> inked]
  <2>1. ASSUME NEW n \in DOMAIN words PROVE piece[place[n]] \in inked
    <3>1. piece[place[n]] \in Pieces(list)
      BY <1>4, <1>9
    <3>2. Between(list, piece[place[n]]) = pieces[place[n]] /\ ~Blank(pieces[place[n]])
      BY <1>4, <1>6, <1>9
    <3> QED
      BY <3>1, <3>2 DEF inked
  <2> QED
    BY <2>1
<1> HIDE DEF where
<1>12. ASSUME NEW n \in DOMAIN words
       PROVE  IsTrimmed(words[n], Between(list, where[n]))
  <2>1. n \in 1..Len(words) /\ place[n] \in 1..(m + 1) /\ where[n] = piece[place[n]]
    BY <1>9, <1>10
  <2>2. Between(list, where[n]) = pieces[place[n]]
    BY <1>4, <2>1, Zenon
  <2> QED
    BY <1>6, <2>1, <2>2
<1>13. ASSUME NEW i \in DOMAIN words, NEW n \in DOMAIN words, i < n
       PROVE  where[i][1] < where[n][1]
  <2>1. /\ i \in 1..Len(words) /\ place[i] \in 1..(m + 1) /\ where[i] = piece[place[i]]
        /\ n \in 1..Len(words) /\ place[n] \in 1..(m + 1) /\ where[n] = piece[place[n]]
    BY <1>9, <1>10
  <2>2. place[i] < place[n]
    BY <1>6, <1>13, <2>1
  <2> QED
    BY <1>4, <2>1, <2>2
<1>14. ASSUME NEW p \in inked PROVE \E n \in DOMAIN words : where[n] = p
  <2>1. PICK k \in 1..(m + 1) : piece[k] = p
    BY <1>4 DEF inked
  <2>2. ~Blank(pieces[k])
    BY <1>4, <2>1 DEF inked
  <2>3. PICK n \in 1..Len(words) : place[n] = k
    BY <1>6, <2>2
  <2> QED
    BY <1>9, <1>10, <2>1, <2>3
<1>15. ReadBack(KeywordsJson(list)).at = "end" /\ ReadBack(KeywordsJson(list)).list = words
  BY <1>8 DEF Reader
<1> QED
  BY <1>11, <1>12, <1>13, <1>14, <1>15 DEF Encodes, inked

=============================================================================
