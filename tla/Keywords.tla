------------------------------ MODULE Keywords ------------------------------
(***************************************************************************)
(* keywords_json of crates/yara-worker/src/meta.rs: a comma-separated list *)
(* of keywords is encoded as a JSON array of strings.  Characters are      *)
(* classes, as many as the encoding tells apart; control characters, which *)
(* no list of the worker has, are left out.                                *)
(***************************************************************************)
EXTENDS Integers, SequencesExt

Char == {"letter", "space", "comma", "quote", "backslash"}

-----------------------------------------------------------------------------

\* split(','): a list that ends in a comma has an empty last piece.
SplitAt(pieces, c) ==
  IF c = "comma" THEN Append(pieces, <<>>)
  ELSE [pieces EXCEPT ![Len(pieces)] = Append(@, c)]

Split(list) == FoldLeft(SplitAt, << <<>> >>, list)

Blank(s) == \A i \in DOMAIN s : s[i] = "space"

\* trim()
Trim(s) ==
  IF Blank(s) THEN <<>>
  ELSE LET inked == {i \in DOMAIN s : s[i] # "space"}
       IN  SubSeq(s, Min(inked), Max(inked))

\* Mutant: a backslash is pushed as it is.
EscapeQuote(c) == IF c = "quote" THEN <<"backslash", c>> ELSE <<c>>

Escape(c) == IF c \in {"quote", "backslash"} THEN <<"backslash", c>> ELSE <<c>>

Quoted(s) ==
  <<"quote">> \o FlattenSeq([i \in DOMAIN s |-> Escape(s[i])]) \o <<"quote">>

\* One turn of the loop over the pieces: an empty one is passed over.
PushKeyword(text, piece) ==
  IF Trim(piece) = <<>> THEN text
  ELSE [first |-> FALSE,
        out |-> text.out \o (IF text.first THEN <<>> ELSE <<"comma">>)
                         \o Quoted(Trim(piece))]

KeywordsJson(list) ==
  Append(FoldLeft(PushKeyword, [first |-> TRUE, out |-> <<"[">>], Split(list)).out, "]")

-----------------------------------------------------------------------------
(* Reading the JSON text back.                                             *)

\* A reader of an array of strings: where it is, the string it is in, and the
\* strings it has read.
Reader(at, text, list) == [at |-> at, text |-> text, list |-> list]

Read(r, c) ==
  CASE r.at = "start" /\ c = "[" -> Reader("open", <<>>, <<>>)
    [] r.at \in {"open", "comma"} /\ c = "quote" -> Reader("string", <<>>, r.list)
    [] r.at = "string" /\ c = "quote" -> Reader("value", <<>>, Append(r.list, r.text))
    [] r.at = "string" /\ c = "backslash" -> Reader("escape", r.text, r.list)
    [] r.at = "string" /\ c \notin {"quote", "backslash"} ->
         Reader("string", Append(r.text, c), r.list)
    [] r.at = "escape" /\ c \in {"quote", "backslash"} ->
         Reader("string", Append(r.text, c), r.list)
    [] r.at = "value" /\ c = "comma" -> Reader("comma", <<>>, r.list)
    [] r.at \in {"open", "value"} /\ c = "]" -> Reader("end", <<>>, r.list)
    [] OTHER -> Reader("invalid", <<>>, r.list)

ReadBack(text) == FoldLeft(Read, Reader("start", <<>>, <<>>), text)

\* The pieces of the list, each by its ends: a comma or an end of the list, and
\* the next one.
Pieces(list) ==
  LET cuts == {i \in 0..(Len(list) + 1) : i \in DOMAIN list => list[i] = "comma"}
  IN  {p \in cuts \X cuts : p[1] < p[2] /\ \A i \in (p[1] + 1)..(p[2] - 1) : i \notin cuts}

Between(list, p) == SubSeq(list, p[1] + 1, p[2] - 1)

\* keyword is s without the blanks around it.
IsTrimmed(keyword, s) ==
  /\ keyword # <<>> /\ keyword[1] # "space" /\ keyword[Len(keyword)] # "space"
  /\ \E i \in 0..(Len(s) - Len(keyword)) :
       /\ keyword = SubSeq(s, i + 1, i + Len(keyword))
       /\ Blank(SubSeq(s, 1, i))
       /\ Blank(SubSeq(s, i + Len(keyword) + 1, Len(s)))

\* text is a JSON array that reads back as the keywords of the list, each once
\* and in order.
Encodes(text, list) ==
  LET read == ReadBack(text)
      inked == {p \in Pieces(list) : ~Blank(Between(list, p))}
  IN  /\ read.at = "end"
      /\ \E place \in [DOMAIN read.list -> inked] :
           /\ \A n \in DOMAIN read.list :
                IsTrimmed(read.list[n], Between(list, place[n]))
           /\ \A m, n \in DOMAIN read.list : m < n => place[m][1] < place[n][1]
           /\ \A p \in inked : \E n \in DOMAIN read.list : place[n] = p

=============================================================================
