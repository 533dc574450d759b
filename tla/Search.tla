------------------------------- MODULE Search --------------------------------
(***************************************************************************)
(* How a question finds segments of the transcripts (services/             *)
(* transcript.ts, search) and what an answer may cite (groundedChat of     *)
(* services/learning.ts).  No state; the calls themselves are Chat.        *)
(*                                                                         *)
(* In every database the migrations make, the full-text query fails as     *)
(* soon as a row matches it: the table behind the index has no column      *)
(* segmentId.  A search is then left to LIKE; one that matches nothing in  *)
(* the index finds nothing.  A text is a sequence of characters.           *)
(***************************************************************************)
EXTENDS Integers, FiniteSets, Sequences, SequencesExt

AnyChar == "_" \* in a LIKE pattern: any character
Percent == "%" \* in a LIKE pattern: any characters
Backslash == "b"
Lower == [a |-> "a", A |-> "a", x |-> "x"]
Plain == DOMAIN Lower
Char == Plain \cup {AnyChar, Percent, Backslash}

(* search escapes the wildcards, then takes every % away, its own as well: *)
(* of an escaped one the backslash is left.                                *)
Pattern(query) ==
  FlattenSeq([i \in DOMAIN query |->
    CASE query[i] = Percent -> <<Backslash>>
      [] query[i] = AnyChar -> <<Backslash, AnyChar>>
      [] OTHER -> <<query[i]>>])

(* External: contains of Prisma, which is LIKE with a % at either end and  *)
(* without an escape character; letters are alike in both cases.           *)
Folded(c) == IF c \in Plain THEN Lower[c] ELSE c
Like(text, pattern) ==
  \E at \in 0 .. Len(text) - Len(pattern) :
    \A i \in DOMAIN pattern :
      pattern[i] = AnyChar \/ Folded(pattern[i]) = Folded(text[at + i])

(* External: the index of TranscriptFts and what its queries may be.  A    *)
(* token is a run of letters; a query of letters and _ asks for its tokens *)
(* one after the other, any other character here is an error in it.        *)
AddToToken(s, c) ==
  IF c \notin Plain THEN [s EXCEPT !.open = FALSE]
  ELSE IF s.open THEN [s EXCEPT !.tokens[Len(s.tokens)] = Append(@, Lower[c])]
  ELSE [tokens |-> Append(s.tokens, <<Lower[c]>>), open |-> TRUE]

Tokens(text) ==
  FoldLeft(AddToToken, [tokens |-> <<>>, open |-> FALSE], text).tokens

IsQuery(query) ==
  query # <<>> /\ \A i \in DOMAIN query : query[i] \in Plain \cup {AnyChar}

None == <<>>
TextOf(seg) == IF seg.edited # None THEN seg.edited ELSE seg.text

Matches(segs, query) ==
  /\ Tokens(query) # <<>>
  /\ \E s \in segs :
       \E at \in 0 .. Len(Tokens(TextOf(s))) - Len(Tokens(query)) :
         \A i \in DOMAIN Tokens(query) :
           Tokens(query)[i] = Tokens(TextOf(s))[at + i]

(* The segments that are found when the full-text query fails: by what was *)
(* transcribed, in the order of their index within their lectures, so many *)
(* of them.  It fails whichever lecture has the match.                     *)
Found(segs, query, lecture, limit) ==
  LET hits == {s \in segs : /\ ~IsQuery(query) \/ Matches(segs, query)
                            /\ lecture \in {"all", s.lecture}
                            /\ Like(s.text, Pattern(query))}
      byIndex == SetToSortSeq(hits, LAMBDA s, t : s.index < t.index)
  IN  SubSeq(byIndex, 1, IF Len(byIndex) < limit THEN Len(byIndex) ELSE limit)

(* What is shown of them: the text as it was edited, and a rank.           *)
Results(found, limit) ==
  [i \in DOMAIN found |->
     [id |-> found[i].index, rank |-> (i - 1) - limit,
      text |-> TextOf(found[i])]]

(* groundedChat: the citations are the results that still exist; without   *)
(* results there is no answer, without a provider or when it fails the     *)
(* answer is the texts themselves.                                         *)
Citations(results, existing) ==
  SelectSeq([i \in DOMAIN results |-> results[i].id],
            LAMBDA id : id \in existing)
Grounded(results, existing, provider, fails) ==
  [cites |-> Citations(results, existing),
   from |-> CASE results = <<>> -> "nobody"
              [] results # <<>> /\ provider /\ ~fails -> "provider"
              [] OTHER -> "texts"]

-----------------------------------------------------------------------------
Texts(n, chars) == UNION {[1 .. k -> chars] : k \in 1 .. n}
Segs(texts, edits) ==
  {[index |-> i, lecture |-> IF i = 2 THEN "l2" ELSE "l1",
    text |-> texts[i], edited |-> edits[i]] : i \in DOMAIN texts}

(* Reference: the word stands somewhere in the text, whatever the case, or *)
(* stands there alone, with nothing but _ beside it.                       *)
Stands(text, w, alone) ==
  \E before, after \in 0 .. Len(text) :
    /\ before + Len(w) + after = Len(text)
    /\ [i \in DOMAIN w |-> Folded(text[before + i])]
         = [i \in DOMAIN w |-> Lower[w[i]]]
    /\ alone => /\ before = 0 \/ text[before] = AnyChar
                /\ after = 0 \/ text[before + Len(w) + 1] = AnyChar

(* A question that is one word finds nothing unless some transcript, as it *)
(* was edited, has that word; it then finds the segments that contain it,  *)
(* in whole or in part of a word, as they were transcribed: in order, all  *)
(* of them unless there are more than the limit.                           *)
ASSUME WordsAreFound ==
  \A texts \in [1 .. 2 -> Texts(2, Plain \cup {AnyChar})] :
    \A edits \in [1 .. 2 -> {None, <<"x">>, <<"a", "x">>}] :
      \A query \in {<<"a">>, <<"A">>, <<"a", "x">>} : \A limit \in {1, 6} :
        LET segs == Segs(texts, edits)
            found == Found(segs, query, "all", limit)
            known == \E s \in segs : Stands(TextOf(s), query, TRUE)
            hits == {i \in 1 .. 2 : known /\ Stands(texts[i], query, FALSE)}
        IN  /\ \A i \in 2 .. Len(found) : found[i - 1].index < found[i].index
            /\ {found[i].index : i \in DOMAIN found} \subseteq hits
            /\ Len(found) = IF Cardinality(hits) < limit THEN Cardinality(hits)
                            ELSE limit

(* A lecture that is named is the only one that is searched.               *)
ASSUME ScopeIsKept ==
  \A texts \in [1 .. 3 -> Texts(1, Plain)] : \A query \in Texts(1, Plain) :
    LET found == Found(Segs(texts, texts), query, "l1", 6)
    IN  \A i \in DOMAIN found : found[i].lecture = "l1"

(* A question with a wildcard is no pattern: it finds no text that has no  *)
(* backslash (and so not the wildcard itself either).                      *)
ASSUME WildcardsAreNone ==
  \A query \in Texts(2, Char) : \A text \in Texts(3, Char \ {Backslash}) :
    (\E i \in DOMAIN query : query[i] \in {AnyChar, Percent})
      => Found(Segs(<<text>>, <<None>>), query, "all", 6) = <<>>

(* Ranks say the order the results have, the first the best, and what is   *)
(* cited is among the results and still exists, in their order.            *)
ASSUME CitationsAreResults ==
  \A n \in 0 .. 3 : \A existing \in SUBSET (1 .. 3) :
    LET found == [i \in 1 .. n |-> [index |-> i, text |-> <<"a">>,
                                    edited |-> None]]
        results == Results(found, 6)
        cites == Citations(results, existing)
    IN  /\ \A i \in 2 .. n : results[i - 1].rank < results[i].rank
        /\ \A i \in 1 .. n : results[i].rank < 0
        /\ {cites[i] : i \in DOMAIN cites} = existing \cap 1 .. n
        /\ \A i \in 2 .. Len(cites) : cites[i - 1] < cites[i]
=============================================================================
