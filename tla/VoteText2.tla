----------------------------- MODULE VoteText2 -----------------------------
(***************************************************************************)
(* The encoding of ch05/VoteClient/src/VoteEncodingText2.c.  A text is a   *)
(* sequence of symbols: the blank, the delimiter of the framers, the words *)
(* of the format, and one that stands for a candidate or a count.          *)
(***************************************************************************)
EXTENDS Naturals, Sequences, FiniteSets

DELIM_STR == 0
NEWLINE   == 1
MAGIC     == 2
VOTE_STR  == 3
INQ_STR   == 4
RESPONSE_STR == 5
NUMBER    == 6

VoteInfo == [isInquiry : BOOLEAN, isResponse : BOOLEAN, candidate : {NUMBER}, count : {NUMBER}]

(* A request has an empty %s: two blanks before its candidate.             *)
Encode(v) ==
  <<MAGIC, DELIM_STR, IF v.isInquiry THEN INQ_STR ELSE VOTE_STR, DELIM_STR>>
    \o (IF v.isResponse THEN <<RESPONSE_STR>> ELSE <<>>)
    \o <<DELIM_STR, v.candidate>>
    \o (IF v.isResponse THEN <<DELIM_STR, v.count>> ELSE <<>>)

(* A request has its candidate as the 6th symbol, a response as the 7th.   *)
CandidatePlace(v) == IF v.isResponse THEN 7 ELSE 6

(* strtok() looks for words in a text that ends at a NUL; it runs over any *)
(* number of blanks.  Where a word begins, and where the n-th one does.    *)
Starts(text) ==
  {p \in 1 .. Len(text) : text[p] # DELIM_STR /\ (p = 1 \/ text[p - 1] = DELIM_STR)}

Nth(text, n) == {p \in Starts(text) : Cardinality({q \in Starts(text) : q <= p}) = n}

NthIsIn(text, n, words) ==
  \E p \in Nth(text, n) : text[p] \in words /\ (p = Len(text) \/ text[p + 1] = DELIM_STR)

HasR(text) == NthIsIn(text, 3, {RESPONSE_STR})

(* Which word Decode() takes for the candidate: it asks for one more than  *)
(* it has looked at, whether it has found an R or not.                     *)
Bug_CandidateAt(text) == IF HasR(text) THEN 4 ELSE 3
CandidateAt(text)     == IF HasR(text) THEN 5 ELSE 4

(* And which word is the last it asks for.  isResponse: what was in v      *)
(* before; Decode() sets it and never clears it.                           *)
LastAt(text, isResponse) ==
  CandidateAt(text) + (IF isResponse \/ HasR(text) THEN 1 ELSE 0)

Accepts(text, isResponse) ==
  /\ NthIsIn(text, 1, {MAGIC}) /\ NthIsIn(text, 2, {VOTE_STR, INQ_STR})
  /\ Nth(text, LastAt(text, isResponse)) # {}
=============================================================================
