------------------------------ MODULE VoteWire ------------------------------
(***************************************************************************)
(* Text2 messages through the framers: what Encode() makes of votes and    *)
(* counts, and other byte sequences, are put and received, and Decode()    *)
(* looks at what arrives.  It does not use the message's length: behind    *)
(* the message it reads on in the buffer, as far as the next NUL.          *)
(***************************************************************************)
EXTENDS Framing, VoteText2

CONSTANT Stale   \* what the buffer may hold behind a message, up to a NUL

ASSUME StaleAssumption == \A s \in Stale : s \in Seq(Nat)

Encodings == {Encode(v) : v \in VoteInfo}

(* Nothing, a newline in the middle, messages that just fill the buffer,   *)
(* and the buffer and waste[], one that is longer than both, and one whose *)
(* length does not fit two bytes.                                          *)
Repeat(b, n) == [k \in 1 .. n |-> b]
Noise  == {<<>>, <<NUMBER, NEWLINE, NUMBER>>}
            \cup {Repeat(NUMBER, n) : n \in {BufSize, BufSize + Waste, BufSize + Waste + 1, Base * Base}}
Puts   == Encodings \cup Noise

(* Leftovers: blanks and words, joined to the message's last word or not.  *)
Leftovers == UNION {[1 .. n -> {DELIM_STR, NUMBER}] : n \in 0 .. 4}
               \cup {Encode(v) : v \in VoteInfo}

(* Votes of which Decode() understands no text that starts with their      *)
(* message: it refuses it, or it takes a word behind the message for a     *)
(* part of it, and something else than the candidate for the candidate.    *)
Misread ==
  {v \in VoteInfo :
    \A s \in Stale : \A r \in BOOLEAN :
      LET text == Encode(v) \o s
      IN  Accepts(text, r) =>
            /\ \A p \in Nth(text, LastAt(text, r)) : p > Len(Encode(v))
            /\ \A p \in Nth(text, CandidateAt(text)) : p > CandidatePlace(v)}

(* Decode() never gets back what its own Encode() was given, whatever was  *)
(* in the VoteInfo and in the buffer before: it asks for a word that       *)
(* Encode() does not write.                                                *)
OwnMessagesMisread ==
  \A k \in 1 .. Len(results) :
    \A v \in VoteInfo : results[k] = Encode(v) => v \in Misread
=============================================================================
