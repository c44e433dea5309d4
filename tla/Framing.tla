------------------------------ MODULE Framing ------------------------------
(***************************************************************************)
(* The framers of ch05 behind Framer.h, which turn a byte stream into      *)
(* messages: DelimFramer.c (in the client and in the server) and           *)
(* DelimFramer2.c end a message with a newline, LengthFramer.c puts its    *)
(* length in front, in two bytes.  A sender puts messages, and closes the  *)
(* stream or is killed with part of it on the way; a receiver calls        *)
(* GetNextMsg() until it reports the end.  One that does not go on stops   *)
(* at a count that is not positive, as main() of VoteServer does.          *)
(*                                                                         *)
(* A getc() or fread() is one step; it waits while the stream is open and  *)
(* does not hold enough.  Bytes are numbers below Base, 256 in the code.   *)
(***************************************************************************)
EXTENDS Naturals, Sequences, SequencesExt

CONSTANTS
  Base,      \* values of a byte
  DELIM,     \* the delimiter
  BufSize,   \* the receiver's bufSize
  Waste,     \* size of the array LengthFramer.c reads an excess into
  Message,   \* byte sequences the sender may want to put
  MaxMsgs,   \* bound: how many of them it puts
  TooLong    \* what a receiver sees of a negative count

ASSUME FramingAssumption ==
  /\ Base \in Nat \ {0, 1} /\ DELIM \in 0 .. Base - 1
  /\ BufSize \in Nat \ {0} /\ Waste \in Nat /\ MaxMsgs \in Nat
  /\ \A m \in Message : m \in Seq(0 .. Base - 1) /\ m # TooLong

VARIABLES
  framer,     \* "delim" or "length": which file is linked, at both ends
  goesOn,     \* the receiver stops only at the end of the stream
  wire,       \* the bytes that were written and reach the receiver
  ended,      \* "no", "closed", or "killed": how the stream ended
  accepted,   \* the messages PutMsg() took
  pos,        \* bytes of wire the receiver has read
  buf,        \* what GetNextMsg() has stored
  size,       \* the length it has read, LengthFramer.c only
  pc,         \* "head", "body", "extra", "stopped", "exited" or "overrun"
  results     \* what GetNextMsg() has returned: messages and TooLong

vars == <<framer, goesOn, wire, ended, accepted, pos, buf, size, pc, results>>

TypeOK ==
  /\ framer \in {"delim", "length"} /\ goesOn \in BOOLEAN
  /\ wire \in Seq(0 .. Base - 1) /\ ended \in {"no", "closed", "killed"}
  /\ accepted \in Seq(Message) /\ pos \in 0 .. Len(wire)
  /\ buf \in Seq(0 .. Base - 1)
  /\ IF pc \in {"extra", "overrun"} THEN Len(buf) = BufSize ELSE Len(buf) < BufSize
  /\ size \in 0 .. Base * Base - 1
  /\ pc \in {"head", "body", "extra", "stopped", "exited", "overrun"}

Init ==
  /\ framer \in {"delim", "length"} /\ goesOn \in BOOLEAN
  /\ wire = <<>> /\ ended = "no" /\ accepted = <<>>
  /\ pos = 0 /\ buf = <<>> /\ size = 0 /\ pc = "head" /\ results = <<>>

-----------------------------------------------------------------------------
(* The sender.                                                             *)

Bug_PutDelim(m) ==               \* delimiters in the message are not looked for
  /\ m # <<>>
  /\ wire' = wire \o m \o <<DELIM>>

(* fwrite() of no bytes returns 0, which PutMsg() takes for a failure.     *)
PutDelim(m) ==
  /\ ~Contains(m, DELIM) /\ m # <<>>
  /\ wire' = wire \o m \o <<DELIM>>

(* htons() of a length that fits 16 bits.                                  *)
PutLength(m) ==
  /\ Len(m) <= Base * Base - 1
  /\ wire' = wire \o <<Len(m) \div Base, Len(m) % Base>> \o m

PutMsg ==
  /\ ended = "no" /\ Len(accepted) < MaxMsgs
  /\ \E m \in Message :
       /\ IF framer = "delim" THEN PutDelim(m) ELSE PutLength(m)
       /\ accepted' = Append(accepted, m)
  /\ UNCHANGED <<framer, goesOn, ended, pos, buf, size, pc, results>>

Close ==
  /\ ended = "no"
  /\ ended' = "closed"
  /\ UNCHANGED <<framer, goesOn, wire, accepted, pos, buf, size, pc, results>>

(* What had not yet arrived is lost, at any byte.                          *)
Killed ==
  /\ ended = "no"
  /\ \E n \in pos .. Len(wire) : wire' = SubSeq(wire, 1, n)
  /\ ended' = "killed"
  /\ UNCHANGED <<framer, goesOn, accepted, pos, buf, size, pc, results>>

-----------------------------------------------------------------------------
(* The receiver.  Return(r): GetNextMsg() returns and is called again.     *)
Left == Len(wire) - pos
EOF  == ended # "no" /\ Left = 0
Bug_Short(n) == ended # "no" /\ Left <= n   \* the last bytes do not count
Short(n)     == ended # "no" /\ Left < n

Return(r) ==
  /\ results' = Append(results, r)
  /\ buf' = <<>>
  /\ pc' = IF ~goesOn /\ r \in {TooLong, <<>>} THEN "stopped" ELSE "head"

(* DelimFramer.c and DelimFramer2.c                                        *)
GetEOF ==
  /\ framer = "delim" /\ pc = "head" /\ EOF
  /\ pc' = IF buf = <<>> THEN "stopped" ELSE "exited"
  /\ UNCHANGED <<framer, goesOn, wire, ended, accepted, pos, buf, size, results>>

GetDelim ==
  /\ framer = "delim" /\ pc = "head" /\ Left > 0 /\ wire[pos + 1] = DELIM
  /\ pos' = pos + 1
  /\ Return(buf)
  /\ UNCHANGED <<framer, goesOn, wire, ended, accepted, size>>

GetOther ==
  /\ framer = "delim" /\ pc = "head" /\ Left > 0 /\ wire[pos + 1] # DELIM
  /\ pos' = pos + 1
  /\ IF Len(buf) + 1 < BufSize
     THEN buf' = Append(buf, wire[pos + 1]) /\ UNCHANGED <<pc, results>>
     ELSE Return(TooLong)
  /\ UNCHANGED <<framer, goesOn, wire, ended, accepted, size>>

(* LengthFramer.c: the first two freads return -1 when the stream ends,    *)
(* the third one's result is not looked at.                                *)
ReadEnds ==
  /\ framer = "length"
  /\ \/ pc = "head" /\ Short(2)
     \/ pc = "body" /\ Short(size)  /\ size <= BufSize
     \/ pc = "body" /\ Short(BufSize) /\ size > BufSize
  /\ pos' = Len(wire)
  /\ pc' = "stopped"
  /\ UNCHANGED <<framer, goesOn, wire, ended, accepted, buf, size, results>>

ReadSize ==
  /\ framer = "length" /\ pc = "head" /\ Left >= 2
  /\ size' = Base * wire[pos + 1] + wire[pos + 2]
  /\ pos' = pos + 2
  /\ pc' = "body"
  /\ UNCHANGED <<framer, goesOn, wire, ended, accepted, buf, results>>

Bug_ReadBody ==                  \* what exceeds the buffer is left in the stream
  /\ framer = "length" /\ pc = "body"
  /\ LET n == IF size > BufSize THEN BufSize ELSE size
     IN  /\ Left >= n
         /\ pos' = pos + n
         /\ Return(IF size > BufSize THEN TooLong ELSE SubSeq(wire, pos + 1, pos + n))
  /\ UNCHANGED <<framer, goesOn, wire, ended, accepted, size>>

ReadBody ==
  /\ framer = "length" /\ pc = "body"
  /\ LET n == IF size > BufSize THEN BufSize ELSE size
     IN  /\ Left >= n
         /\ pos' = pos + n
         /\ IF size > BufSize
            THEN pc' = "extra" /\ buf' = SubSeq(wire, pos + 1, pos + n) /\ UNCHANGED results
            ELSE Return(SubSeq(wire, pos + 1, pos + n))
  /\ UNCHANGED <<framer, goesOn, wire, ended, accepted, size>>

(* The excess is read into waste[].                                        *)
Excess == size - BufSize

ReadExtra ==
  /\ framer = "length" /\ pc = "extra"
  /\ \/ Excess <= Waste /\ Left >= Excess /\ pos' = pos + Excess
     \/ Left <= Waste /\ Short(Excess) /\ pos' = Len(wire)
  /\ Return(TooLong)
  /\ UNCHANGED <<framer, goesOn, wire, ended, accepted, size>>

(* More of it arrives than waste[] holds, and fread() stores it behind the *)
(* array.  What the process does from there on cannot be told: the model   *)
(* ends.                                                                   *)
Overrun ==
  /\ framer = "length" /\ pc = "extra"
  /\ Excess > Waste /\ Left > Waste
  /\ pc' = "overrun"
  /\ UNCHANGED <<framer, goesOn, wire, ended, accepted, pos, buf, size, results>>

Receive == \/ GetEOF \/ GetDelim \/ GetOther
           \/ ReadEnds \/ ReadSize \/ ReadBody \/ ReadExtra \/ Overrun

Next == PutMsg \/ Close \/ Killed \/ Receive

Spec     == Init /\ [][Next]_vars
FairSpec == Spec /\ WF_vars(Receive)

-----------------------------------------------------------------------------
(* Properties.                                                             *)

(* What a whole message becomes.  A delimiter framer that is called again  *)
(* after an error returns the rest of the same message, in pieces of its   *)
(* buffer's size, the last one shorter, even empty, and not an error.      *)
Limit     == IF framer = "delim" THEN BufSize - 1 ELSE BufSize
LastN(m, n) == SubSeq(m, Len(m) - n + 1, Len(m))
Pieces(m) ==
  IF framer = "delim"
  THEN [k \in 1 .. Len(m) \div BufSize |-> TooLong]
         \o <<LastN(m, Len(m) % BufSize)>>
  ELSE <<IF Len(m) <= BufSize THEN m ELSE TooLong>>

(* Whatever the sender puts and wherever the stream is cut, the receiver   *)
(* sees pieces of the messages put, in order, and nothing else.            *)
ResultsArePieces ==
  IsPrefix(results, FlattenSeq([k \in 1 .. Len(accepted) |-> Pieces(accepted[k])]))

(* The receiver keeps the promise of Framer.h: LengthFramer.c also after a *)
(* message that was too long, the other two up to the first such message.  *)
Kept ==
  IF framer = "delim" /\ Contains(results, TooLong)
  THEN SubSeq(results, 1, CHOOSE k \in 1 .. Len(results) :
                            results[k] = TooLong /\ ~Contains(SubSeq(results, 1, k - 1), TooLong))
  ELSE results

Channel == INSTANCE MessageChannel WITH limit <- Limit, delivered <- Kept

ImplementsChannel == Channel!Spec

(* The receiver stops only at the end of the stream, with all the pieces   *)
(* of all messages returned, or at an error or an empty message, unless    *)
(* the sender was killed; inside a message it finds the end only then.  It *)
(* overruns waste[] only in a message longer than its two arrays.          *)
AllReturned == results = FlattenSeq([k \in 1 .. Len(accepted) |-> Pieces(accepted[k])])

StopIsExplained ==
  (pc \in {"stopped", "exited"} /\ ended # "killed") =>
    /\ pc = "stopped"
    /\ \/ ~goesOn /\ results # <<>> /\ Last(results) \in {TooLong, <<>>}
       \/ ended = "closed" /\ AllReturned

OverrunIsExplained ==
  pc = "overrun" => /\ Len(results) < Len(accepted)
                    /\ Len(accepted[Len(results) + 1]) > BufSize + Waste

StopsAtTheEnd == StopIsExplained /\ OverrunIsExplained

(* Once the sender has closed the stream every message it put is returned, *)
(* in its pieces, before the receiver stops, unless it stops at an error   *)
(* or at an empty message, or overruns its array in one that is too long.  *)
AllDealtWith ==
  (ended = "closed") ~>
     \/ pc = "stopped" /\ ~goesOn /\ results # <<>> /\ Last(results) \in {TooLong, <<>>}
     \/ pc = "stopped" /\ AllReturned
     \/ pc = "overrun"
=============================================================================
