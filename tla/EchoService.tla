---------------------------- MODULE EchoService ----------------------------
(***************************************************************************)
(* What every echo server of the repository promises on every connection:  *)
(* what it has sent back is at all times a prefix of what the client has   *)
(* sent.  No byte is lost before a later one, repeated, reordered, made up *)
(* or sent to another client.                                              *)
(***************************************************************************)
EXTENDS Naturals, Sequences

CONSTANTS Clients, MaxBytes

VARIABLES
  sent,   \* how many bytes each client has sent
  echo    \* the bytes the service has sent back to it

Prefix(c, n) == [k \in 1 .. n |-> <<c, k>>]

Init ==
  /\ sent = [c \in Clients |-> 0]
  /\ echo = [c \in Clients |-> <<>>]

Submit(c) ==
  /\ sent[c] < MaxBytes
  /\ sent' = [sent EXCEPT ![c] = @ + 1]
  /\ UNCHANGED echo

Reply(c) ==
  /\ \E n \in Len(echo[c]) + 1 .. sent[c] :
       echo' = [echo EXCEPT ![c] = Prefix(c, n)]
  /\ UNCHANGED sent

Next == \E c \in Clients : Submit(c) \/ Reply(c)

Spec == Init /\ [][Next]_<<sent, echo>>
=============================================================================
