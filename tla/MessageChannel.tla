--------------------------- MODULE MessageChannel ---------------------------
(***************************************************************************)
(* What Framer.h promises to the programs that use it: the receiver gets   *)
(* the messages the sender put, each whole, in their order, none twice,    *)
(* and for one that does not fit its buffer an error in its place.         *)
(***************************************************************************)
EXTENDS Naturals, Sequences

CONSTANTS
  Message,   \* the messages
  TooLong    \* what the receiver gets for one longer than its limit

VARIABLES
  limit,      \* the longest message the receiver takes
  accepted,   \* the messages put
  delivered   \* what the receiver got

channelVars == <<limit, accepted, delivered>>

Init == limit \in Nat /\ accepted = <<>> /\ delivered = <<>>

Put ==
  /\ \E m \in Message : accepted' = Append(accepted, m)
  /\ UNCHANGED <<limit, delivered>>

Get ==
  /\ Len(delivered) < Len(accepted)
  /\ LET m == accepted[Len(delivered) + 1]
     IN  delivered' = Append(delivered, IF Len(m) <= limit THEN m ELSE TooLong)
  /\ UNCHANGED <<limit, accepted>>

Next == Put \/ Get
Spec == Init /\ [][Next]_channelVars
=============================================================================
