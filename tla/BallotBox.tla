----------------------------- MODULE BallotBox -----------------------------
(***************************************************************************)
(* What the voting application promises, whatever happens to connections,  *)
(* clients and buffers: a ballot is taken at most once, in the order its   *)
(* voter sent it, only votes are counted, each at most once and never      *)
(* withdrawn, and an answer is given only for a ballot that was taken.     *)
(***************************************************************************)
EXTENDS Naturals, Sequences

CONSTANTS Voters, Candidates

VARIABLES
  ballots,   \* of each voter: of each of its ballots, whether it is a vote
  taken,     \* of each voter: the numbers of the ballots taken
  answered,  \* of each voter: how many answers were given
  counts     \* of each candidate: the votes counted

boxVars == <<ballots, taken, answered, counts>>

Init ==
  /\ taken = [c \in Voters |-> <<>>]
  /\ answered = [c \in Voters |-> 0]
  /\ counts = [k \in Candidates |-> 0]

Later(c, i) == \A k \in 1 .. Len(taken[c]) : taken[c][k] < i

Take(c, i) ==
  /\ Later(c, i)
  /\ taken' = [taken EXCEPT ![c] = Append(@, i)]
  /\ \/ counts' = counts
     \/ /\ ballots[c][i]
        /\ \E k \in Candidates : counts' = [counts EXCEPT ![k] = @ + 1]
  /\ UNCHANGED <<ballots, answered>>

Answer(c) ==
  /\ answered[c] < Len(taken[c])
  /\ answered' = [answered EXCEPT ![c] = @ + 1]
  /\ UNCHANGED <<ballots, taken, counts>>

Next == \E c \in Voters : Answer(c) \/ \E i \in 1 .. Len(ballots[c]) : Take(c, i)
Spec == Init /\ [][Next]_boxVars
=============================================================================
