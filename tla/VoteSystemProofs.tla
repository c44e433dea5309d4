-------------------------- MODULE VoteSystemProofs --------------------------
(***************************************************************************)
(* Proofs about VoteSystem.  In the first half what the server reads as a  *)
(* number does not matter: whatever atoi() makes of a line, the ballots    *)
(* are taken once, in order, and the server ends for the reasons given.    *)
(* The second half is about the digits (Text).  The invariant has these    *)
(* parts:                                                                  *)
(*   Kinds     the types of what the other parts speak of;                 *)
(*   Order     the lines still to come are later ones of the connection    *)
(*             than those taken, and all of them no more than were sent;   *)
(*   Answers   a response stands for a line taken, and while the server    *)
(*             prepares one there is a line without;                       *)
(*   Queue     a connection is queued once, before it is served and        *)
(*             closed;                                                     *)
(*   Endings   how a client can have ended, a line have been cut and a     *)
(*             connection reset;                                           *)
(*   Tally     the counts have one number per candidate;                   *)
(*   Text      the cells of inBuf behind the line hold digits and blanks,  *)
(*             and the candidate is the line's with digits appended, if    *)
(*             these make an int.                                          *)
(* On it rest two more: that a connection accepted is queued or served,    *)
(* and where the answer to a client's only line is (Owing).                *)
(***************************************************************************)
EXTENDS VoteSystem, SequenceTheorems, WellFoundedInduction, TLAPS

Kinds ==
  /\ cpc \in [Clients -> {"start", "wait", "done", "dead"}]
  /\ lines \in [Clients -> Sendings]
  /\ toServer \in [Clients -> Seq(Piece)]
  /\ toClient \in [Clients -> Seq({"Voting", "count"})]
  /\ fin \in [Clients -> BOOLEAN] /\ shut \in [Clients -> BOOLEAN]
  /\ reset \in [Clients -> BOOLEAN]
  /\ backlog \in Seq(Clients)
  /\ cur \in Clients
  /\ taken \in [Clients -> Seq(Nat)]

Order ==
  \A c \in Clients :
    /\ Len(taken[c]) + Len(toServer[c]) <= Len(lines[c])
    /\ \A k \in 1 .. Len(toServer[c]) :
         /\ toServer[c][k].nr \in 1 .. Len(lines[c])
         /\ \A j \in 1 .. k - 1 : toServer[c][j].nr < toServer[c][k].nr
         /\ \A j \in 1 .. Len(taken[c]) : taken[c][j] < toServer[c][k].nr
    /\ cpc[c] = "start" => toServer[c] = <<>> /\ taken[c] = <<>>

Answers ==
  /\ \A c \in Clients : Len(toClient[c]) <= Len(taken[c])
  /\ spc = "put" => Len(toClient[cur]) < Len(taken[cur])

Queue ==
  Running =>
    /\ \A k \in 1 .. Len(backlog) :
         /\ cpc[backlog[k]] # "start" /\ ~shut[backlog[k]]
         /\ \A j \in 1 .. k - 1 : backlog[j] # backlog[k]
         /\ spc \in {"get", "put"} => backlog[k] # cur
    /\ spc \in {"get", "put"} => cpc[cur] # "start" /\ ~shut[cur]
    /\ \A c \in Clients : cpc[c] = "start" => ~shut[c]

Endings ==
  \A c \in Clients :
    /\ cpc[c] = "done" => Len(toClient[c]) = Len(lines[c]) \/ shut[c]
    /\ fin[c] => cpc[c] \in {"done", "dead"}
    /\ reset[c] => fin[c] /\ Len(toClient[c]) > 0
    /\ \A k \in 1 .. Len(toServer[c]) : toServer[c][k].is = "cut" => cpc[c] = "dead"

Inv == Kinds /\ Order /\ Answers /\ Queue /\ Endings /\ ExitIsExplained

-----------------------------------------------------------------------------
LEMMA SendingFacts ==
  ASSUME Kinds, NEW c \in Clients
  PROVE  /\ lines[c] \in Seq(Line) /\ Len(lines[c]) \in Nat /\ Len(lines[c]) > 0
         /\ toServer[c] \in Seq(Piece) /\ Len(toServer[c]) \in Nat
         /\ taken[c] \in Seq(Nat) /\ Len(taken[c]) \in Nat
         /\ Len(toClient[c]) \in Nat
  <1>1. lines[c] \in Seq(Line) /\ lines[c] # <<>>
    BY VoteAssumption DEF Kinds
  <1>2. Len(lines[c]) \in Nat /\ Len(lines[c]) > 0
    BY <1>1, EmptySeq
  <1>. QED BY <1>1, <1>2 DEF Kinds

LEMMA WholeFacts ==
  ASSUME NEW n \in Nat
  PROVE  /\ Whole(n) \in Seq(Piece) /\ Len(Whole(n)) = n
         /\ \A k \in 1 .. n : Whole(n)[k].nr = k /\ Whole(n)[k].is = "whole"
  <1>1. \A k \in 1 .. n : [nr |-> k, is |-> "whole"] \in Piece
    BY DEF Piece
  <1>2. Whole(n) \in Seq(Piece)
    BY <1>1, IsASeq DEF Whole
  <1>. QED BY <1>2, LenProperties DEF Whole

(* What DieSending leaves: some lines and perhaps a part of the next.      *)
LEMMA CutFacts ==
  ASSUME NEW n \in Nat,
         NEW s \in {Whole(n), Append(Whole(n), [nr |-> n + 1, is |-> "cut"])}
  PROVE  /\ s \in Seq(Piece) /\ Len(s) \in Nat /\ Len(s) <= n + 1
         /\ \A k \in 1 .. Len(s) : s[k].nr = k
  <1>1. CASE s = Whole(n)
    BY <1>1, WholeFacts
  <1>2. CASE s = Append(Whole(n), [nr |-> n + 1, is |-> "cut"])
    <2>1. [nr |-> n + 1, is |-> "cut"] \in Piece
      BY DEF Piece
    <2>2. /\ s \in Seq(Piece) /\ Len(s) = n + 1
          /\ \A k \in 1 .. n : s[k] = Whole(n)[k]
          /\ s[n + 1] = [nr |-> n + 1, is |-> "cut"]
      BY <1>2, <2>1, WholeFacts, AppendProperties
    <2>3. ASSUME NEW k \in 1 .. Len(s) PROVE s[k].nr = k
      <3>1. k \in 1 .. n \/ k = n + 1
        BY <2>2
      <3>2. CASE k \in 1 .. n
        BY <2>2, <3>2, WholeFacts
      <3>3. CASE k = n + 1
        BY <2>2, <3>3
      <3>. QED BY <3>1, <3>2, <3>3
    <2>. QED BY <2>2, <2>3
  <1>. QED BY <1>1, <1>2

(* What is left when the first m pieces are gone, or all but the end of    *)
(* the last of them.                                                       *)
Rest(t, s, m) ==
  /\ t \in Seq(Piece) /\ Len(t) = Len(s) - m
  /\ \A k \in 1 .. Len(t) : /\ t[k].nr = s[k + m].nr
                            /\ t[k].is = "cut" => s[k + m].is = "cut"

LEMMA TailIsRest ==
  ASSUME NEW s \in Seq(Piece), s # <<>>
  PROVE  Rest(Tail(s), s, 1)
  BY HeadTailProperties DEF Rest

LEMMA SuffixFacts ==
  ASSUME NEW s \in Seq(Piece), NEW n \in 0 .. Len(s)
  PROVE  /\ SubSeq(s, n + 1, Len(s)) \in Seq(Piece)
         /\ Len(SubSeq(s, n + 1, Len(s))) = Len(s) - n
         /\ \A k \in 1 .. Len(s) - n : SubSeq(s, n + 1, Len(s))[k] = s[k + n]
  <1>1. \A k \in n + 1 .. Len(s) : s[k] \in Piece
    BY ElementOfSeq
  <1> DEFINE t == SubSeq(s, n + 1, Len(s))
  <1>2. /\ t \in Seq(Piece)
        /\ Len(t) = IF n + 1 <= Len(s) THEN Len(s) - (n + 1) + 1 ELSE 0
        /\ \A k \in 1 .. Len(s) - (n + 1) + 1 : t[k] = s[n + 1 + k - 1]
    BY <1>1, SubSeqProperties
  <1> HIDE DEF t
  <1>3. Len(s) \in Nat /\ n \in Nat /\ n <= Len(s)
    OBVIOUS
  <1>4. Len(s) - (n + 1) + 1 = Len(s) - n
    BY <1>3
  <1>5. Len(t) = Len(s) - n
    BY <1>2, <1>3
  <1>6. ASSUME NEW k \in 1 .. Len(s) - n PROVE t[k] = s[k + n]
    <2>1. n + 1 + k - 1 = k + n
      BY <1>3
    <2>. QED BY <1>2, <1>4, <2>1
  <1>. QED BY <1>2, <1>5, <1>6 DEF t

LEMMA UndroppedIsRest ==
  ASSUME NEW s \in Seq(Piece), NEW t \in Undropped(s)
  PROVE  \E m \in 0 .. Len(s) : Rest(t, s, m)
  <1>0. Len(s) \in Nat
    OBVIOUS
  <1>1. ASSUME NEW n \in 0 .. Len(s), t = SubSeq(s, n + 1, Len(s))
        PROVE  Rest(t, s, n)
    BY <1>1, SuffixFacts DEF Rest
  <1>2. ASSUME NEW n \in 1 .. Len(s),
               t = <<[s[n] EXCEPT !.is = IF @ = "cut" THEN @ ELSE "rest"]>>
                     \o SubSeq(s, n + 1, Len(s))
        PROVE  Rest(t, s, n - 1)
    <2> DEFINE p == [s[n] EXCEPT !.is = IF @ = "cut" THEN @ ELSE "rest"]
               u == SubSeq(s, n + 1, Len(s))
    <2>1. s[n] \in Piece
      BY ElementOfSeq
    <2>2. p \in Piece /\ p.nr = s[n].nr /\ (p.is = "cut" => s[n].is = "cut")
      BY <2>1 DEF Piece
    <2>3. n \in 0 .. Len(s) /\ n \in Nat /\ n - 1 \in 0 .. Len(s)
      BY <1>0
    <2>4. /\ u \in Seq(Piece) /\ Len(u) = Len(s) - n
          /\ \A k \in 1 .. Len(s) - n : u[k] = s[k + n]
      BY <2>3, SuffixFacts
    <2>5. t = <<p>> \o u
      BY <1>2
    <2> HIDE DEF p, u
    <2>6. <<p>> \in Seq(Piece) /\ Len(<<p>>) = 1 /\ <<p>>[1] = p
      BY <2>2
    <2>7. /\ t \in Seq(Piece) /\ Len(t) = 1 + Len(u)
          /\ \A k \in 1 .. 1 + Len(u) : t[k] = IF k <= 1 THEN <<p>>[k] ELSE u[k - 1]
      BY <2>4, <2>5, <2>6, ConcatProperties
    <2>8. Len(t) = Len(s) - (n - 1)
      BY <1>0, <2>3, <2>4, <2>7
    <2>9. ASSUME NEW k \in 1 .. Len(t)
          PROVE  /\ t[k].nr = s[k + (n - 1)].nr
                 /\ t[k].is = "cut" => s[k + (n - 1)].is = "cut"
      <3>1. CASE k = 1
        <4>1. k + (n - 1) = n /\ k \in 1 .. 1 + Len(u) /\ k <= 1
          BY <2>3, <2>4, <2>7, <3>1
        <4>2. t[k] = p
          BY <2>6, <2>7, <3>1, <4>1
        <4>. QED BY <2>2, <4>1, <4>2
      <3>2. CASE k # 1
        <4>1. k - 1 \in 1 .. Len(s) - n /\ k - 1 + n = k + (n - 1) /\ ~ k <= 1
              /\ k \in 1 .. 1 + Len(u)
          BY <1>0, <2>3, <2>4, <2>7, <3>2
        <4>2. t[k] = s[k + (n - 1)]
          BY <2>4, <2>7, <4>1
        <4>. QED BY <4>2
      <3>. QED BY <3>1, <3>2
    <2>. QED BY <2>7, <2>8, <2>9 DEF Rest
  <1>3. \A n \in 1 .. Len(s) : n - 1 \in 0 .. Len(s)
    BY <1>0
  <1>. QED BY <1>1, <1>2, <1>3 DEF Undropped

LEMMA InvInit ==
  ASSUME Init
  PROVE  Inv
  <1>1. \A c \in Clients : taken[c] = <<>> /\ toServer[c] = <<>> /\ toClient[c] = <<>>
    BY DEF Init
  <1>2. Kinds
    <2>1. /\ toServer \in [Clients -> Seq(Piece)] /\ taken \in [Clients -> Seq(Nat)]
          /\ toClient \in [Clients -> Seq({"Voting", "count"})]
          /\ backlog \in Seq(Clients)
      BY EmptySeq DEF Init
    <2>. QED BY <2>1 DEF Init, Kinds
  <1>3. Order
    <2> SUFFICES ASSUME NEW c \in Clients
                 PROVE  /\ Len(taken[c]) + Len(toServer[c]) <= Len(lines[c])
                        /\ 1 .. Len(toServer[c]) = {}
      BY <1>1 DEF Order
    <2>1. Len(taken[c]) = 0 /\ Len(toServer[c]) = 0
      BY <1>1
    <2>. QED BY <1>2, <2>1, SendingFacts
  <1>4. Answers
    BY <1>1, <1>2, SendingFacts DEF Init, Answers
  <1>5. Queue
    BY DEF Init, Queue, Running
  <1>6. Endings
    <2>1. \A c \in Clients : 1 .. Len(toServer[c]) = {}
      BY <1>1
    <2>. QED BY <2>1 DEF Init, Endings
  <1>7. ExitIsExplained
    BY DEF Init, ExitIsExplained
  <1>. QED BY <1>2, <1>3, <1>4, <1>5, <1>6, <1>7 DEF Inv

-----------------------------------------------------------------------------
(* A client connects.                                                      *)
LEMMA QueuedStep ==
  ASSUME Inv, NEW c \in Clients, cpc[c] = "start", Running,
         backlog' = Append(backlog, c),
         cpc' \in [Clients -> {"start", "wait", "done", "dead"}], cpc'[c] # "start",
         \A d \in Clients \ {c} : cpc'[d] = cpc[d],
         UNCHANGED <<spc, cur, shut>>
  PROVE  Queue' /\ backlog' \in Seq(Clients)
  <1>1. /\ backlog \in Seq(Clients) /\ Len(backlog) \in Nat /\ cur \in Clients
        /\ \A k \in 1 .. Len(backlog) : backlog[k] \in Clients
    BY ElementOfSeq DEF Inv, Kinds
  <1>2. /\ backlog' \in Seq(Clients) /\ Len(backlog') = Len(backlog) + 1
        /\ \A k \in 1 .. Len(backlog) : backlog'[k] = backlog[k]
        /\ backlog'[Len(backlog) + 1] = c
    BY <1>1, AppendProperties
  <1>3. /\ \A k \in 1 .. Len(backlog) : backlog[k] # c
        /\ spc \in {"get", "put"} => cur # c
        /\ ~shut[c]
    BY DEF Inv, Queue, Running
  <1>4. ASSUME NEW k \in 1 .. Len(backlog')
        PROVE  /\ cpc'[backlog'[k]] # "start" /\ ~shut'[backlog'[k]]
               /\ \A j \in 1 .. k - 1 : backlog'[j] # backlog'[k]
               /\ spc' \in {"get", "put"} => backlog'[k] # cur'
    <2>1. CASE k \in 1 .. Len(backlog)
      <3>1. \A j \in 1 .. k - 1 : j \in 1 .. Len(backlog)
        BY <1>1, <2>1
      <3>. QED BY <1>1, <1>2, <1>3, <2>1, <3>1 DEF Inv, Queue, Running
    <2>2. CASE k = Len(backlog) + 1
      <3>1. \A j \in 1 .. k - 1 : j \in 1 .. Len(backlog)
        BY <1>1, <2>2
      <3>. QED BY <1>2, <1>3, <2>2, <3>1
    <2>. QED BY <1>1, <1>2, <2>1, <2>2
  <1>5. spc' \in {"get", "put"} => cpc'[cur'] # "start" /\ ~shut'[cur']
    BY <1>1, <1>3 DEF Inv, Queue, Running
  <1>6. \A d \in Clients : cpc'[d] = "start" => ~shut'[d]
    BY <1>3 DEF Inv, Queue, Running
  <1>. QED BY <1>2, <1>4, <1>5, <1>6 DEF Queue, Running

(* What it has sent is in order, and none of it taken.                     *)
LEMMA SentStep ==
  ASSUME Inv, NEW c \in Clients, cpc[c] = "start",
         NEW s \in Seq(Piece), Len(s) <= Len(lines[c]),
         \A k \in 1 .. Len(s) : s[k].nr = k,
         toServer' = [toServer EXCEPT ![c] = s],
         cpc'[c] # "start", \A d \in Clients \ {c} : cpc'[d] = cpc[d],
         UNCHANGED <<taken, lines>>
  PROVE  Order' /\ toServer' \in [Clients -> Seq(Piece)]
  <1>1. /\ toServer' \in [Clients -> Seq(Piece)] /\ toServer'[c] = s
        /\ \A d \in Clients \ {c} : toServer'[d] = toServer[d]
    BY DEF Inv, Kinds
  <1>2. Len(taken[c]) = 0 /\ Len(s) \in Nat /\ Len(lines[c]) \in Nat
    <2>1. taken[c] = <<>>
      BY DEF Inv, Order
    <2>2. Len(lines[c]) \in Nat /\ Kinds
      BY SendingFacts DEF Inv
    <2>. QED BY <2>1, <2>2
  <1>3. ASSUME NEW d \in Clients
        PROVE  /\ Len(taken'[d]) + Len(toServer'[d]) <= Len(lines'[d])
               /\ \A k \in 1 .. Len(toServer'[d]) :
                    /\ toServer'[d][k].nr \in 1 .. Len(lines'[d])
                    /\ \A j \in 1 .. k - 1 : toServer'[d][j].nr < toServer'[d][k].nr
                    /\ \A j \in 1 .. Len(taken'[d]) : taken'[d][j] < toServer'[d][k].nr
               /\ cpc'[d] = "start" => toServer'[d] = <<>> /\ taken'[d] = <<>>
    <2>1. CASE d = c
      <3>1. Len(taken'[d]) + Len(toServer'[d]) <= Len(lines'[d])
        BY <1>1, <1>2, <2>1
      <3>2. ASSUME NEW k \in 1 .. Len(s)
            PROVE  /\ s[k].nr \in 1 .. Len(lines[c])
                   /\ \A j \in 1 .. k - 1 : s[j].nr < s[k].nr
        <4>1. k \in Nat /\ s[k].nr = k /\ k \in 1 .. Len(lines[c])
          BY <1>2
        <4>2. \A j \in 1 .. k - 1 : s[j].nr = j /\ j < k
          BY <1>2, <4>1
        <4>. QED BY <4>1, <4>2
      <3>3. 1 .. Len(taken'[c]) = {}
        BY <1>2
      <3>. QED BY <1>1, <2>1, <3>1, <3>2, <3>3
    <2>2. CASE d # c
      BY <1>1, <2>2 DEF Inv, Order
    <2>. QED BY <2>1, <2>2
  <1>. QED BY <1>1, <1>3 DEF Order

LEMMA SendLineInv ==
  ASSUME Inv, NEW c \in Clients, SendLine(c)
  PROVE  Inv'
  <1> DEFINE s == Whole(Len(lines[c]))
  <1>1. /\ cpc[c] = "start" /\ Running
        /\ cpc' = [cpc EXCEPT ![c] = "wait"]
        /\ toServer' = [toServer EXCEPT ![c] = s]
        /\ backlog' = Append(backlog, c)
        /\ UNCHANGED <<lines, result, toClient, fin, reset, shut, spc, cur, taken>>
    BY DEF SendLine, serverVars
  <1>2. /\ s \in Seq(Piece) /\ Len(s) = Len(lines[c])
        /\ \A k \in 1 .. Len(s) : s[k].nr = k /\ s[k].is = "whole"
        /\ Len(lines[c]) \in Nat
    BY WholeFacts, SendingFacts DEF Inv
  <1> HIDE DEF s
  <1>3. /\ cpc' \in [Clients -> {"start", "wait", "done", "dead"}] /\ cpc'[c] = "wait"
        /\ \A d \in Clients \ {c} : cpc'[d] = cpc[d]
    BY <1>1 DEF Inv, Kinds
  <1>4. Queue' /\ backlog' \in Seq(Clients)
    BY <1>1, <1>3, QueuedStep
  <1>5. Order' /\ toServer' \in [Clients -> Seq(Piece)]
    <2>1. Len(s) <= Len(lines[c])
      BY <1>2
    <2>. QED BY <1>1, <1>2, <1>3, <2>1, SentStep
  <1>6. Kinds'
    BY <1>1, <1>3, <1>4, <1>5 DEF Inv, Kinds
  <1>7. Answers'
    BY <1>1 DEF Inv, Answers
  <1>8. Endings'
    <2>1. toServer'[c] = s /\ \A d \in Clients \ {c} : toServer'[d] = toServer[d]
      BY <1>1 DEF Inv, Kinds
    <2>2. ~fin[c]
      BY <1>1 DEF Inv, Endings
    <2>3. ASSUME NEW d \in Clients, NEW k \in 1 .. Len(toServer'[d]), toServer'[d][k].is = "cut"
          PROVE  cpc'[d] = "dead"
      <3>1. d # c
        BY <1>2, <2>1, <2>3
      <3>. QED BY <1>3, <2>1, <2>3, <3>1 DEF Inv, Endings
    <2>. QED BY <1>1, <1>3, <2>2, <2>3 DEF Inv, Endings
  <1>9. ExitIsExplained'
    BY <1>1 DEF ExitIsExplained, Running
  <1>. QED BY <1>4, <1>5, <1>6, <1>7, <1>8, <1>9 DEF Inv

LEMMA DieSendingInv ==
  ASSUME Inv, NEW c \in Clients, DieSending(c)
  PROVE  Inv'
  <1>1. /\ cpc[c] = "start" /\ Running
        /\ cpc' = [cpc EXCEPT ![c] = "dead"]
        /\ fin' = [fin EXCEPT ![c] = TRUE]
        /\ backlog' = Append(backlog, c)
        /\ UNCHANGED <<lines, result, toClient, reset, shut, spc, cur, taken>>
    BY DEF DieSending, serverVars
  <1>2. PICK n \in 0 .. Len(lines[c]) - 1 :
          \E s \in {Whole(n), Append(Whole(n), [nr |-> n + 1, is |-> "cut"])} :
            toServer' = [toServer EXCEPT ![c] = s]
    BY DEF DieSending
  <1>3. PICK s \in {Whole(n), Append(Whole(n), [nr |-> n + 1, is |-> "cut"])} :
          toServer' = [toServer EXCEPT ![c] = s]
    BY <1>2
  <1>4. /\ s \in Seq(Piece) /\ Len(s) <= Len(lines[c])
        /\ \A k \in 1 .. Len(s) : s[k].nr = k
    <2>1. Len(lines[c]) \in Nat /\ n \in Nat /\ n + 1 <= Len(lines[c])
      BY SendingFacts DEF Inv
    <2>2. /\ s \in Seq(Piece) /\ Len(s) \in Nat /\ Len(s) <= n + 1
          /\ \A k \in 1 .. Len(s) : s[k].nr = k
      BY <2>1, CutFacts
    <2>. QED BY <2>1, <2>2
  <1>5. /\ cpc' \in [Clients -> {"start", "wait", "done", "dead"}] /\ cpc'[c] = "dead"
        /\ \A d \in Clients \ {c} : cpc'[d] = cpc[d]
        /\ fin' \in [Clients -> BOOLEAN] /\ fin'[c]
        /\ \A d \in Clients \ {c} : fin'[d] = fin[d]
    BY <1>1 DEF Inv, Kinds
  <1>6. Queue' /\ backlog' \in Seq(Clients)
    BY <1>1, <1>5, QueuedStep
  <1>7. Order' /\ toServer' \in [Clients -> Seq(Piece)]
    BY <1>1, <1>3, <1>4, <1>5, SentStep
  <1>8. Kinds'
    BY <1>1, <1>5, <1>6, <1>7 DEF Inv, Kinds
  <1>9. Answers'
    BY <1>1 DEF Inv, Answers
  <1>10. Endings'
    <2>1. \A d \in Clients \ {c} : toServer'[d] = toServer[d]
      BY <1>3 DEF Inv, Kinds
    <2>2. ~reset[c]
      BY <1>1 DEF Inv, Endings
    <2>. QED BY <1>1, <1>5, <2>1, <2>2 DEF Inv, Endings
  <1>11. ExitIsExplained'
    BY <1>1 DEF ExitIsExplained, Running
  <1>. QED BY <1>6, <1>7, <1>8, <1>9, <1>10, <1>11 DEF Inv

-----------------------------------------------------------------------------
(* A client ends.                                                          *)
LEMMA ClientEndsInv ==
  ASSUME Inv, NEW c \in Clients, DieWaiting(c) \/ GetResponse(c)
  PROVE  Inv'
  <1>1. PICK how \in {"done", "dead"} :
          /\ cpc' = [cpc EXCEPT ![c] = how]
          /\ how = "done" => Len(toClient[c]) = Len(lines[c]) \/ shut[c]
          /\ how = "done" => reset' = reset
    BY DEF DieWaiting, GetResponse
  <1>2. /\ cpc[c] = "wait" /\ fin' = [fin EXCEPT ![c] = TRUE]
        /\ UNCHANGED <<lines, toServer, toClient, shut, backlog, spc, cur, taken>>
        /\ \/ reset' = reset
           \/ toClient[c] # <<>> /\ reset' = [reset EXCEPT ![c] = TRUE]
    BY DEF DieWaiting, GetResponse, serverVars
  <1>3. /\ cpc' \in [Clients -> {"start", "wait", "done", "dead"}] /\ cpc'[c] = how
        /\ \A d \in Clients \ {c} : cpc'[d] = cpc[d]
        /\ fin' \in [Clients -> BOOLEAN] /\ fin'[c]
        /\ \A d \in Clients \ {c} : fin'[d] = fin[d]
        /\ reset' \in [Clients -> BOOLEAN] /\ \A d \in Clients : reset[d] => reset'[d]
        /\ \A d \in Clients \ {c} : reset'[d] = reset[d]
        /\ reset'[c] => reset[c] \/ toClient[c] # <<>>
    BY <1>1, <1>2 DEF Inv, Kinds
  <1>4. toClient[c] # <<>> => Len(toClient[c]) > 0
    BY EmptySeq DEF Inv, Kinds
  <1>5. Kinds'
    BY <1>2, <1>3 DEF Inv, Kinds
  <1>6. Order' /\ Answers'
    <2>1. \A d \in Clients : cpc'[d] = "start" => cpc[d] = "start"
      BY <1>2, <1>3
    <2>2. Order'
      BY <1>2, <2>1 DEF Inv, Order
    <2>3. Answers'
      BY <1>2 DEF Inv, Answers
    <2>. QED BY <2>2, <2>3
  <1>7. Queue'
    <2>1. \A d \in Clients : cpc'[d] = "start" => cpc[d] = "start"
      BY <1>2, <1>3
    <2>2. cur \in Clients /\ \A k \in 1 .. Len(backlog) : backlog[k] \in Clients
      BY ElementOfSeq DEF Inv, Kinds
    <2>. QED BY <1>2, <2>1, <2>2 DEF Inv, Queue, Running
  <1>8. Endings'
    <2> SUFFICES ASSUME NEW d \in Clients
                 PROVE  /\ cpc'[d] = "done" => Len(toClient'[d]) = Len(lines'[d]) \/ shut'[d]
                        /\ fin'[d] => cpc'[d] \in {"done", "dead"}
                        /\ reset'[d] => fin'[d] /\ Len(toClient'[d]) > 0
                        /\ \A k \in 1 .. Len(toServer'[d]) :
                             toServer'[d][k].is = "cut" => cpc'[d] = "dead"
      BY DEF Endings
    <2>1. CASE d = c
      BY <1>1, <1>2, <1>3, <1>4, <2>1 DEF Inv, Endings
    <2>2. CASE d # c
      BY <1>2, <1>3, <2>2 DEF Inv, Endings
    <2>. QED BY <2>1, <2>2
  <1>9. ExitIsExplained'
    BY <1>2, <1>3 DEF Inv, ExitIsExplained
  <1>. QED BY <1>5, <1>6, <1>7, <1>8, <1>9 DEF Inv

-----------------------------------------------------------------------------
(* The server.  What it does to the lines of its connection.               *)
LEMMA RestStep ==
  ASSUME Inv, NEW m \in 0 .. Len(toServer[cur]),
         toServer' \in [Clients -> Seq(Piece)],
         Rest(toServer'[cur], toServer[cur], m),
         \A d \in Clients \ {cur} : toServer'[d] = toServer[d],
         UNCHANGED <<lines, cpc>>,
         cpc[cur] # "start",
         \/ taken' = taken
         \/ /\ m = 1
            /\ taken' = [taken EXCEPT ![cur] = Append(@, toServer[cur][1].nr)]
  PROVE  /\ Order' /\ taken' \in [Clients -> Seq(Nat)]
         /\ \A d \in Clients : \A k \in 1 .. Len(toServer'[d]) :
              toServer'[d][k].is = "cut" => cpc'[d] = "dead"
  <1> DEFINE s == toServer[cur]
             t == toServer'[cur]
             a == taken[cur]
             b == taken'[cur]
  <1>1. /\ cur \in Clients /\ s \in Seq(Piece) /\ Len(s) \in Nat /\ m \in Nat /\ m <= Len(s)
        /\ a \in Seq(Nat) /\ Len(a) \in Nat /\ Len(lines[cur]) \in Nat
    BY SendingFacts DEF Inv, Kinds
  <1>2. /\ t \in Seq(Piece) /\ Len(t) = Len(s) - m
        /\ \A k \in 1 .. Len(t) : /\ t[k].nr = s[k + m].nr
                                  /\ t[k].is = "cut" => s[k + m].is = "cut"
    BY DEF Rest
  <1>3. /\ Len(a) + Len(s) <= Len(lines[cur])
        /\ \A k \in 1 .. Len(s) :
             /\ s[k].nr \in 1 .. Len(lines[cur])
             /\ \A j \in 1 .. k - 1 : s[j].nr < s[k].nr
             /\ \A j \in 1 .. Len(a) : a[j] < s[k].nr
             /\ s[k].is = "cut" => cpc[cur] = "dead"
    BY <1>1 DEF Inv, Order, Endings
  <1>4. /\ taken' \in [Clients -> Seq(Nat)]
        /\ \A d \in Clients \ {cur} : taken'[d] = taken[d]
        /\ \/ b = a
           \/ m = 1 /\ b = Append(a, s[1].nr) /\ s[1].nr \in Nat
    <2>1. CASE taken' = taken
      BY <2>1 DEF Inv, Kinds
    <2>2. CASE /\ m = 1
               /\ taken' = [taken EXCEPT ![cur] = Append(@, toServer[cur][1].nr)]
      <3>1. 1 \in 1 .. Len(s)
        BY <1>1, <2>2
      <3>2. s[1].nr \in Nat
        BY <1>1, <1>3, <3>1
      <3>3. taken \in [Clients -> Seq(Nat)]
        BY DEF Inv, Kinds
      <3>4. Append(a, s[1].nr) \in Seq(Nat)
        BY <1>1, <3>2, AppendProperties
      <3>. QED BY <1>1, <2>2, <3>2, <3>3, <3>4
    <2>. QED BY <2>1, <2>2
  <1> HIDE DEF s, t, a, b
  <1>5. /\ Len(b) \in Nat /\ Len(b) + Len(t) <= Len(lines[cur])
        /\ \A k \in 1 .. Len(t) : \A j \in 1 .. Len(b) : b[j] < t[k].nr
    <2>1. CASE b = a
      <3>1. \A k \in 1 .. Len(t) : k + m \in 1 .. Len(s)
        BY <1>1, <1>2
      <3>. QED BY <1>1, <1>2, <1>3, <2>1, <3>1
    <2>2. CASE m = 1 /\ b = Append(a, s[1].nr) /\ s[1].nr \in Nat
      <3>1. /\ Len(b) = Len(a) + 1 /\ \A j \in 1 .. Len(a) : b[j] = a[j]
            /\ b[Len(a) + 1] = s[1].nr
        BY <1>1, <2>2, AppendProperties
      <3>2. \A k \in 1 .. Len(t) : k + 1 \in 1 .. Len(s) /\ 1 \in 1 .. (k + 1) - 1
        BY <1>1, <1>2, <2>2
      <3>3. \A j \in 1 .. Len(b) : j \in 1 .. Len(a) \/ j = Len(a) + 1
        BY <1>1, <3>1
      <3>4. Len(b) \in Nat /\ Len(b) + Len(t) <= Len(lines[cur])
        BY <1>1, <1>2, <1>3, <2>2, <3>1
      <3>5. ASSUME NEW k \in 1 .. Len(t), NEW j \in 1 .. Len(b) PROVE b[j] < t[k].nr
        <4>1. t[k].nr = s[k + 1].nr
          BY <1>2, <2>2
        <4>2. CASE j \in 1 .. Len(a)
          BY <1>3, <3>1, <3>2, <4>1, <4>2
        <4>3. CASE j = Len(a) + 1
          BY <1>3, <3>1, <3>2, <4>1, <4>3
        <4>. QED BY <3>3, <4>2, <4>3
      <3>. QED BY <3>4, <3>5
    <2>. QED BY <1>4, <2>1, <2>2
  <1>6. ASSUME NEW k \in 1 .. Len(t)
        PROVE  /\ t[k].nr \in 1 .. Len(lines[cur])
               /\ \A j \in 1 .. k - 1 : t[j].nr < t[k].nr
               /\ t[k].is = "cut" => cpc[cur] = "dead"
    <2>1. k + m \in 1 .. Len(s)
      BY <1>1, <1>2
    <2>2. \A j \in 1 .. k - 1 : j \in 1 .. Len(t) /\ j + m \in 1 .. (k + m) - 1
      BY <1>1, <1>2
    <2>. QED BY <1>2, <1>3, <2>1, <2>2
  <1>7. Order'
    <2> SUFFICES ASSUME NEW d \in Clients
                 PROVE  /\ Len(taken'[d]) + Len(toServer'[d]) <= Len(lines'[d])
                        /\ \A k \in 1 .. Len(toServer'[d]) :
                             /\ toServer'[d][k].nr \in 1 .. Len(lines'[d])
                             /\ \A j \in 1 .. k - 1 : toServer'[d][j].nr < toServer'[d][k].nr
                             /\ \A j \in 1 .. Len(taken'[d]) : taken'[d][j] < toServer'[d][k].nr
                        /\ cpc'[d] = "start" => toServer'[d] = <<>> /\ taken'[d] = <<>>
      BY DEF Order
    <2>1. CASE d = cur
      BY <1>5, <1>6, <2>1 DEF t, b
    <2>2. CASE d # cur
      BY <1>4, <2>2 DEF Inv, Order
    <2>. QED BY <2>1, <2>2
  <1>8. ASSUME NEW d \in Clients, NEW k \in 1 .. Len(toServer'[d]), toServer'[d][k].is = "cut"
        PROVE  cpc'[d] = "dead"
    <2>1. CASE d = cur
      BY <1>6, <1>8, <2>1 DEF t
    <2>2. CASE d # cur
      BY <1>8, <2>2 DEF Inv, Endings
    <2>. QED BY <2>1, <2>2
  <1>. QED BY <1>4, <1>7, <1>8

(* What it does to the queue: it goes on with its connection, closes it or *)
(* ends.                                                                   *)
LEMMA ServingStep ==
  ASSUME Inv, spc \in {"get", "put"}, UNCHANGED <<cpc, backlog, cur>>,
         \/ spc' \in {"get", "put"} /\ shut' = shut
         \/ HangUp
         \/ Exit
  PROVE  /\ Queue' /\ shut' \in [Clients -> BOOLEAN]
         /\ \A c \in Clients : shut[c] => shut'[c]
         /\ cpc[cur] # "start" /\ ~shut[cur]
  <1>1. /\ cur \in Clients /\ \A k \in 1 .. Len(backlog) : backlog[k] \in Clients
        /\ cpc[cur] # "start" /\ ~shut[cur]
        /\ shut \in [Clients -> BOOLEAN]
    BY ElementOfSeq DEF Inv, Kinds, Queue, Running
  <1>2. CASE spc' \in {"get", "put"} /\ shut' = shut
    BY <1>1, <1>2 DEF Inv, Queue, Running
  <1>3. CASE HangUp
    <2>1. /\ spc' = "accept" /\ shut' \in [Clients -> BOOLEAN]
          /\ \A d \in Clients \ {cur} : shut'[d] = shut[d]
          /\ shut'[cur]
      BY <1>1, <1>3 DEF HangUp
    <2>2. \A k \in 1 .. Len(backlog) : backlog[k] # cur
      BY DEF Inv, Queue, Running
    <2>. QED BY <1>1, <2>1, <2>2 DEF Inv, Queue, Running
  <1>4. CASE Exit
    BY <1>1, <1>4 DEF Exit, Queue, Running
  <1>. QED BY <1>2, <1>3, <1>4
LEMMA AcceptInv ==
  ASSUME Inv, Accept
  PROVE  Inv'
  <1>1. /\ spc = "accept" /\ backlog # <<>> /\ cur' = Head(backlog) /\ spc' = "get"
        /\ backlog' = Tail(backlog)
        /\ UNCHANGED <<cpc, lines, toServer, toClient, fin, reset, shut, taken>>
    BY DEF Accept, clientVars
  <1>2. /\ backlog \in Seq(Clients) /\ Len(backlog) \in Nat /\ Len(backlog) >= 1
        /\ Head(backlog) = backlog[1] /\ backlog[1] \in Clients
        /\ Tail(backlog) \in Seq(Clients) /\ Len(Tail(backlog)) = Len(backlog) - 1
        /\ \A k \in 1 .. Len(Tail(backlog)) : Tail(backlog)[k] = backlog[k + 1]
    <2>1. backlog \in Seq(Clients)
      BY DEF Inv, Kinds
    <2>2. Len(backlog) \in Nat /\ Len(backlog) >= 1
      BY <1>1, <2>1, EmptySeq
    <2>. QED BY <1>1, <2>1, <2>2, HeadTailProperties, ElementOfSeq
  <1>3. Kinds'
    BY <1>1, <1>2 DEF Inv, Kinds
  <1>4. Order' /\ Answers' /\ Endings' /\ ExitIsExplained'
    BY <1>1 DEF Inv, Order, Answers, Endings, ExitIsExplained
  <1>5. \A k \in 1 .. Len(backlog) :
          /\ cpc[backlog[k]] # "start" /\ ~shut[backlog[k]]
          /\ \A j \in 1 .. k - 1 : backlog[j] # backlog[k]
    BY <1>1 DEF Inv, Queue, Running
  <1>6. 1 \in 1 .. Len(backlog)
    BY <1>2
  <1>7. ASSUME NEW k \in 1 .. Len(backlog')
        PROVE  /\ cpc'[backlog'[k]] # "start" /\ ~shut'[backlog'[k]]
               /\ \A j \in 1 .. k - 1 : backlog'[j] # backlog'[k]
               /\ backlog'[k] # cur'
    <2>1. /\ k \in 1 .. Len(Tail(backlog)) /\ k + 1 \in 1 .. Len(backlog)
          /\ 1 \in 1 .. (k + 1) - 1
          /\ \A j \in 1 .. k - 1 : j \in 1 .. Len(Tail(backlog)) /\ j + 1 \in 1 .. (k + 1) - 1
      BY <1>1, <1>2
    <2>. QED BY <1>1, <1>2, <1>5, <2>1
  <1>8. \A c \in Clients : cpc[c] = "start" => ~shut[c]
    BY <1>1 DEF Inv, Queue, Running
  <1>9. Queue'
    BY <1>1, <1>2, <1>5, <1>6, <1>7, <1>8 DEF Queue, Running
  <1>. QED BY <1>3, <1>4, <1>9 DEF Inv

LEMMA EndOfStreamInv ==
  ASSUME Inv, EndOfStream
  PROVE  Inv'
  <1>1. /\ spc = "get"
        /\ \/ InLine /\ Exit
           \/ HangUp
        /\ UNCHANGED <<cpc, lines, toServer, toClient, fin, reset, backlog, cur, taken>>
    BY DEF EndOfStream, clientVars
  <1>2. /\ Queue' /\ shut' \in [Clients -> BOOLEAN]
        /\ \A c \in Clients : shut[c] => shut'[c]
    BY <1>1, ServingStep
  <1>3. Kinds'
    BY <1>1, <1>2 DEF Inv, Kinds
  <1>4. Order'
    BY <1>1 DEF Inv, Order
  <1>5. Answers'
    BY <1>1 DEF Inv, Answers, HangUp, Exit
  <1>6. Endings'
    BY <1>1, <1>2 DEF Inv, Endings
  <1>7. ExitIsExplained'
    <2>1. CASE HangUp
      BY <2>1 DEF HangUp, ExitIsExplained
    <2>2. CASE InLine
      <3>1. cur \in Clients /\ toServer[cur] \in Seq(Piece) /\ toServer[cur] # <<>>
        BY <2>2 DEF InLine, Inv, Kinds
      <3>2. 1 \in 1 .. Len(toServer[cur])
        BY <3>1, EmptySeq
      <3>3. toServer[cur][1].is = "cut" /\ cpc[cur] = "dead"
        BY <2>2, <3>1, <3>2 DEF InLine, Inv, Endings
      <3>. QED BY <1>1, <3>1, <3>2, <3>3 DEF ExitIsExplained
    <2>. QED BY <1>1, <2>1, <2>2
  <1>. QED BY <1>2, <1>3, <1>4, <1>5, <1>6, <1>7 DEF Inv

(* What GetLine does, but for the text.                                    *)
LEMMA GetLineFacts ==
  ASSUME Kinds, GetLine
  PROVE  /\ spc = "get" /\ toServer[cur] # <<>>
         /\ UNCHANGED <<cpc, lines, toClient, fin, reset, backlog, cur>>
         /\ toServer' \in [Clients -> Seq(Piece)]
         /\ toServer'[cur] = Tail(toServer[cur])
         /\ \A d \in Clients \ {cur} : toServer'[d] = toServer[d]
         /\ \/ /\ taken' = taken /\ counts' = counts
               /\ \/ HangUp
                  \/ spc' = "get" /\ shut' = shut
            \/ /\ taken' = [taken EXCEPT ![cur] = Append(@, toServer[cur][1].nr)]
               /\ lines[cur][toServer[cur][1].nr].kind = "request"
               /\ \E k : Process(lines[cur][toServer[cur][1].nr], k)
               /\ spc' = "put" /\ shut' = shut
  <1>1. /\ spc = "get" /\ toServer[cur] # <<>>
        /\ UNCHANGED <<cpc, lines, toClient, fin, reset, backlog, cur>>
        /\ toServer' = [toServer EXCEPT ![cur] = Tail(@)]
    BY DEF GetLine, clientVars
  <1>2. cur \in Clients /\ toServer[cur] \in Seq(Piece) /\ toServer \in [Clients -> Seq(Piece)]
    BY DEF Kinds
  <1>3. Tail(toServer[cur]) \in Seq(Piece)
    BY <1>1, <1>2, HeadTailProperties
  <1>4. \/ /\ taken' = taken /\ counts' = counts
           /\ \/ HangUp
              \/ spc' = "get" /\ shut' = shut
        \/ /\ taken' = [taken EXCEPT ![cur] = Append(@, toServer[cur][1].nr)]
           /\ lines[cur][toServer[cur][1].nr].kind = "request"
           /\ \E k : Process(lines[cur][toServer[cur][1].nr], k)
           /\ spc' = "put" /\ shut' = shut
    BY <1>1 DEF GetLine
  <1>. QED BY <1>1, <1>2, <1>3, <1>4

LEMMA GetLineInv ==
  ASSUME Inv, GetLine
  PROVE  Inv'
  <1>1. /\ spc = "get" /\ toServer[cur] # <<>>
        /\ UNCHANGED <<cpc, lines, toClient, fin, reset, backlog, cur>>
        /\ toServer' \in [Clients -> Seq(Piece)]
        /\ toServer'[cur] = Tail(toServer[cur])
        /\ \A d \in Clients \ {cur} : toServer'[d] = toServer[d]
        /\ \/ /\ taken' = taken
              /\ \/ HangUp
                 \/ spc' = "get" /\ shut' = shut
           \/ /\ taken' = [taken EXCEPT ![cur] = Append(@, toServer[cur][1].nr)]
              /\ spc' = "put" /\ shut' = shut
    BY GetLineFacts DEF Inv
  <1>2. /\ Queue' /\ shut' \in [Clients -> BOOLEAN]
        /\ \A c \in Clients : shut[c] => shut'[c]
        /\ cpc[cur] # "start"
    BY <1>1, ServingStep
  <1>3. /\ cur \in Clients /\ toServer[cur] \in Seq(Piece)
        /\ taken \in [Clients -> Seq(Nat)]
    BY DEF Inv, Kinds
  <1>4. Rest(toServer'[cur], toServer[cur], 1) /\ 1 \in 0 .. Len(toServer[cur])
    <2>1. Len(toServer[cur]) \in Nat /\ Len(toServer[cur]) > 0
      BY <1>1, <1>3, EmptySeq
    <2>. QED BY <1>1, <1>3, <2>1, TailIsRest
  <1>5. /\ Order' /\ taken' \in [Clients -> Seq(Nat)]
        /\ \A d \in Clients : \A k \in 1 .. Len(toServer'[d]) :
             toServer'[d][k].is = "cut" => cpc'[d] = "dead"
    BY <1>1, <1>2, <1>4, RestStep
  <1>6. Kinds'
    BY <1>1, <1>2, <1>5 DEF Inv, Kinds
  <1>7. Answers'
    <2>1. CASE taken' = taken /\ spc' # "put"
      BY <1>1, <2>1 DEF Inv, Answers
    <2>2. CASE taken' = [taken EXCEPT ![cur] = Append(@, toServer[cur][1].nr)]
      <3>1. /\ taken'[cur] = Append(taken[cur], toServer[cur][1].nr)
            /\ \A d \in Clients \ {cur} : taken'[d] = taken[d]
        BY <1>3, <2>2
      <3>2. /\ taken[cur] \in Seq(Nat) /\ Len(taken[cur]) \in Nat /\ Len(toClient[cur]) \in Nat
            /\ Len(toClient[cur]) <= Len(taken[cur])
        BY <1>3, SendingFacts DEF Inv, Answers
      <3>3. Len(toClient[cur]) < Len(taken'[cur])
        <4>1. Len(taken'[cur]) = Len(taken[cur]) + 1
          BY <3>1, <3>2
        <4>. QED BY <3>2, <4>1
      <3>4. ASSUME NEW d \in Clients PROVE Len(toClient[d]) <= Len(taken'[d])
        <4>1. CASE d = cur
          BY <3>1, <3>2, <3>3, <4>1
        <4>2. CASE d # cur
          BY <3>1, <4>2 DEF Inv, Answers
        <4>. QED BY <4>1, <4>2
      <3>. QED BY <1>1, <3>3, <3>4 DEF Answers
    <2>. QED BY <1>1, <2>1, <2>2 DEF HangUp
  <1>8. Endings'
    BY <1>1, <1>2, <1>5 DEF Inv, Endings
  <1>9. ExitIsExplained'
    BY <1>1 DEF HangUp, ExitIsExplained
  <1>. QED BY <1>2, <1>5, <1>6, <1>7, <1>8, <1>9 DEF Inv

LEMMA PutResponseInv ==
  ASSUME Inv, PutResponse
  PROVE  Inv'
  <1>1. /\ spc = "put"
        /\ UNCHANGED <<cpc, lines, fin, backlog, cur, taken>>
    BY DEF PutResponse, clientVars
  <1>2. /\ cur \in Clients /\ toServer[cur] \in Seq(Piece)
        /\ toServer \in [Clients -> Seq(Piece)]
        /\ toClient \in [Clients -> Seq({"Voting", "count"})]
        /\ toClient[cur] \in Seq({"Voting", "count"})
        /\ reset \in [Clients -> BOOLEAN] /\ fin[cur] \in BOOLEAN
        /\ Len(taken[cur]) \in Nat /\ Len(toClient[cur]) \in Nat /\ Len(lines[cur]) \in Nat
        /\ Len(toServer[cur]) \in Nat
        /\ Len(toClient[cur]) < Len(taken[cur])
        /\ Len(taken[cur]) + Len(toServer[cur]) <= Len(lines[cur])
    <2>1. cur \in Clients /\ Kinds
      BY DEF Inv, Kinds
    <2>. QED BY <1>1, <2>1, SendingFacts DEF Kinds, Inv, Order, Answers
  <1>3. ~shut[cur] /\ cpc[cur] # "start"
    BY <1>1 DEF Inv, Queue, Running
  <1>4. cpc[cur] # "done"
    BY <1>2, <1>3 DEF Inv, Endings
  <1>5. CASE /\ toClient' = [toClient EXCEPT ![cur] = Append(@, FirstToken(TRUE))]
             /\ \E rest \in Undropped(toServer[cur]) :
                  toServer' = [toServer EXCEPT ![cur] = rest]
             /\ reset' = [reset EXCEPT ![cur] = @ \/ fin[cur]]
             /\ spc' = "get"
             /\ UNCHANGED shut
    <2>1. PICK rest \in Undropped(toServer[cur]) : toServer' = [toServer EXCEPT ![cur] = rest]
      BY <1>5
    <2>2. PICK m \in 0 .. Len(toServer[cur]) : Rest(rest, toServer[cur], m)
      BY <1>2, UndroppedIsRest
    <2>3. /\ toServer' \in [Clients -> Seq(Piece)] /\ toServer'[cur] = rest
          /\ \A d \in Clients \ {cur} : toServer'[d] = toServer[d]
      BY <1>2, <2>1, <2>2 DEF Rest
    <2>4. /\ Order'
          /\ \A d \in Clients : \A k \in 1 .. Len(toServer'[d]) :
               toServer'[d][k].is = "cut" => cpc'[d] = "dead"
      BY <1>1, <1>3, <2>2, <2>3, RestStep
    <2>5. Queue'
      BY <1>1, <1>5, ServingStep
    <2>6. "count" \in {"Voting", "count"} /\ FirstToken(TRUE) = "count"
      BY DEF FirstToken
    <2>7. /\ toClient' \in [Clients -> Seq({"Voting", "count"})]
          /\ Len(toClient'[cur]) = Len(toClient[cur]) + 1
          /\ \A d \in Clients \ {cur} : toClient'[d] = toClient[d]
      <3>1. /\ Append(toClient[cur], "count") \in Seq({"Voting", "count"})
            /\ Len(Append(toClient[cur], "count")) = Len(toClient[cur]) + 1
        BY <1>2, <2>6, AppendProperties
      <3>. QED BY <1>2, <1>5, <2>6, <3>1
    <2>8. /\ reset' \in [Clients -> BOOLEAN] /\ (reset'[cur] => reset[cur] \/ fin[cur])
          /\ \A d \in Clients \ {cur} : reset'[d] = reset[d]
      BY <1>2, <1>5
    <2>9. Kinds'
      BY <1>1, <1>5, <2>3, <2>7, <2>8 DEF Inv, Kinds
    <2>10. Answers'
      BY <1>1, <1>2, <1>5, <2>7 DEF Inv, Answers
    <2>11. Endings'
      <3> SUFFICES ASSUME NEW d \in Clients
                   PROVE  /\ cpc'[d] = "done" => Len(toClient'[d]) = Len(lines'[d]) \/ shut'[d]
                          /\ fin'[d] => cpc'[d] \in {"done", "dead"}
                          /\ reset'[d] => fin'[d] /\ Len(toClient'[d]) > 0
        BY <2>4 DEF Endings
      <3>1. CASE d = cur
        BY <1>1, <1>2, <1>4, <2>7, <2>8, <3>1 DEF Inv, Endings
      <3>2. CASE d # cur
        BY <1>1, <1>5, <2>7, <2>8, <3>2 DEF Inv, Endings
      <3>. QED BY <3>1, <3>2
    <2>12. ExitIsExplained'
      BY <1>5 DEF ExitIsExplained
    <2>. QED BY <2>4, <2>5, <2>9, <2>10, <2>11, <2>12 DEF Inv
  <1>6. CASE /\ \/ HangUp
                \/ reset[cur] /\ Exit
             /\ UNCHANGED <<toServer, toClient, reset>>
    <2>1. /\ Queue' /\ shut' \in [Clients -> BOOLEAN]
          /\ \A c \in Clients : shut[c] => shut'[c]
      BY <1>1, <1>6, ServingStep
    <2>2. Kinds'
      BY <1>1, <1>6, <2>1 DEF Inv, Kinds
    <2>3. Order'
      BY <1>1, <1>6 DEF Inv, Order
    <2>4. Answers'
      BY <1>1, <1>6 DEF Inv, Answers, HangUp, Exit
    <2>5. Endings'
      BY <1>1, <1>6, <2>1 DEF Inv, Endings
    <2>6. ExitIsExplained'
      <3>1. CASE HangUp
        BY <3>1 DEF HangUp, ExitIsExplained
      <3>2. CASE reset[cur]
        <4>1. fin[cur] /\ Len(toClient[cur]) > 0
          BY <1>2, <3>2 DEF Inv, Endings
        <4>2. cpc[cur] = "dead"
          BY <1>2, <1>4, <4>1 DEF Inv, Endings
        <4>3. Len(taken[cur]) > 1
          BY <1>2, <4>1
        <4>. QED BY <1>1, <1>2, <1>6, <3>2, <4>2, <4>3 DEF ExitIsExplained
      <3>. QED BY <1>6, <3>1, <3>2
    <2>. QED BY <2>1, <2>2, <2>3, <2>4, <2>5, <2>6 DEF Inv
  <1>. QED BY <1>5, <1>6 DEF PutResponse

LEMMA InvStep ==
  ASSUME Inv, [Next]_vars
  PROVE  Inv'
  <1>1. CASE ServerStep
    BY <1>1, AcceptInv, EndOfStreamInv, GetLineInv, PutResponseInv DEF ServerStep
  <1>2. ASSUME NEW c \in Clients,
               SendLine(c) \/ DieSending(c) \/ DieWaiting(c) \/ GetResponse(c)
        PROVE  Inv'
    BY <1>2, SendLineInv, DieSendingInv, ClientEndsInv
  <1>3. CASE UNCHANGED vars
    BY <1>3 DEF vars, clientVars, netVars, serverVars, Inv, Kinds, Order, Answers, Queue, Running,
                Endings, ExitIsExplained
  <1>4. CASE AcceptFails
    <2>1. /\ spc' = "acceptFailed" /\ shut' = [c \in Clients |-> TRUE]
          /\ UNCHANGED <<cpc, lines, toServer, toClient, fin, reset, backlog, cur, taken>>
      BY <1>4 DEF AcceptFails, clientVars
    <2>2. Kinds'
      BY <2>1 DEF Inv, Kinds
    <2>3. Order' /\ Answers' /\ Endings' /\ ExitIsExplained'
      BY <2>1 DEF Inv, Order, Answers, Endings, ExitIsExplained
    <2>4. Queue'
      BY <2>1 DEF Queue, Running
    <2>. QED BY <2>2, <2>3, <2>4 DEF Inv
  <1>. QED BY <1>1, <1>2, <1>3, <1>4 DEF Next

LEMMA InvAlways == Spec => []Inv
  BY InvInit, InvStep, PTL DEF Spec

(* While it serves a connection the server ends only because some client   *)
(* was cut off inside a line, or went away before the responses to several *)
(* lines: GetNextMsg()'s exit in the middle of a line, and the SIGPIPE of  *)
(* a second response.  (A failing accept() or fdopen() ends it between     *)
(* connections.)                                                           *)
THEOREM ExitAlwaysExplained == Spec => []ExitIsExplained
  <1>1. Inv => ExitIsExplained
    BY DEF Inv
  <1>. QED BY <1>1, InvAlways, PTL

-----------------------------------------------------------------------------
(* Nobody waits outside the backlog and the service.                       *)
InBacklog(c) == \E k \in 1 .. Len(backlog) : backlog[k] = c

LEMMA ForgottenStep ==
  ASSUME Inv, NobodyForgotten, [Next]_vars
  PROVE  NobodyForgotten'
  <1>1. /\ backlog \in Seq(Clients) /\ Len(backlog) \in Nat /\ cur \in Clients
        /\ cpc \in [Clients -> {"start", "wait", "done", "dead"}]
        /\ shut \in [Clients -> BOOLEAN]
    BY DEF Inv, Kinds
  <1>2. CASE Accept
    <2>1. /\ spc = "accept" /\ backlog # <<>> /\ cur' = backlog[1] /\ spc' = "get"
          /\ backlog' = Tail(backlog) /\ UNCHANGED <<cpc, shut>>
      BY <1>1, <1>2, HeadTailProperties DEF Accept, clientVars
    <2>2. /\ Len(backlog) >= 1 /\ Len(backlog') = Len(backlog) - 1
          /\ \A k \in 1 .. Len(backlog') : backlog'[k] = backlog[k + 1]
      BY <1>1, <2>1, EmptySeq, HeadTailProperties
    <2>3. ASSUME NEW c \in Clients, NEW k \in 1 .. Len(backlog), backlog[k] = c
          PROVE  c = cur' \/ InBacklog(c)'
      <3>1. CASE k = 1
        BY <2>1, <2>3, <3>1
      <3>2. CASE k # 1
        <4>1. k - 1 \in 1 .. Len(backlog') /\ (k - 1) + 1 = k
          BY <1>1, <2>2, <3>2
        <4>2. backlog'[k - 1] = c
          BY <2>2, <2>3, <4>1
        <4>. QED BY <4>1, <4>2 DEF InBacklog
      <3>. QED BY <3>1, <3>2
    <2>. QED BY <2>1, <2>3 DEF NobodyForgotten, InBacklog
  <1>3. CASE EndOfStream \/ GetLine \/ PutResponse
    <2>1. UNCHANGED <<cpc, backlog, cur>> /\ spc \in {"get", "put"}
      BY <1>3 DEF EndOfStream, GetLine, PutResponse, clientVars
    <2>2. \/ spc' \in {"get", "put"} /\ shut' = shut
          \/ HangUp
          \/ Exit
      BY <1>3 DEF EndOfStream, GetLine, PutResponse
    <2>3. CASE spc' \in {"get", "put"} /\ shut' = shut
      BY <2>1, <2>3 DEF NobodyForgotten
    <2>4. CASE HangUp
      <3>1. shut'[cur] /\ \A c \in Clients \ {cur} : shut'[c] = shut[c]
        BY <1>1, <2>4 DEF HangUp
      <3>2. ASSUME NEW c \in Clients, cpc'[c] = "wait", ~shut'[c] PROVE InBacklog(c)'
        BY <2>1, <3>1, <3>2 DEF NobodyForgotten, InBacklog
      <3>. QED BY <3>2 DEF NobodyForgotten, InBacklog
    <2>5. CASE Exit
      BY <2>5 DEF Exit, NobodyForgotten
    <2>. QED BY <2>2, <2>3, <2>4, <2>5
  <1>4. ASSUME NEW c \in Clients, SendLine(c) \/ DieSending(c) PROVE NobodyForgotten'
    <2>1. /\ backlog' = Append(backlog, c) /\ UNCHANGED <<shut, spc, cur>>
          /\ \A d \in Clients \ {c} : cpc'[d] = cpc[d]
      BY <1>1, <1>4 DEF SendLine, DieSending, serverVars
    <2>2. /\ Len(backlog') = Len(backlog) + 1 /\ backlog'[Len(backlog) + 1] = c
          /\ \A k \in 1 .. Len(backlog) : backlog'[k] = backlog[k]
      BY <1>1, <2>1, AppendProperties
    <2>3. /\ Len(backlog) + 1 \in 1 .. Len(backlog')
          /\ \A k \in 1 .. Len(backlog) : k \in 1 .. Len(backlog')
      BY <1>1, <2>2
    <2>4. InBacklog(c)' /\ \A d \in Clients : InBacklog(d) => InBacklog(d)'
      BY <2>2, <2>3 DEF InBacklog
    <2>. QED BY <2>1, <2>4 DEF NobodyForgotten, InBacklog
  <1>5. ASSUME NEW c \in Clients, DieWaiting(c) \/ GetResponse(c) PROVE NobodyForgotten'
    <2>1. /\ UNCHANGED <<backlog, shut, spc, cur>>
          /\ \A d \in Clients : cpc'[d] = "wait" => cpc[d] = "wait"
      BY <1>1, <1>5 DEF DieWaiting, GetResponse, serverVars
    <2>. QED BY <2>1 DEF NobodyForgotten
  <1>6. CASE UNCHANGED vars
    BY <1>6 DEF vars, clientVars, netVars, serverVars, NobodyForgotten
  <1>7. CASE AcceptFails
    BY <1>7 DEF AcceptFails, NobodyForgotten
  <1>. QED BY <1>2, <1>3, <1>4, <1>5, <1>6, <1>7 DEF Next, ServerStep

(* Accepting, hanging up and the whole server's end lose no connection:    *)
(* whoever waits is queued or served, or can see that its end is closed.   *)
LEMMA VoterNeverForgotten == Spec => []NobodyForgotten
  <1>1. Init => NobodyForgotten
    BY DEF Init, NobodyForgotten
  <1>. QED BY <1>1, InvAlways, ForgottenStep, PTL DEF Spec

-----------------------------------------------------------------------------
(* A VoteClient.  Until its response is written its one line is unread, or *)
(* the server is about to answer it.                                       *)
OneLine(c) == Len(lines[c]) = 1 /\ lines[c][1].kind # "response"

Owing ==
  \A c \in Clients :
    (OneLine(c) /\ cpc[c] = "wait" /\ ~shut[c]) =>
      \/ Len(toClient[c]) = 1
      \/ toServer[c] # <<>>
      \/ spc = "put" /\ cur = c

LEMMA OwingStep ==
  ASSUME Inv, Owing, [Next]_vars
  PROVE  Owing'
  <1>1. /\ cur \in Clients /\ Kinds
        /\ cpc \in [Clients -> {"start", "wait", "done", "dead"}]
        /\ shut \in [Clients -> BOOLEAN]
        /\ toServer \in [Clients -> Seq(Piece)]
        /\ toClient \in [Clients -> Seq({"Voting", "count"})]
    BY DEF Inv, Kinds
  <1>2. CASE Accept
    BY <1>2 DEF Accept, clientVars, Owing, OneLine
  <1>3. CASE EndOfStream
    <2>1. /\ spc = "get"
          /\ HangUp \/ Exit
          /\ UNCHANGED <<cpc, lines, toServer, toClient>>
      BY <1>3 DEF EndOfStream, clientVars
    <2>2. \A c \in Clients : shut[c] => shut'[c]
      BY <1>1, <2>1 DEF HangUp, Exit
    <2>. QED BY <2>1, <2>2 DEF Owing, OneLine
  <1>4. CASE GetLine
    <2>1. /\ spc = "get" /\ UNCHANGED <<cpc, lines, toClient, cur>>
          /\ \A d \in Clients \ {cur} : toServer'[d] = toServer[d]
          /\ HangUp \/ shut' = shut
      BY <1>1, <1>4, GetLineFacts
    <2>2. \A c \in Clients : shut[c] => shut'[c]
      BY <1>1, <2>1 DEF HangUp
    <2>3. ASSUME OneLine(cur), ~shut'[cur] PROVE spc' = "put"
      <3> DEFINE p == toServer[cur][1]
      <3>1. toServer[cur] \in Seq(Piece) /\ toServer[cur] # <<>>
        BY <1>1, <1>4 DEF GetLine
      <3>2. 1 \in 1 .. Len(toServer[cur])
        BY <3>1, EmptySeq
      <3>3. p.nr \in 1 .. Len(lines[cur])
        BY <1>1, <3>2 DEF Inv, Order
      <3>4. p.nr = 1
        BY <2>3, <3>3 DEF OneLine
      <3>5. ~HangUp
        BY <1>1, <2>3 DEF HangUp
      <3> HIDE DEF p
      <3>6. lines[cur][p.nr].kind # "response"
        BY <2>3, <3>4 DEF OneLine
      <3>. QED BY <1>4, <3>5, <3>6 DEF GetLine, p
    <2>4. ASSUME NEW c \in Clients, OneLine(c)', cpc'[c] = "wait", ~shut'[c]
          PROVE  Len(toClient'[c]) = 1 \/ toServer'[c] # <<>> \/ (spc' = "put" /\ cur' = c)
      <3>1. CASE c = cur
        BY <2>1, <2>3, <2>4, <3>1 DEF OneLine
      <3>2. CASE c # cur
        BY <2>1, <2>2, <2>4, <3>2 DEF Owing, OneLine
      <3>. QED BY <3>1, <3>2
    <2>. QED BY <2>4 DEF Owing
  <1>5. CASE PutResponse
    <2>1. spc = "put" /\ UNCHANGED <<cpc, lines, cur>>
      BY <1>5 DEF PutResponse, clientVars
    <2>2. CASE HangUp \/ Exit
      <3>1. shut'[cur] /\ \A c \in Clients : shut[c] => shut'[c]
        BY <1>1, <2>2 DEF HangUp, Exit
      <3>2. CASE UNCHANGED <<toServer, toClient>>
        BY <2>1, <3>1, <3>2 DEF Owing, OneLine
      <3>3. CASE spc' = "get"
        BY <2>2, <3>3 DEF HangUp, Exit
      <3>. QED BY <1>5, <3>2, <3>3 DEF PutResponse
    <2>3. CASE /\ toClient' = [toClient EXCEPT ![cur] = Append(@, FirstToken(TRUE))]
               /\ \E rest \in Undropped(toServer[cur]) :
                    toServer' = [toServer EXCEPT ![cur] = rest]
               /\ UNCHANGED shut
      <3>1. \A d \in Clients \ {cur} : toServer'[d] = toServer[d] /\ toClient'[d] = toClient[d]
        BY <1>1, <2>3
      <3>2. "count" \in {"Voting", "count"} /\ FirstToken(TRUE) = "count"
        BY DEF FirstToken
      <3>3. Len(toClient'[cur]) = Len(toClient[cur]) + 1
        <4>1. Len(Append(toClient[cur], "count")) = Len(toClient[cur]) + 1
          BY <1>1, <3>2, AppendProperties
        <4>. QED BY <1>1, <2>3, <3>2, <4>1
      <3>4. /\ Len(taken[cur]) + Len(toServer[cur]) <= Len(lines[cur])
            /\ Len(toClient[cur]) < Len(taken[cur])
        BY <1>1, <2>1 DEF Inv, Order, Answers
      <3>5. /\ Len(taken[cur]) \in Nat /\ Len(toServer[cur]) \in Nat
            /\ Len(toClient[cur]) \in Nat /\ Len(lines[cur]) \in Nat
        BY <1>1, SendingFacts
      <3>6. Len(lines[cur]) = 1 => Len(toClient'[cur]) = 1
        <4>1. ASSUME NEW a \in Nat, NEW b \in Nat, NEW x \in Nat, NEW n \in Nat,
                     x < a, a + b <= n, n = 1
              PROVE  x + 1 = 1
          BY ONLY <4>1
        <4>. QED BY ONLY <3>3, <3>4, <3>5, <4>1
      <3>7. ASSUME NEW c \in Clients, OneLine(c)', cpc'[c] = "wait", ~shut'[c]
            PROVE  Len(toClient'[c]) = 1 \/ toServer'[c] # <<>> \/ (spc' = "put" /\ cur' = c)
        <4>1. CASE c = cur
          BY <2>1, <3>6, <3>7, <4>1 DEF OneLine
        <4>2. CASE c # cur
          BY <2>1, <2>3, <3>1, <3>7, <4>2 DEF Owing, OneLine
        <4>. QED BY <4>1, <4>2
      <3>. QED BY <3>7 DEF Owing
    <2>. QED BY <1>5, <2>2, <2>3 DEF PutResponse
  <1>6. ASSUME NEW c \in Clients, SendLine(c) PROVE Owing'
    <2>1. /\ toServer'[c] = Whole(Len(lines[c])) /\ UNCHANGED <<lines, toClient, shut, spc, cur>>
          /\ \A d \in Clients \ {c} : cpc'[d] = cpc[d] /\ toServer'[d] = toServer[d]
      BY <1>1, <1>6 DEF SendLine, serverVars
    <2>2. toServer'[c] # <<>>
      <3>1. Len(lines[c]) \in Nat /\ Len(lines[c]) > 0
        BY <1>1, SendingFacts
      <3>2. Len(toServer'[c]) = Len(lines[c])
        BY <2>1, <3>1, WholeFacts
      <3>. QED BY <3>1, <3>2
    <2>3. ASSUME NEW d \in Clients, OneLine(d)', cpc'[d] = "wait", ~shut'[d]
          PROVE  Len(toClient'[d]) = 1 \/ toServer'[d] # <<>> \/ (spc' = "put" /\ cur' = d)
      <3>1. CASE d = c
        BY <2>2, <3>1
      <3>2. CASE d # c
        BY <2>1, <2>3, <3>2 DEF Owing, OneLine
      <3>. QED BY <3>1, <3>2
    <2>. QED BY <2>3 DEF Owing
  <1>7. ASSUME NEW c \in Clients, DieSending(c) PROVE Owing'
    <2>1. /\ cpc'[c] = "dead" /\ UNCHANGED <<lines, toClient, shut, spc, cur>>
          /\ \A d \in Clients \ {c} : cpc'[d] = cpc[d] /\ toServer'[d] = toServer[d]
      BY <1>1, <1>7 DEF DieSending, serverVars
    <2>2. ASSUME NEW d \in Clients, OneLine(d)', cpc'[d] = "wait", ~shut'[d]
          PROVE  Len(toClient'[d]) = 1 \/ toServer'[d] # <<>> \/ (spc' = "put" /\ cur' = d)
      BY <2>1, <2>2 DEF Owing, OneLine
    <2>. QED BY <2>2 DEF Owing
  <1>8. ASSUME NEW c \in Clients, DieWaiting(c) \/ GetResponse(c) PROVE Owing'
    <2>1. /\ UNCHANGED <<lines, toServer, toClient, shut, spc, cur>>
          /\ \A d \in Clients : cpc'[d] = "wait" => cpc[d] = "wait"
      BY <1>1, <1>8 DEF DieWaiting, GetResponse, serverVars
    <2>. QED BY <2>1 DEF Owing, OneLine
  <1>9. CASE UNCHANGED vars
    BY <1>9 DEF vars, clientVars, netVars, serverVars, Owing, OneLine
  <1>10. CASE AcceptFails
    BY <1>10 DEF AcceptFails, Owing
  <1>. QED BY <1>2, <1>3, <1>4, <1>5, <1>6, <1>7, <1>8, <1>9, <1>10 DEF Next, ServerStep

(* Reading and writing one stdio stream without a seek may cost input, but *)
(* none that a VoteClient's response depends on: the server never waits    *)
(* for a line of a client that waits for its only response.                *)
LEMMA VoteClientServed == Spec => []VoteClientNeverHolds
  <1>1. Init => Owing
    BY DEF Init, Owing
  <1>2. ASSUME Inv, Owing PROVE VoteClientNeverHolds
    <2> SUFFICES ASSUME spc = "get", toServer[cur] = <<>>, cpc[cur] = "wait",
                        ~ Len(lines[cur]) > 1, lines[cur][1].kind # "response"
                 PROVE  Len(toClient[cur]) = Len(lines[cur])
      BY DEF VoteClientNeverHolds
    <2>1. cur \in Clients /\ ~shut[cur]
      BY <1>2 DEF Inv, Kinds, Queue, Running
    <2>2. Len(lines[cur]) \in Nat /\ Len(lines[cur]) > 0
      BY <1>2, <2>1, SendingFacts DEF Inv
    <2>3. Len(lines[cur]) = 1
      <3>1. ASSUME NEW n \in Nat, n > 0, ~ n > 1 PROVE n = 1
        BY ONLY <3>1
      <3>. QED BY <2>2, <3>1
    <2>. QED BY <1>2, <2>1, <2>3 DEF Owing, OneLine
  <1>. QED BY <1>1, <1>2, InvAlways, OwingStep, PTL DEF Spec

(* Whatever the clients do and the stream drops, client and server never   *)
(* wait for each other, and nobody waits unknown to the server.            *)
THEOREM NobodyWaitsInVainCorrect == Spec => []NobodyWaitsInVain
  <1>1. NobodyForgotten /\ VoteClientNeverHolds => NobodyWaitsInVain
    BY DEF NobodyWaitsInVain
  <1>. QED BY <1>1, VoterNeverForgotten, VoteClientServed, PTL

-----------------------------------------------------------------------------
(* The counts.  Process() writes only a candidate's, by adding one to it.   *)
Tally == counts \in [0 .. MAX_CANDIDATE -> Nat]

LEMMA TallyStep ==
  ASSUME Tally, [Next]_vars
  PROVE  Tally'
  <1>1. CASE counts' = counts
    BY <1>1 DEF Tally
  <1>2. ASSUME NEW d, NEW k, Process(d, k)
        PROVE  Tally'
    <2>1. CASE k \in 0 .. MAX_CANDIDATE
      BY <1>2, <2>1 DEF Process, Tally
    <2>2. CASE k \notin 0 .. MAX_CANDIDATE
      BY <1>2, <2>2 DEF Process, Tally
    <2>. QED BY <2>1, <2>2
  <1>3. CASE GetLine
    <2> DEFINE l == lines[cur][toServer[cur][1].nr]
    <2>1. counts' = counts \/ \E k : Process(l, k)
      BY <1>3 DEF GetLine
    <2>. QED BY <1>1, <1>2, <2>1
  <1>4. CASE Accept \/ EndOfStream \/ PutResponse \/ AcceptFails
    BY <1>1, <1>4 DEF Accept, EndOfStream, PutResponse, AcceptFails
  <1>5. ASSUME NEW c \in Clients,
               SendLine(c) \/ DieSending(c) \/ DieWaiting(c) \/ GetResponse(c)
        PROVE  Tally'
    BY <1>1, <1>5 DEF SendLine, DieSending, DieWaiting, GetResponse, serverVars
  <1>6. CASE UNCHANGED vars
    BY <1>1, <1>6 DEF vars, serverVars
  <1>. QED BY <1>3, <1>4, <1>5, <1>6 DEF Next, ServerStep

LEMMA TallyAlways == Spec => []Tally
  <1>1. Init => Tally
    BY DEF Init, Tally
  <1>. QED BY <1>1, TallyStep, PTL DEF Spec

-----------------------------------------------------------------------------
(* The refinement.  A request taken is a ballot taken; it is a later one   *)
(* than those taken before, by Order, and raises a count only if it is a   *)
(* vote.  For a number that is no candidate nothing is counted, so what    *)
(* atoi() makes of the digits need not be known here.                      *)
votes    == [c \in Clients |-> [k \in 1 .. Len(lines[c]) |-> IsVote(lines[c][k])]]
answered == [c \in Clients |-> Len(toClient[c])]

LEMMA VotesLength ==
  ASSUME Kinds, NEW c \in Clients
  PROVE  Len(votes[c]) = Len(lines[c])
  <1>1. Len(lines[c]) \in Nat
    BY SendingFacts
  <1>2. \A k \in 1 .. Len(lines[c]) : IsVote(lines[c][k]) \in BOOLEAN
    BY DEF IsVote
  <1>3. [k \in 1 .. Len(lines[c]) |-> IsVote(lines[c][k])] \in Seq(BOOLEAN)
    BY <1>1, <1>2, IsASeq
  <1>. QED BY <1>1, <1>3, LenProperties DEF votes

LEMMA TakeStep ==
  ASSUME Inv, Tally, GetLine
  PROVE  [Box!Next]_(Box!boxVars)
  <1>1. /\ spc = "get" /\ toServer[cur] # <<>> /\ toClient' = toClient /\ lines' = lines
        /\ \/ taken' = taken /\ counts' = counts
           \/ /\ taken' = [taken EXCEPT ![cur] = Append(@, toServer[cur][1].nr)]
              /\ lines[cur][toServer[cur][1].nr].kind = "request"
              /\ \E k : Process(lines[cur][toServer[cur][1].nr], k)
    BY GetLineFacts DEF Inv
  <1>2. votes' = votes /\ answered' = answered
    BY <1>1 DEF votes, answered
  <1>3. CASE taken' = taken /\ counts' = counts
    BY <1>2, <1>3 DEF Box!boxVars, votes, answered
  <1>4. CASE /\ taken' = [taken EXCEPT ![cur] = Append(@, toServer[cur][1].nr)]
             /\ lines[cur][toServer[cur][1].nr].kind = "request"
             /\ \E k : Process(lines[cur][toServer[cur][1].nr], k)
    <2> DEFINE i == toServer[cur][1].nr
    <2>1. PICK k : Process(lines[cur][i], k)
      BY <1>4
    <2>2. cur \in Clients /\ Len(votes[cur]) = Len(lines[cur])
      BY VotesLength DEF Inv, Kinds
    <2>3. 1 \in 1 .. Len(toServer[cur])
      <3>1. toServer[cur] \in Seq(Piece)
        BY <2>2 DEF Inv, Kinds
      <3>. QED BY <1>1, <3>1, EmptySeq
    <2>4. i \in 1 .. Len(votes[cur]) /\ \A j \in 1 .. Len(taken[cur]) : taken[cur][j] < i
      BY <2>2, <2>3 DEF Inv, Order
    <2>5. votes[cur][i] <=> ~lines[cur][i].isInquiry
      BY <1>4, <2>2, <2>4 DEF votes, IsVote
    <2>6. \/ counts' = counts
          \/ /\ votes[cur][i]
             /\ \E n \in 0 .. MAX_CANDIDATE : counts' = [counts EXCEPT ![n] = @ + 1]
      <3>1. CASE k \in 0 .. MAX_CANDIDATE
        BY <2>1, <2>5, <3>1 DEF Process
      <3>2. CASE k \notin 0 .. MAX_CANDIDATE
        BY <2>1, <3>2 DEF Process, Tally
      <3>. QED BY <3>1, <3>2
    <2>7. Box!Take(cur, i)
      BY <1>2, <1>4, <2>4, <2>6 DEF Box!Take, Box!Later, votes, answered
    <2>. QED BY <2>2, <2>4, <2>7 DEF Box!Next, votes
  <1>. QED BY <1>1, <1>3, <1>4

LEMMA AnswerStep ==
  ASSUME Inv, PutResponse
  PROVE  [Box!Next]_(Box!boxVars)
  <1>1. /\ spc = "put" /\ lines' = lines /\ taken' = taken /\ counts' = counts
        /\ \/ toClient' = toClient
           \/ toClient' = [toClient EXCEPT ![cur] = Append(@, FirstToken(TRUE))]
    BY DEF PutResponse, clientVars
  <1>2. votes' = votes
    BY <1>1 DEF votes
  <1>3. CASE toClient' = toClient
    BY <1>1, <1>3 DEF Box!boxVars
  <1>4. CASE toClient' = [toClient EXCEPT ![cur] = Append(@, FirstToken(TRUE))]
    <2>1. /\ cur \in Clients /\ toClient \in [Clients -> Seq({"Voting", "count"})]
          /\ toClient[cur] \in Seq({"Voting", "count"}) /\ Len(toClient[cur]) \in Nat
          /\ Len(toClient[cur]) < Len(taken[cur])
      BY <1>1 DEF Inv, Kinds, Answers
    <2>2. FirstToken(TRUE) \in {"Voting", "count"}
      BY DEF FirstToken
    <2>3. /\ Len(toClient'[cur]) = Len(toClient[cur]) + 1
          /\ \A d \in Clients \ {cur} : toClient'[d] = toClient[d]
      <3>1. Len(Append(toClient[cur], FirstToken(TRUE))) = Len(toClient[cur]) + 1
        BY <2>1, <2>2, AppendProperties
      <3>. QED BY <1>4, <2>1, <3>1
    <2>4. answered[cur] = Len(toClient[cur])
      BY <2>1 DEF answered
    <2>5. answered' = [answered EXCEPT ![cur] = @ + 1]
      BY <2>1, <2>3 DEF answered
    <2>6. PICK c \in Clients : c = cur
      BY <2>1
    <2>7. Box!Answer(c)
      BY <1>1, <1>2, <2>1, <2>4, <2>5, <2>6 DEF Box!Answer, votes, answered
    <2>. QED BY <2>7 DEF Box!Next
  <1>. QED BY <1>1, <1>3, <1>4

LEMMA BoxStep ==
  ASSUME Inv, Tally, [Next]_vars
  PROVE  [Box!Next]_(Box!boxVars)
  <1>1. CASE UNCHANGED <<lines, toClient, taken, counts>>
    BY <1>1 DEF Box!boxVars
  <1>2. CASE Accept \/ EndOfStream \/ AcceptFails
    BY <1>1, <1>2 DEF Accept, EndOfStream, AcceptFails, clientVars
  <1>3. ASSUME NEW c \in Clients,
               SendLine(c) \/ DieSending(c) \/ DieWaiting(c) \/ GetResponse(c)
        PROVE  UNCHANGED <<lines, toClient, taken, counts>>
    BY <1>3 DEF SendLine, DieSending, DieWaiting, GetResponse, serverVars
  <1>4. CASE UNCHANGED vars
    BY <1>1, <1>4 DEF vars, clientVars, netVars, serverVars
  <1>. QED BY <1>1, <1>2, <1>3, <1>4, TakeStep, AnswerStep DEF Next, ServerStep

(* However connections end and input is dropped, a line is handled at most *)
(* once and in its client's order, only a line that asked for a vote       *)
(* raises a count, by one, and a response stands for a line handled.       *)
THEOREM ImplementsTheBallotBox == Spec => ImplementsBallotBox
  <1>1. Init => Box!Init
    <2> SUFFICES ASSUME Init
                 PROVE  answered = [c \in Clients |-> 0]
      BY DEF Init, Box!Init, answered
    <2>1. \A c \in Clients : Len(toClient[c]) = 0
      <3>1. \A c \in Clients : toClient[c] = <<>>
        BY DEF Init
      <3>. QED BY <3>1
    <2>. QED BY <2>1 DEF answered
  <1>. QED BY <1>1, BoxStep, InvAlways, TallyAlways, PTL DEF Spec, ImplementsBallotBox, Box!Spec

-----------------------------------------------------------------------------
(* Induction over the natural numbers, from the library's least element   *)
(* of a well-founded relation: as a statement about a set T.               *)
LEMMA Least ==
  ASSUME NEW T, T \subseteq Nat, T # {}
  PROVE  \E x \in T : \A y \in T : x <= y
  <1>1. IsWellFoundedOn(OpToRel(<, Nat), Nat)
    BY NatLessThanWellFounded
  <1>2. PICK x \in T : \A y \in T : ~ (<<y, x>> \in OpToRel(<, Nat))
    BY <1>1, WFMin
  <1>3. ASSUME NEW y \in T PROVE x <= y
    <2>1. ~ (y < x)
      BY <1>2 DEF OpToRel
    <2>2. x \in Nat /\ y \in Nat
      OBVIOUS
    <2>. QED BY <2>1, <2>2
  <1>. QED BY <1>3

LEMMA Course ==
  ASSUME NEW T, \A n \in Nat : (\A m \in Nat : m < n => m \in T) => n \in T
  PROVE  \A n \in Nat : n \in T
  <1>1. SUFFICES ASSUME Nat \ T # {} PROVE FALSE
    OBVIOUS
  <1>2. PICK x \in Nat \ T : \A y \in Nat \ T : x <= y
    BY <1>1, Least
  <1>3. \A m \in Nat : m < x => m \in T
    BY <1>2
  <1>. QED BY <1>2, <1>3

(* A function defined by recursion from the value at one smaller number    *)
(* exists.  S is the type of its values, pred(n) the smaller number.       *)
Descends(pred) == pred \in [Nat \ {0} -> Nat] /\ \A n \in Nat \ {0} : pred[n] < n
Steps(step, S) == step \in [Nat \ {0} -> [S -> S]]
Recursive(f, S, b, pred, step) ==
  f \in [Nat -> S] /\ f[0] = b /\ \A n \in Nat \ {0} : f[n] = step[n][f[pred[n]]]

LEMMA Recursion ==
  ASSUME NEW S, NEW b \in S, NEW pred, Descends(pred), NEW step, Steps(step, S)
  PROVE  \E f : Recursive(f, S, b, pred, step)
  <1>0. /\ pred \in [Nat \ {0} -> Nat] /\ \A n \in Nat \ {0} : pred[n] < n
        /\ step \in [Nat \ {0} -> [S -> S]]
    BY DEF Descends, Steps
  <1> DEFINE Good(g, n) == /\ g \in [0 .. n -> S] /\ g[0] = b
                           /\ \A k \in 1 .. n : g[k] = step[k][g[pred[k]]]
  <1> DEFINE T == {n \in Nat : \E g : Good(g, n)}
  <1>1. \A n \in Nat : n \in T
    <2>1. ASSUME NEW n \in Nat, \A m \in Nat : m < n => m \in T PROVE n \in T
      <3>1. CASE n = 0
        <4> DEFINE g == [k \in 0 .. 0 |-> b]
        <4>1. Good(g, n)
          BY <3>1
        <4>. QED BY <4>1
      <3>2. CASE n # 0
        <4>1. n - 1 \in Nat /\ n - 1 < n
          BY <3>2
        <4>2. PICK g : Good(g, n - 1)
          BY <2>1, <4>1
        <4> DEFINE h == [k \in 0 .. n |-> IF k < n THEN g[k] ELSE step[n][g[pred[n]]]]
        <4>3. pred[n] \in 0 .. n - 1 /\ n \in Nat \ {0}
          BY <1>0, <3>2
        <4>4. step[n][g[pred[n]]] \in S
          BY <1>0, <4>2, <4>3
        <4>5. h \in [0 .. n -> S]
          BY <4>2, <4>4
        <4>6. h[0] = b
          BY <3>2, <4>2
        <4>7. ASSUME NEW k \in 1 .. n PROVE h[k] = step[k][h[pred[k]]]
          <5>1. pred[k] \in 0 .. n - 1 /\ pred[k] < k
            BY <1>0, <3>2
          <5>2. h[pred[k]] = g[pred[k]]
            BY <5>1
          <5>3. CASE k < n
            BY <4>2, <5>2, <5>3
          <5>4. CASE k = n
            BY <5>2, <5>4
          <5>. QED BY <5>3, <5>4
        <4>. QED BY <4>5, <4>6, <4>7
      <3>. QED BY <3>1, <3>2
    <2> HIDE DEF T
    <2>. QED BY <2>1, Course
  <1>2. ASSUME NEW n \in Nat, NEW m \in Nat, NEW g, NEW h, Good(g, n), Good(h, m)
        PROVE  \A k \in Nat : k <= n /\ k <= m => g[k] = h[k]
    <2> DEFINE E == {k \in Nat : k <= n /\ k <= m => g[k] = h[k]}
    <2>1. ASSUME NEW k \in Nat, \A j \in Nat : j < k => j \in E PROVE k \in E
      <3>1. SUFFICES ASSUME k <= n, k <= m PROVE g[k] = h[k]
        OBVIOUS
      <3>2. CASE k = 0
        BY <1>2, <3>2
      <3>3. CASE k # 0
        <4>1. pred[k] \in Nat /\ pred[k] < k /\ pred[k] <= n /\ pred[k] <= m
          BY <1>0, <3>1, <3>3
        <4>2. g[pred[k]] = h[pred[k]]
          BY <2>1, <4>1
        <4>. QED BY <1>2, <3>1, <3>3, <4>2
      <3>. QED BY <3>2, <3>3
    <2>2. \A k \in Nat : k \in E
      <3> HIDE DEF E
      <3>. QED BY <2>1, Course
    <2>. QED BY <2>2
  <1> DEFINE part == [n \in Nat |-> CHOOSE g : Good(g, n)]
             f == [n \in Nat |-> part[n][n]]
  <1>3. ASSUME NEW n \in Nat PROVE Good(part[n], n)
    <2>1. \E g : Good(g, n)
      BY <1>1
    <2> HIDE DEF Good
    <2>2. Good(CHOOSE g : Good(g, n), n)
      BY <2>1
    <2>. QED BY <2>2
  <1>4. f \in [Nat -> S]
    BY <1>3
  <1>5. f[0] = b
    BY <1>3
  <1>6. ASSUME NEW n \in Nat \ {0} PROVE f[n] = step[n][f[pred[n]]]
    <2>1. pred[n] \in Nat /\ pred[n] < n /\ n \in 1 .. n /\ n \in Nat
      BY <1>0
    <2>2. Good(part[n], n) /\ Good(part[pred[n]], pred[n])
      BY <1>3, <2>1
    <2>3. part[n][pred[n]] = part[pred[n]][pred[n]]
      <3>1. pred[n] <= n /\ pred[n] <= pred[n]
        BY <2>1
      <3> HIDE DEF Good, part, f
      <3>. QED BY <1>2, <2>1, <2>2, <3>1
    <2>4. f[n] = part[n][n] /\ f[pred[n]] = part[pred[n]][pred[n]]
      BY <2>1
    <2>5. part[n][n] = step[n][part[n][pred[n]]]
      BY <2>1, <2>2
    <2>. QED BY <2>3, <2>4, <2>5
  <1>. QED BY <1>4, <1>5, <1>6 DEF Recursive

(* The digits of a number.                                                 *)
LEMMA TenParts ==
  ASSUME NEW n \in Nat
  PROVE  /\ n \div 10 \in Nat /\ n % 10 \in 0 .. 9 /\ n = 10 * (n \div 10) + (n % 10)
         /\ n > 0 => n \div 10 < n
  OBVIOUS

LEMMA DigitsDef ==
  ASSUME NEW n \in Nat
  PROVE  Digits[n] = IF n < 10 THEN <<n>> ELSE Append(Digits[n \div 10], n % 10)
  <1> DEFINE pred == [k \in Nat \ {0} |-> k \div 10]
             S == Seq(0 .. 9)
             step == [k \in Nat \ {0} |-> [s \in S |-> IF k < 10 THEN <<k>> ELSE Append(s, k % 10)]]
  <1>1. Descends(pred)
    BY TenParts DEF Descends
  <1>2. Steps(step, S)
    <2>1. ASSUME NEW k \in Nat \ {0}, NEW s \in S
          PROVE  (IF k < 10 THEN <<k>> ELSE Append(s, k % 10)) \in S
      <3>1. CASE k < 10
        <4>1. k \in 0 .. 9
          BY <3>1
        <4>. QED BY <3>1, <4>1
      <3>2. CASE ~ k < 10
        <4>1. k % 10 \in 0 .. 9
          BY TenParts
        <4>2. Append(s, k % 10) \in Seq(0 .. 9)
          BY <4>1, AppendProperties
        <4>. QED BY <3>2, <4>2
      <3>. QED BY <3>1, <3>2
    <2>. QED BY <2>1 DEF Steps
  <1>3. <<0>> \in S
    OBVIOUS
  <1>a. PICK f : Recursive(f, S, <<0>>, pred, step)
    <2> HIDE DEF S, pred, step
    <2>. QED BY <1>1, <1>2, <1>3, Recursion
  <1>4. f \in [Nat -> S] /\ f[0] = <<0>> /\ \A k \in Nat \ {0} : f[k] = step[k][f[pred[k]]]
    <2> HIDE DEF S, pred, step
    <2>. QED BY <1>a DEF Recursive
  <1>5. ASSUME NEW k \in Nat
        PROVE  f[k] = IF k < 10 THEN <<k>> ELSE Append(f[k \div 10], k % 10)
    <2>1. CASE k = 0
      BY <1>4, <2>1
    <2>2. CASE k # 0
      <3>1. k \div 10 \in Nat /\ f[k \div 10] \in S
        BY <1>4, TenParts
      <3>2. pred[k] = k \div 10
        BY <2>2
      <3>3. f[k] = step[k][f[k \div 10]]
        BY <1>4, <2>2, <3>2
      <3>. QED BY <2>2, <3>1, <3>3
    <2>. QED BY <2>1, <2>2
  <1>6. f = [k \in Nat |-> IF k < 10 THEN <<k>> ELSE Append(f[k \div 10], k % 10)]
    BY <1>4, <1>5
  <1> HIDE DEF S, pred, step
  <1>7. Digits = [k \in Nat |-> IF k < 10 THEN <<k>> ELSE Append(Digits[k \div 10], k % 10)]
    BY <1>6 DEF Digits
  <1>. QED BY <1>7

LEMMA DigitsType ==
  ASSUME NEW n \in Nat
  PROVE  Digits[n] \in Seq(0 .. 9) /\ Len(Digits[n]) \in Nat /\ Len(Digits[n]) > 0
  <1> DEFINE T == {k \in Nat : Digits[k] \in Seq(0 .. 9) /\ Len(Digits[k]) > 0}
  <1>1. ASSUME NEW k \in Nat, \A m \in Nat : m < k => m \in T PROVE k \in T
    <2>1. CASE k < 10
      <3>1. Digits[k] = <<k>>
        BY <2>1, DigitsDef
      <3>2. k \in 0 .. 9
        BY <2>1
      <3>3. <<k>> \in Seq(0 .. 9) /\ Len(<<k>>) = 1
        BY <3>2
      <3>4. Digits[k] \in Seq(0 .. 9) /\ Len(Digits[k]) > 0
        BY <3>1, <3>3
      <3>. QED BY <3>4
    <2>2. CASE ~ k < 10
      <3>1. k \div 10 \in T /\ k % 10 \in 0 .. 9
        BY <1>1, <2>2, TenParts
      <3>2. Digits[k] = Append(Digits[k \div 10], k % 10)
        BY <2>2, DigitsDef
      <3>3. Digits[k \div 10] \in Seq(0 .. 9) /\ Len(Digits[k \div 10]) \in Nat
        BY <3>1
      <3>4. Digits[k] \in Seq(0 .. 9) /\ Len(Digits[k]) = Len(Digits[k \div 10]) + 1
        BY <3>1, <3>2, <3>3, AppendProperties
      <3>. QED BY <3>3, <3>4
    <2>. QED BY <2>1, <2>2
  <1>2. \A k \in Nat : k \in T
    <2> HIDE DEF T
    <2>. QED BY <1>1, Course
  <1>. QED BY <1>2

(* Powers of ten, and what appending a digit does to a number.             *)
LEMMA Pow10Def ==
  /\ Pow10 \in [Nat -> Nat \ {0}] /\ Pow10[0] = 1
  /\ \A n \in Nat : Pow10[n + 1] = 10 * Pow10[n]
  <1> DEFINE pred == [k \in Nat \ {0} |-> k - 1]
             S == Nat \ {0}
             step == [k \in Nat \ {0} |-> [s \in S |-> 10 * s]]
  <1>1. Descends(pred)
    BY DEF Descends
  <1>2. Steps(step, S) /\ 1 \in S
    BY DEF Steps
  <1>a. PICK f : Recursive(f, S, 1, pred, step)
    <2> HIDE DEF S, pred, step
    <2>. QED BY <1>1, <1>2, Recursion
  <1>4. f \in [Nat -> S] /\ f[0] = 1 /\ \A k \in Nat \ {0} : f[k] = step[k][f[pred[k]]]
    <2> HIDE DEF S, pred, step
    <2>. QED BY <1>a DEF Recursive
  <1>5. ASSUME NEW k \in Nat
        PROVE  f[k] = IF k = 0 THEN 1 ELSE 10 * f[k - 1]
    <2>1. CASE k = 0
      BY <1>4, <2>1
    <2>2. CASE k # 0
      <3>1. pred[k] = k - 1 /\ k - 1 \in Nat /\ f[k - 1] \in S
        BY <1>4, <2>2
      <3>2. f[k] = step[k][f[k - 1]]
        BY <1>4, <2>2, <3>1
      <3>. QED BY <2>2, <3>1, <3>2
    <2>. QED BY <2>1, <2>2
  <1>6. f = [k \in Nat |-> IF k = 0 THEN 1 ELSE 10 * f[k - 1]]
    BY <1>4, <1>5
  <1> HIDE DEF S, pred, step
  <1>7. Pow10 = [k \in Nat |-> IF k = 0 THEN 1 ELSE 10 * Pow10[k - 1]]
    BY <1>6 DEF Pow10
  <1>8. ASSUME NEW n \in Nat PROVE Pow10[n + 1] = 10 * Pow10[n]
    <2>1. n + 1 # 0 /\ n + 1 \in Nat /\ (n + 1) - 1 = n
      OBVIOUS
    <2>. QED BY <1>7, <2>1
  <1>9. Pow10[0] = 1
    BY <1>7
  <1> DEFINE T == {n \in Nat : Pow10[n] \in Nat \ {0}}
  <1>10. ASSUME NEW k \in Nat, \A m \in Nat : m < k => m \in T PROVE k \in T
    <2>1. CASE k = 0
      BY <1>9, <2>1
    <2>2. CASE k # 0
      <3>1. k - 1 \in T /\ k = (k - 1) + 1 /\ k - 1 \in Nat
        BY <1>10, <2>2
      <3>2. Pow10[k] = 10 * Pow10[k - 1]
        BY <1>8, <3>1
      <3>. QED BY <3>1, <3>2
    <2>. QED BY <2>1, <2>2
  <1>11. \A k \in Nat : k \in T
    <2> HIDE DEF T
    <2>. QED BY <1>10, Course
  <1>. QED BY <1>7, <1>8, <1>9, <1>11

LEMMA Divide ==
  ASSUME NEW c \in Nat, NEW p \in Nat \ {0}, NEW r \in Nat, r < p
  PROVE  (c * p + r) \div p = c
  OBVIOUS

LEMMA Longer ==
  ASSUME NEW c \in Nat, NEW p \in Nat \ {0}, NEW r \in Nat, r < p, NEW e \in 0 .. 9
  PROVE  /\ 10 * (c * p + r) + e = c * (10 * p) + (10 * r + e)
         /\ 10 * r + e \in Nat /\ 10 * r + e < 10 * p
  OBVIOUS

(* Number(): val[k] is the number in the first k cells, n the cells read.    *)
Read(s, val, n) ==
  /\ val \in [0 .. Len(s) -> Nat] /\ n \in 0 .. Len(s)
  /\ val[0] = 0 /\ \A k \in 1 .. Len(s) : val[k] = 10 * val[k - 1] + s[k]
  /\ \A i \in 1 .. n : s[i] # Blank
  /\ n = Len(s) \/ s[n + 1] = Blank

LEMMA NumberReads ==
  ASSUME NEW s \in Seq(0 .. Blank)
  PROVE  \E val : \E n : Read(s, val, n) /\ Number(s) = val[n]
  <1> DEFINE L == Len(s)
             value[k \in 0 .. L] == IF k = 0 THEN 0 ELSE 10 * value[k - 1] + s[k]
             Stops(k) == (\A i \in 1 .. k : s[i] # Blank) /\ (k = L \/ s[k + 1] = Blank)
             n == CHOOSE k \in 0 .. L : Stops(k)
  <1>1. Number(s) = value[n]
    BY DEF Number
  <1>2. L \in Nat /\ \A k \in 1 .. L : s[k] \in Nat
    BY ElementOfSeq DEF Blank
  <1>3. value = [k \in 0 .. L |-> IF k = 0 THEN 0 ELSE 10 * value[k - 1] + s[k]]
    <2> DEFINE pred == [k \in Nat \ {0} |-> k - 1]
               step == [k \in Nat \ {0} |-> [x \in Nat |-> 10 * x + (IF k <= L THEN s[k] ELSE 0)]]
    <2>1. Descends(pred)
      BY DEF Descends
    <2>2. Steps(step, Nat) /\ 0 \in Nat
      <3>1. ASSUME NEW k \in Nat \ {0}, NEW x \in Nat
            PROVE  10 * x + (IF k <= L THEN s[k] ELSE 0) \in Nat
        BY <1>2
      <3>. QED BY <3>1 DEF Steps
    <2>3. PICK f : Recursive(f, Nat, 0, pred, step)
      <3> HIDE DEF pred, step
      <3>. QED BY <2>1, <2>2, Recursion
    <2>4. f \in [Nat -> Nat] /\ f[0] = 0 /\ \A k \in Nat \ {0} : f[k] = step[k][f[pred[k]]]
      <3> HIDE DEF pred, step
      <3>. QED BY <2>3 DEF Recursive
    <2> DEFINE g == [k \in 0 .. L |-> f[k]]
    <2>5. ASSUME NEW k \in 0 .. L PROVE g[k] = IF k = 0 THEN 0 ELSE 10 * g[k - 1] + s[k]
      <3>1. CASE k = 0
        BY <2>4, <3>1
      <3>2. CASE k # 0
        <4>1. /\ pred[k] = k - 1 /\ k - 1 \in Nat /\ k - 1 \in 0 .. L /\ k \in Nat \ {0}
              /\ f[k - 1] \in Nat /\ k <= L
          BY <1>2, <2>4, <3>2
        <4>2. f[k] = step[k][f[k - 1]]
          BY <2>4, <4>1
        <4>. QED BY <3>2, <4>1, <4>2
      <3>. QED BY <3>1, <3>2
    <2>6. g = [k \in 0 .. L |-> IF k = 0 THEN 0 ELSE 10 * g[k - 1] + s[k]]
      BY <2>5
    <2>7. \E h : h = [k \in 0 .. L |-> IF k = 0 THEN 0 ELSE 10 * h[k - 1] + s[k]]
      <3> HIDE DEF g
      <3>. QED BY <2>6
    <2>. QED BY <2>7 DEF value
  <1> HIDE DEF value
  <1>4. value[0] = 0 /\ \A k \in 1 .. L : value[k] = 10 * value[k - 1] + s[k]
    BY <1>2, <1>3
  <1>5. \A k \in Nat : k \in {x \in Nat : x <= L => value[x] \in Nat}
    <2> DEFINE T == {x \in Nat : x <= L => value[x] \in Nat}
    <2>1. ASSUME NEW k \in Nat, \A m \in Nat : m < k => m \in T PROVE k \in T
      <3>1. CASE k = 0 \/ k > L
        BY <1>2, <1>4, <3>1
      <3>2. CASE ~ (k = 0 \/ k > L)
        <4>1. k - 1 \in T /\ k \in 1 .. L /\ k - 1 <= L
          BY <1>2, <2>1, <3>2
        <4>2. value[k - 1] \in Nat /\ s[k] \in Nat /\ value[k] = 10 * value[k - 1] + s[k]
          BY <1>2, <1>4, <4>1
        <4>. QED BY <4>2
      <3>. QED BY <3>1, <3>2
    <2> HIDE DEF T
    <2>2. \A k \in Nat : k \in T
      BY <2>1, Course
    <2>. QED BY <2>2 DEF T
  <1>6. value \in [0 .. L -> Nat]
    <2>1. ASSUME NEW k \in 0 .. L PROVE value[k] \in Nat
      BY <1>2, <1>5
    <2>. QED BY <1>3, <2>1
  <1>7. \E k \in 0 .. L : Stops(k)
    <2> DEFINE B == {k \in Nat : k < L /\ s[k + 1] = Blank}
    <2>1. CASE B = {}
      <3>1. ASSUME NEW i \in 1 .. L PROVE s[i] # Blank
        <4>1. i - 1 \in Nat /\ i - 1 < L /\ (i - 1) + 1 = i
          BY <1>2
        <4>. QED BY <2>1, <4>1
      <3>2. Stops(L) /\ L \in 0 .. L
        BY <1>2, <3>1
      <3>. QED BY <3>2
    <2>2. CASE B # {}
      <3>1. PICK k \in B : \A y \in B : k <= y
        <4>1. B \subseteq Nat
          OBVIOUS
        <4> HIDE DEF B
        <4>. QED BY <2>2, <4>1, Least
      <3>2. ASSUME NEW i \in 1 .. k PROVE s[i] # Blank
        <4>1. i - 1 \in Nat /\ i - 1 < L /\ (i - 1) + 1 = i /\ ~ k <= i - 1
          BY <1>2
        <4>. QED BY <3>1, <4>1
      <3>3. Stops(k) /\ k \in 0 .. L
        BY <1>2, <3>2
      <3>. QED BY <3>3
    <2>. QED BY <2>1, <2>2
  <1>8. n \in 0 .. L /\ Stops(n)
    <2> HIDE DEF Stops
    <2>. QED BY <1>7
  <1> HIDE DEF n
  <1>9. Read(s, value, n)
    BY <1>4, <1>6, <1>8 DEF Read
  <1>. QED BY <1>1, <1>9

(* Cells that start with the digits of c hold c so far.                    *)
LEMMA DigitsRead ==
  ASSUME NEW s \in Seq(0 .. Blank), NEW val, NEW n, Read(s, val, n), NEW c \in Nat,
         Len(Digits[c]) <= Len(s), \A k \in 1 .. Len(Digits[c]) : s[k] = Digits[c][k]
  PROVE  val[Len(Digits[c])] = c
  <1> DEFINE Starts(x) == /\ Len(Digits[x]) <= Len(s)
                          /\ \A k \in 1 .. Len(Digits[x]) : s[k] = Digits[x][k]
             T == {x \in Nat : Starts(x) => val[Len(Digits[x])] = x}
  <1>1. ASSUME NEW x \in Nat, \A m \in Nat : m < x => m \in T PROVE x \in T
    <2>1. SUFFICES ASSUME Starts(x) PROVE val[Len(Digits[x])] = x
      OBVIOUS
    <2>2. CASE x < 10
      <3>1. Digits[x] = <<x>>
        BY <2>2, DigitsDef
      <3>2. Len(Digits[x]) = 1 /\ Digits[x][1] = x
        BY <3>1
      <3>3. Len(s) \in Nat /\ 1 \in 1 .. Len(s) /\ s[1] = x
        BY <2>1, <3>2
      <3>4. val[1] = 10 * val[1 - 1] + s[1] /\ val[0] = 0 /\ 1 - 1 = 0
        BY <3>3 DEF Read
      <3>. QED BY <3>2, <3>3, <3>4
    <2>3. CASE ~ x < 10
      <3> DEFINE y == x \div 10
                 e == Len(Digits[y])
      <3>1. y \in Nat /\ y < x /\ x % 10 \in 0 .. 9 /\ x = 10 * y + (x % 10)
        BY <2>3, TenParts
      <3>2. Digits[x] = Append(Digits[y], x % 10) /\ Digits[y] \in Seq(0 .. 9) /\ e \in Nat /\ e > 0
        BY <2>3, <3>1, DigitsDef, DigitsType
      <3>3. /\ Len(Digits[x]) = e + 1 /\ Digits[x][e + 1] = x % 10
            /\ \A k \in 1 .. e : Digits[x][k] = Digits[y][k]
        <4>1. ASSUME NEW q \in Seq(0 .. 9), NEW z \in 0 .. 9
              PROVE  /\ Len(Append(q, z)) = Len(q) + 1 /\ Append(q, z)[Len(q) + 1] = z
                     /\ \A k \in 1 .. Len(q) : Append(q, z)[k] = q[k]
          BY <4>1, AppendProperties
        <4> DEFINE z == x % 10
        <4>2. z \in 0 .. 9 /\ Digits[x] = Append(Digits[y], z) /\ e = Len(Digits[y])
          BY <3>1, <3>2
        <4> HIDE DEF y, e, z
        <4>3. /\ Len(Digits[x]) = e + 1 /\ Digits[x][e + 1] = z
              /\ \A k \in 1 .. e : Digits[x][k] = Digits[y][k]
          BY <3>2, <4>1, <4>2
        <4>. QED BY <4>3 DEF z
      <3> HIDE DEF y, e
      <3>4. Len(s) \in Nat /\ e + 1 \in 1 .. Len(s) /\ s[e + 1] = x % 10
        BY <2>1, <3>2, <3>3
      <3>5. Starts(y)
        <4>1. e <= Len(s)
          BY <3>2, <3>4
        <4>2. ASSUME NEW k \in 1 .. e PROVE s[k] = Digits[y][k]
          <5>1. k \in 1 .. Len(Digits[x])
            BY <3>2, <3>3
          <5>. QED BY <2>1, <3>3, <5>1
        <4>. QED BY <4>1, <4>2 DEF e
      <3>6. val[e] = y
        BY <1>1, <3>1, <3>5 DEF e
      <3>7. val[e + 1] = 10 * val[(e + 1) - 1] + s[e + 1] /\ (e + 1) - 1 = e
        BY <3>2, <3>4 DEF Read
      <3>. QED BY <3>1, <3>3, <3>4, <3>6, <3>7
    <2>. QED BY <2>2, <2>3
  <1>2. \A x \in Nat : x \in T
    <2> HIDE DEF T
    <2>. QED BY <1>1, Course
  <1>. QED BY <1>2

(* x is c with j digits appended.                                          *)
Grown(x, c, j) == c \in Nat /\ \E r \in Nat : r < Pow10[j] /\ x = c * Pow10[j] + r

LEMMA NumberGrows ==
  ASSUME NEW s \in Seq(0 .. Blank), NEW c \in Nat,
         Len(Digits[c]) <= Len(s), \A k \in 1 .. Len(Digits[c]) : s[k] = Digits[c][k]
  PROVE  Number(s) \in Nat /\ \E j \in 0 .. Len(s) : Grown(Number(s), c, j)
  <1>1. PICK val, n : Read(s, val, n) /\ Number(s) = val[n]
    BY NumberReads
  <1> DEFINE d == Len(Digits[c])
  <1>2. val[d] = c
    BY <1>1, DigitsRead
  <1>3. /\ val \in [0 .. Len(s) -> Nat] /\ n \in 0 .. Len(s) /\ Len(s) \in Nat
        /\ d \in Nat /\ d <= Len(s)
    BY <1>1, DigitsType DEF Read
  <1>4. ASSUME NEW i \in 1 .. d PROVE s[i] # Blank
    <2>1. Digits[c][i] \in 0 .. 9
      BY DigitsType, ElementOfSeq
    <2>. QED BY <2>1 DEF Blank
  <1> HIDE DEF d
  <1>5. d <= n
    <2>1. SUFFICES ASSUME n < d PROVE FALSE
      BY <1>3
    <2>2. s[n + 1] = Blank /\ n + 1 \in 1 .. d
      BY <1>1, <1>3, <2>1 DEF Read
    <2>. QED BY <1>4, <2>2
  <1> DEFINE T == {j \in Nat : d + j <= n => Grown(val[d + j], c, j)}
  <1>6. ASSUME NEW j \in Nat, \A m \in Nat : m < j => m \in T PROVE j \in T
    <2>1. CASE j = 0
      <3>1. 0 < Pow10[0] /\ val[d + 0] = c * Pow10[0] + 0
        BY <1>2, <1>3, Pow10Def
      <3>. QED BY <2>1, <3>1 DEF Grown
    <2>2. CASE j # 0
      <3>1. SUFFICES ASSUME d + j <= n PROVE Grown(val[d + j], c, j)
        OBVIOUS
      <3> DEFINE i == j - 1
                 e == s[d + j]
      <3>2. i \in Nat /\ j = i + 1 /\ i \in T /\ d + i <= n
        BY <1>3, <1>6, <2>2, <3>1
      <3>3. PICK r \in Nat : r < Pow10[i] /\ val[d + i] = c * Pow10[i] + r
        BY <3>2 DEF Grown
      <3>4. d + j \in 1 .. Len(s) /\ d + j \in 1 .. n /\ (d + j) - 1 = d + i
        BY <1>3, <2>2, <3>1
      <3>5. e \in 0 .. 9
        <4>1. e \in 0 .. Blank /\ e # Blank
          BY <1>1, <3>4, ElementOfSeq DEF Read
        <4>. QED BY <4>1 DEF Blank
      <3>6. val[d + j] = 10 * val[d + i] + e
        BY <1>1, <3>4 DEF Read
      <3>7. Pow10[j] = 10 * Pow10[i] /\ Pow10[i] \in Nat \ {0}
        BY <3>2, Pow10Def
      <3> HIDE DEF i, e
      <3>8. /\ 10 * (c * Pow10[i] + r) + e = c * (10 * Pow10[i]) + (10 * r + e)
            /\ 10 * r + e \in Nat /\ 10 * r + e < 10 * Pow10[i]
        BY <3>3, <3>5, <3>7, Longer
      <3>9. val[d + j] = c * Pow10[j] + (10 * r + e) /\ 10 * r + e < Pow10[j] /\ 10 * r + e \in Nat
        BY <3>3, <3>6, <3>7, <3>8
      <3>. QED BY <3>9 DEF Grown
    <2>. QED BY <2>1, <2>2
  <1>7. \A j \in Nat : j \in T
    <2> HIDE DEF T
    <2>. QED BY <1>6, Course
  <1>8. n - d \in Nat /\ d + (n - d) = n /\ n - d \in 0 .. Len(s)
    BY <1>3, <1>5
  <1>9. Grown(val[n], c, n - d)
    <2>1. n - d \in T
      BY <1>7, <1>8
    <2>2. Grown(val[d + (n - d)], c, n - d)
      BY <1>3, <1>8, <2>1
    <2>. QED BY <1>8, <2>2
  <1>. QED BY <1>1, <1>3, <1>8, <1>9

LEMMA GrownDivides ==
  ASSUME NEW x, NEW c, NEW j \in Nat, Grown(x, c, j)
  PROVE  x \div Pow10[j] = c
  <1>1. PICK r \in Nat : r < Pow10[j] /\ x = c * Pow10[j] + r
    BY DEF Grown
  <1>2. c \in Nat /\ Pow10[j] \in Nat \ {0}
    BY Pow10Def DEF Grown
  <1>. QED BY <1>1, <1>2, Divide

(* A number that is an int is not changed by becoming one, and any becomes *)
(* some int.                                                               *)
LEMMA Remainder ==
  ASSUME NEW x \in Nat, NEW m \in Nat, x < m
  PROVE  x % m = x
  OBVIOUS

LEMMA ToIntFacts ==
  ASSUME NEW x \in Nat
  PROVE  /\ ToInt(x) \in -(INT_MAX + 1) .. INT_MAX
         /\ x <= INT_MAX => ToInt(x) = x
  <1>1. INT_MAX \in Nat /\ LONG_MAX \in Nat /\ INT_MAX <= LONG_MAX
    BY VoteAssumption
  <1> DEFINE M == 2 * (INT_MAX + 1)
             y == IF x <= LONG_MAX THEN x ELSE LONG_MAX
             low == y % M
  <1>2. M \in Nat /\ M > 0 /\ y \in Nat /\ M = 2 * (INT_MAX + 1)
    BY <1>1
  <1>3. low \in Nat /\ low < M
    <2>1. ASSUME NEW a \in Nat, NEW m \in Nat, m > 0 PROVE a % m \in Nat /\ a % m < m
      BY ONLY <2>1
    <2> HIDE DEF M, y
    <2>. QED BY <1>2, <2>1
  <1>4. x <= INT_MAX => low = x
    <2>1. x <= INT_MAX => y = x /\ x < M
      BY <1>1
    <2> HIDE DEF M, y
    <2>. QED BY <1>2, <2>1, Remainder
  <1>5. ToInt(x) = IF low <= INT_MAX THEN low ELSE low - M
    BY DEF ToInt
  <1> HIDE DEF low, M, y
  <1>. QED BY <1>1, <1>2, <1>3, <1>4, <1>5

-----------------------------------------------------------------------------
(* The text of a line, and what inBuf holds of it.                         *)
LEMMA SeqInto ==
  ASSUME NEW A, NEW B, NEW s \in Seq(A), \A i \in 1 .. Len(s) : s[i] \in B
  PROVE  s \in Seq(B)
  <1>1. Len(s) \in Nat /\ s = [i \in 1 .. Len(s) |-> s[i]]
    BY LenProperties
  <1>. QED BY <1>1, IsASeq

LEMMA CellsFacts ==
  ASSUME Kinds, NEW c \in Clients, NEW k \in 1 .. Len(lines[c])
  PROVE  /\ lines[c][k] \in Line
         /\ Cells(lines[c][k]) \in Seq(0 .. Blank) /\ Len(Cells(lines[c][k])) \in Nat
         /\ Len(Cells(lines[c][k])) <= TailSize
         /\ lines[c][k].kind = "request" =>
              lines[c][k].candidate \in Nat /\ Cells(lines[c][k]) = Digits[lines[c][k].candidate]
  <1> DEFINE l == lines[c][k]
  <1>1. lines[c] \in Sendings /\ lines[c] \in Seq(Line)
    BY SendingFacts DEF Kinds
  <1>2. l \in Line
    BY <1>1, ElementOfSeq
  <1>3. Len(Cells(l)) <= TailSize
    BY <1>1, LinesFit
  <1>4. l.candidate \in Nat /\ l.kind \in {"request", "response", "noise"}
    BY <1>2, VoteAssumption DEF Line
  <1> HIDE DEF l
  <1>5. Digits[l.candidate] \in Seq(0 .. Blank)
    <2>1. Digits[l.candidate] \in Seq(0 .. 9)
      BY <1>4, DigitsType
    <2>2. 0 .. 9 \subseteq 0 .. Blank
      BY DEF Blank
    <2>3. \A i \in 1 .. Len(Digits[l.candidate]) : Digits[l.candidate][i] \in 0 .. Blank
      BY <2>1, <2>2, ElementOfSeq
    <2>. QED BY <2>1, <2>3, SeqInto
  <1>6. Cells(l) \in Seq(0 .. Blank)
    <2>1. CASE l.kind = "request"
      BY <1>5, <2>1 DEF Cells
    <2>2. CASE l.kind = "response"
      <3> DEFINE d == Digits[l.candidate]
      <3>1. <<Blank>> \in Seq(0 .. Blank) /\ <<Blank, 0>> \in Seq(0 .. Blank)
        BY DEF Blank
      <3>2. Cells(l) = <<Blank>> \o d \o <<Blank, 0>>
        BY <2>2 DEF Cells
      <3> HIDE DEF d
      <3>3. <<Blank>> \o d \in Seq(0 .. Blank)
        BY <1>5, <3>1, ConcatProperties DEF d
      <3>. QED BY <3>1, <3>2, <3>3, ConcatProperties
    <2>3. CASE l.kind = "noise"
      BY <2>3 DEF Cells
    <2>. QED BY <1>4, <2>1, <2>2, <2>3
  <1>7. Len(Cells(l)) \in Nat
    BY <1>6
  <1>8. l.kind = "request" => Cells(l) = Digits[l.candidate]
    BY DEF Cells
  <1>. QED BY <1>2, <1>3, <1>4, <1>6, <1>7, <1>8 DEF l

LEMMA StoredFacts ==
  ASSUME tail \in [1 .. TailSize -> 0 .. Blank],
         NEW s \in Seq(0 .. Blank), Len(s) <= TailSize
  PROVE  /\ Stored(s) \in [1 .. TailSize -> 0 .. Blank]
         /\ Stored(s) \in Seq(0 .. Blank) /\ Len(Stored(s)) = TailSize
         /\ \A k \in 1 .. Len(s) : Stored(s)[k] = s[k]
  <1>1. TailSize \in Nat /\ Len(s) \in Nat
    BY VoteAssumption
  <1>2. tail \in Seq(0 .. Blank) /\ Len(tail) = TailSize
    <2>1. tail = [k \in 1 .. TailSize |-> tail[k]] /\ \A k \in 1 .. TailSize : tail[k] \in 0 .. Blank
      OBVIOUS
    <2>2. tail \in Seq(0 .. Blank)
      BY <1>1, <2>1, IsASeq
    <2>. QED BY <1>1, <2>2, LenProperties
  <1> DEFINE e == SubSeq(tail, Len(s) + 1, TailSize)
  <1>3. e \in Seq(0 .. Blank) /\ Len(e) = TailSize - Len(s)
    <2>1. \A k \in Len(s) + 1 .. TailSize : tail[k] \in 0 .. Blank
      BY <1>1
    <2>2. e \in Seq(0 .. Blank)
          /\ Len(e) = IF Len(s) + 1 <= TailSize THEN TailSize - (Len(s) + 1) + 1 ELSE 0
      BY <1>1, <1>2, <2>1, SubSeqProperties
    <2> HIDE DEF e
    <2>. QED BY <1>1, <2>2
  <1> HIDE DEF e
  <1> DEFINE t == s \o e
  <1>4. /\ t \in Seq(0 .. Blank) /\ Len(t) = Len(s) + Len(e)
        /\ \A k \in 1 .. Len(s) + Len(e) : t[k] = IF k <= Len(s) THEN s[k] ELSE e[k - Len(s)]
    BY <1>3, ConcatProperties
  <1>5. Stored(s) = t
    BY DEF Stored, e
  <1> HIDE DEF t
  <1>6. Len(t) = TailSize
    BY <1>1, <1>3, <1>4
  <1>7. t \in [1 .. TailSize -> 0 .. Blank]
    BY <1>4, <1>6, LenProperties
  <1>8. \A k \in 1 .. Len(s) : t[k] = s[k]
    BY <1>1, <1>3, <1>4
  <1>. QED BY <1>4, <1>5, <1>6, <1>7, <1>8

Text ==
  /\ result \in [Clients -> {"none", "ok", "error"}]
  /\ spc \in {"accept", "get", "put", "exited", "acceptFailed"}
  /\ tail \in [1 .. TailSize -> 0 .. Blank]
  /\ v \in VoteInfo
  /\ spc = "put" =>
       \/ \E j \in 0 .. TailSize :
            Grown(v.candidate, lines[cur][Last(taken[cur])].candidate, j)
       \/ Number(tail) > INT_MAX

(* A line that is cut leaves a part of its cells.                          *)
LEMMA PartStored ==
  ASSUME tail \in [1 .. TailSize -> 0 .. Blank],
         NEW s \in Seq(0 .. Blank), Len(s) <= TailSize, NEW n \in 1 .. Len(s) + 1
  PROVE  Stored(SubSeq(s, n + 1, Len(s))) \in [1 .. TailSize -> 0 .. Blank]
  <1>1. Len(s) \in Nat /\ TailSize \in Nat
    BY VoteAssumption
  <1>2. ASSUME NEW k \in n + 1 .. Len(s) PROVE s[k] \in 0 .. Blank
    <2>1. k \in 1 .. Len(s)
      BY <1>1
    <2>. QED BY <2>1, ElementOfSeq
  <1> DEFINE u == SubSeq(s, n + 1, Len(s))
  <1>3. /\ u \in Seq(0 .. Blank)
        /\ Len(u) = IF n + 1 <= Len(s) THEN Len(s) - (n + 1) + 1 ELSE 0
    BY <1>1, <1>2, SubSeqProperties
  <1> HIDE DEF u
  <1>4. Len(u) <= TailSize
    BY <1>1, <1>3
  <1>5. Stored(u) \in [1 .. TailSize -> 0 .. Blank]
    BY <1>3, <1>4, StoredFacts
  <1>. QED BY <1>5 DEF u

LEMMA GetLineText ==
  ASSUME Inv, Tally, Text, Tally', GetLine
  PROVE  Text'
  <1> DEFINE piece == toServer[cur][1]
             l     == lines[cur][piece.nr]
  <1>1. /\ UNCHANGED <<cpc, lines, result, cur>> /\ spc = "get" /\ toServer[cur] # <<>>
    BY DEF GetLine, clientVars
  <1>2. Kinds /\ cur \in Clients /\ toServer[cur] \in Seq(Piece)
    BY DEF Inv, Kinds
  <1>3. piece.nr \in 1 .. Len(lines[cur])
    <2>1. 1 \in 1 .. Len(toServer[cur])
      BY <1>1, <1>2, EmptySeq
    <2>. QED BY <1>2, <2>1 DEF Inv, Order
  <1>4. /\ l \in Line /\ Cells(l) \in Seq(0 .. Blank) /\ Len(Cells(l)) \in Nat
        /\ Len(Cells(l)) <= TailSize
        /\ l.kind = "request" => l.candidate \in Nat /\ Cells(l) = Digits[l.candidate]
    BY <1>2, <1>3, CellsFacts
  <1>5. tail \in [1 .. TailSize -> 0 .. Blank] /\ v \in VoteInfo
        /\ result' \in [Clients -> {"none", "ok", "error"}]
    BY <1>1 DEF Text
  <1>6. \/ /\ \E lost \in 1 .. Len(Cells(l)) + 1 :
                 tail' = Stored(SubSeq(Cells(l), lost + 1, Len(Cells(l))))
           /\ HangUp /\ UNCHANGED v
        \/ /\ tail' = Stored(Cells(l))
           /\ (HangUp \/ UNCHANGED spc) /\ UNCHANGED v
        \/ /\ tail' = Stored(Cells(l)) /\ l.kind = "request"
           /\ Process(l, atoi(tail')) /\ spc' = "put"
           /\ taken' = [taken EXCEPT ![cur] = Append(@, piece.nr)]
    BY DEF GetLine
  <1> HIDE DEF l
  <1>7. CASE /\ \E lost \in 1 .. Len(Cells(l)) + 1 :
                  tail' = Stored(SubSeq(Cells(l), lost + 1, Len(Cells(l))))
             /\ HangUp /\ UNCHANGED v
    <2>1. tail' \in [1 .. TailSize -> 0 .. Blank]
      BY <1>4, <1>5, <1>7, PartStored
    <2>2. spc' = "accept"
      BY <1>7 DEF HangUp
    <2>. QED BY <1>5, <1>7, <2>1, <2>2 DEF Text
  <1>8. CASE /\ tail' = Stored(Cells(l))
             /\ (HangUp \/ UNCHANGED spc) /\ UNCHANGED v
    <2>1. tail' \in [1 .. TailSize -> 0 .. Blank]
      BY <1>4, <1>5, <1>8, StoredFacts
    <2>2. spc' \in {"accept", "get"}
      BY <1>1, <1>8 DEF HangUp
    <2>. QED BY <1>5, <1>8, <2>1, <2>2 DEF Text
  <1>9. CASE /\ tail' = Stored(Cells(l)) /\ l.kind = "request"
             /\ Process(l, atoi(tail')) /\ spc' = "put"
             /\ taken' = [taken EXCEPT ![cur] = Append(@, piece.nr)]
    <2> DEFINE d == Cells(l)
               t == Stored(d)
    <2>1. /\ t \in [1 .. TailSize -> 0 .. Blank] /\ t \in Seq(0 .. Blank) /\ Len(t) = TailSize
          /\ \A k \in 1 .. Len(d) : t[k] = d[k]
      BY <1>4, <1>5, StoredFacts
    <2>2. d = Digits[l.candidate] /\ l.candidate \in Nat /\ Len(d) <= TailSize /\ tail' = t
      BY <1>4, <1>9
    <2> HIDE DEF d, t
    <2>3. /\ Len(Digits[l.candidate]) <= Len(t)
          /\ \A k \in 1 .. Len(Digits[l.candidate]) : t[k] = Digits[l.candidate][k]
      BY <2>1, <2>2
    <2>4. /\ Number(t) \in Nat
          /\ \E j \in 0 .. Len(t) : Grown(Number(t), l.candidate, j)
      BY <2>1, <2>2, <2>3, NumberGrows
    <2> DEFINE k == atoi(t)
    <2>5. /\ k \in -(INT_MAX + 1) .. INT_MAX
          /\ Number(t) <= INT_MAX => k = Number(t)
      BY <2>4, ToIntFacts DEF atoi
    <2>14. Process(l, k)
      BY <1>9, <2>2
    <2> HIDE DEF k
    <2>6. v' = [isInquiry |-> l.isInquiry, candidate |-> k,
                count |-> IF k \in 0 .. MAX_CANDIDATE THEN counts'[k] ELSE 0]
      BY <2>14 DEF Process
    <2>7. (IF k \in 0 .. MAX_CANDIDATE THEN counts'[k] ELSE 0) \in Nat
      BY DEF Tally
    <2>8. l.isInquiry \in BOOLEAN
      BY <1>4 DEF Line
    <2>9. v' \in VoteInfo /\ v'.candidate = k
      BY <2>5, <2>6, <2>7, <2>8 DEF VoteInfo
    <2>10. Last(taken'[cur']) = piece.nr
      <3>1. taken \in [Clients -> Seq(Nat)] /\ taken[cur] \in Seq(Nat) /\ piece.nr \in Nat
        <4>1. Len(lines[cur]) \in Nat
          BY <1>2, SendingFacts
        <4>. QED BY <1>2, <1>3, <4>1 DEF Kinds
      <3>2. taken'[cur] = Append(taken[cur], piece.nr)
        BY <1>2, <1>9, <3>1
      <3> HIDE DEF piece
      <3>3. /\ Len(Append(taken[cur], piece.nr)) = Len(taken[cur]) + 1
            /\ Append(taken[cur], piece.nr)[Len(taken[cur]) + 1] = piece.nr
        BY <3>1, AppendProperties
      <3>. QED BY <1>1, <3>2, <3>3 DEF Last
    <2>11. lines'[cur'][Last(taken'[cur'])].candidate = l.candidate
      BY <1>1, <2>10 DEF l
    <2>12. \/ \E j \in 0 .. TailSize :
                Grown(v'.candidate, lines'[cur'][Last(taken'[cur'])].candidate, j)
           \/ Number(tail') > INT_MAX
      <3>1. CASE Number(t) > INT_MAX
        BY <2>2, <3>1
      <3>2. CASE ~ Number(t) > INT_MAX
        <4>1. k = Number(t)
          BY <2>4, <2>5, <3>2, VoteAssumption
        <4>. QED BY <2>1, <2>4, <2>9, <2>11, <4>1
      <3>. QED BY <3>1, <3>2
    <2>13. tail' \in [1 .. TailSize -> 0 .. Blank] /\ spc' = "put"
      BY <1>9, <2>1, <2>2
    <2>. QED BY <1>5, <2>9, <2>12, <2>13 DEF Text, Grown, Number
  <1>. QED BY <1>6, <1>7, <1>8, <1>9

LEMMA TextStep ==
  ASSUME Inv, Tally, Text, Tally', [Next]_vars
  PROVE  Text'
  <1>1. CASE GetLine
    BY <1>1, GetLineText
  <1>2. CASE Accept
    <2>1. \A f \in Fills : Filled(f) \in [1 .. TailSize -> 0 .. Blank]
      BY VoteAssumption DEF Filled
    <2>2. tail' \in [1 .. TailSize -> 0 .. Blank] /\ spc' = "get"
      BY <1>2, <2>1 DEF Accept, Text
    <2>. QED BY <1>2, <2>2 DEF Accept, clientVars, Text
  <1>3. CASE EndOfStream \/ PutResponse \/ AcceptFails
    <2>1. UNCHANGED <<result, tail, v>> /\ spc' \in {"accept", "get", "exited", "acceptFailed"}
      BY <1>3 DEF EndOfStream, PutResponse, AcceptFails, HangUp, Exit, clientVars
    <2>. QED BY <2>1 DEF Text
  <1>4. ASSUME NEW c \in Clients,
               SendLine(c) \/ DieSending(c) \/ DieWaiting(c) \/ GetResponse(c)
        PROVE  Text'
    <2>1. UNCHANGED <<spc, tail, v, lines, cur, taken>>
      BY <1>4 DEF SendLine, DieSending, DieWaiting, GetResponse, serverVars
    <2>2. result' \in [Clients -> {"none", "ok", "error"}]
      BY <1>4 DEF SendLine, DieSending, DieWaiting, GetResponse, Text
    <2>. QED BY <2>1, <2>2 DEF Text, Grown, Number
  <1>5. CASE UNCHANGED vars
    BY <1>5 DEF vars, clientVars, serverVars, Text, Grown, Number
  <1>. QED BY <1>1, <1>2, <1>3, <1>4, <1>5 DEF Next, ServerStep

LEMMA TextAlways == Spec => []Text
  <1>1. Init => Text
    <2> SUFFICES ASSUME Init PROVE Text
      OBVIOUS
    <2>1. \A f \in Fills : Filled(f) \in [1 .. TailSize -> 0 .. Blank]
      BY VoteAssumption DEF Filled
    <2>2. 0 \in -(INT_MAX + 1) .. INT_MAX
      BY VoteAssumption
    <2>3. v \in VoteInfo
      BY <2>2 DEF Init, VoteInfo
    <2>. QED BY <2>1, <2>3 DEF Init, Text
  <1>2. Inv /\ Tally /\ Text /\ Tally' /\ [Next]_vars => Text'
    BY TextStep
  <1>. QED BY <1>1, <1>2, InvAlways, TallyAlways, PTL DEF Spec

(* What the server keeps has its type whatever comes: the buffer no more   *)
(* cells than it has room for, the counts one number per candidate.        *)
THEOREM VoteTypeCorrect == Spec => []TypeOK
  <1>1. Inv /\ Tally /\ Text => TypeOK
    BY DEF Inv, Kinds, Endings, Tally, Text, TypeOK
  <1>. QED BY <1>1, InvAlways, TallyAlways, TextAlways, PTL

(* Whatever inBuf held before, the candidate the server handles is the one *)
(* of the line, perhaps with digits appended that atoi() found behind it,  *)
(* unless these make it a number that is no int.                           *)
THEOREM CandidateCorrect == Spec => []CandidateOnlyGrows
  <1>1. Text => CandidateOnlyGrows
    <2> SUFFICES ASSUME Text, spc = "put", ~ Number(tail) > INT_MAX
                 PROVE  \E n \in 0 .. TailSize :
                          v.candidate \div Pow10[n] = lines[cur][Last(taken[cur])].candidate
      BY DEF CandidateOnlyGrows
    <2>1. PICK j \in 0 .. TailSize :
            Grown(v.candidate, lines[cur][Last(taken[cur])].candidate, j)
      BY DEF Text
    <2>2. j \in Nat
      BY VoteAssumption
    <2>3. v.candidate \div Pow10[j] = lines[cur][Last(taken[cur])].candidate
      BY <2>1, <2>2, GrownDivides
    <2>. QED BY <2>3
  <1>. QED BY <1>1, TextAlways, PTL
=============================================================================
