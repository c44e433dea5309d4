------------------------ MODULE IterativeEchoProofs ------------------------
(***************************************************************************)
(* Proofs about IterativeEcho.  The invariant is in parts that say nothing *)
(* of the state a server waits in when it serves nobody, so that the same  *)
(* lemmas do for the select() server, which shares the rest of the loop:   *)
(*   Types     the types of all variables but spc;                         *)
(*   Hand      when the server has a client, and bytes to send it;         *)
(*   Streams   what it has sent a client, with what it has in hand, is the *)
(*             greeting and what it has received from that client;         *)
(*   Fresh     nothing has moved on a connection nobody has accepted;      *)
(*   Progress  how far a client has come with each of its steps;           *)
(*   Ends      how a connection can have ended.                            *)
(* A second one, Waits, is about who waits for whom.                       *)
(***************************************************************************)
EXTENDS IterativeEcho, SequenceTheorems, TLAPS

Types ==
  /\ cpc \in [Clients -> {"connect"} \cup Active \cup Ended]
  /\ sent \in [Clients -> 0 .. MaxLen]
  /\ got \in [Clients -> Nat]
  /\ end \in [Clients -> Signal] /\ gone \in [Clients -> Signal]
  /\ queue \subseteq Clients
  /\ conn \in Clients \cup {None}
  /\ taken \in [Clients -> 0 .. MaxLen]
  /\ down \in [Clients -> Seq(Byte)]
  /\ buf \in Seq(Byte) /\ (Len(buf) <= BufSize \/ Len(buf) <= Greeting)

Idle == spc \notin {"recv", "send"}

Hand ==
  /\ spc = "send" => conn # None /\ Len(buf) > 0
  /\ spc = "recv" => conn # None /\ Len(buf) = 0
  /\ Idle         => conn = None /\ Len(buf) = 0

(* The k-th byte a client is due.                                          *)
Due(c, k) == IF k <= Greeting THEN <<c, 0>> ELSE <<c, k - Greeting>>

Streams ==
  /\ \A c \in Clients :
       /\ Len(down[c]) <= Greeting + taken[c]
       /\ \A k \in 1 .. Len(down[c]) : down[c][k] = Due(c, k)
  /\ conn # None =>
       /\ Len(down[conn]) + Len(buf) = Greeting + taken[conn]
       /\ \A k \in 1 .. Len(buf) : buf[k] = Due(conn, Len(down[conn]) + k)

Fresh ==
  \A c \in Clients :
    /\ c \in queue => cpc[c] # "connect"
    /\ cpc[c] = "connect" \/ c \in queue
         => taken[c] = 0 /\ Len(down[c]) = 0 /\ c # conn

Progress ==
  \A c \in Clients :
    /\ taken[c] <= sent[c] /\ sent[c] <= StrLen[c] /\ got[c] <= Len(down[c])
    /\ cpc[c] \in {"connect", "greeting"}     => sent[c] = 0
    /\ cpc[c] \in {"send", "recv", "done"}    => got[c] >= Greeting
    /\ cpc[c] = "send" /\ StrLen[c] > 0       => sent[c] < StrLen[c]
    /\ cpc[c] = "recv"                        => sent[c] = StrLen[c]
    /\ cpc[c] = "done"                        => got[c] = Greeting + StrLen[c]

Ends ==
  \A c \in Clients :
    /\ end[c] # "open" => cpc[c] \in {"done", "killed"}
    /\ end[c] = "rst"  => cpc[c] = "killed"

Inv == Types /\ Hand /\ Streams /\ Fresh /\ Progress /\ Ends

-----------------------------------------------------------------------------
(* The steps, as both servers take them: Pass stands for everything that   *)
(* leaves the server with no client and moves no byte.                     *)
Pass ==
  /\ Idle \/ \E c \in Clients : StreamEnds(c)
  /\ Idle' /\ conn' = None
  /\ UNCHANGED <<clientVars, end, gone, queue, taken, down, buf>>

Step ==
  \/ \E c \in queue : Idle /\ Serving(c)
  \/ \E c \in Clients : Recv(c) \/ Send(c)
  \/ Pass
  \/ \E p \in Down : Die(p)
  \/ World
  \/ UNCHANGED vars

LEMMA NextIsStep ==
  ASSUME [Next]_vars
  PROVE  Step
  <1> USE DEF Step, Down
  <1>1. CASE UNCHANGED vars
    BY <1>1
  <1>2. CASE AcceptFails \/ KillServer \/ World
    BY <1>2 DEF AcceptFails, KillServer
  <1>3. ASSUME NEW c \in Clients, Accept(c) PROVE Step
    BY <1>3 DEF Accept, Idle
  <1>4. ASSUME NEW c \in Clients, Handle(c) PROVE Step
    BY <1>4 DEF Handle, HandleFails
  <1>5. ASSUME NEW c \in Clients, CloseClient(c) PROVE Step
    BY <1>5 DEF CloseClient, Pass, Idle
  <1>. QED BY <1>1, <1>2, <1>3, <1>4, <1>5 DEF Next, Serve

LEMMA InvInit ==
  ASSUME NEW p, p \notin {"recv", "send"}, InitAt(p)
  PROVE  Inv
  <1> USE IterativeAssumption DEF InitAt
  <1>1. <<>> \in Seq(Byte) /\ Len(<<>>) = 0
    BY EmptySeq
  <1>2. Types
    <2>1. /\ cpc \in [Clients -> {"connect"} \cup Active \cup Ended]
          /\ end \in [Clients -> Signal] /\ gone \in [Clients -> Signal]
      BY DEF Signal
    <2>2. /\ sent \in [Clients -> 0 .. MaxLen] /\ taken \in [Clients -> 0 .. MaxLen]
          /\ got \in [Clients -> Nat]
      OBVIOUS
    <2>3. /\ down \in [Clients -> Seq(Byte)]
          /\ buf \in Seq(Byte) /\ Len(buf) <= Greeting
      BY <1>1
    <2>. QED BY <2>1, <2>2, <2>3 DEF Types
  <1>3. Hand
    BY <1>1 DEF Hand, Idle
  <1>4. \A c \in Clients : Len(down[c]) = 0
    BY <1>1
  <1>5. Streams
    BY <1>4 DEF Streams
  <1>6. Fresh
    BY <1>4 DEF Fresh
  <1>7. Progress
    BY <1>4 DEF Progress
  <1>8. Ends
    BY DEF Ends
  <1>. QED BY <1>2, <1>3, <1>5, <1>6, <1>7, <1>8 DEF Inv

-----------------------------------------------------------------------------
(* The server.                                                             *)
LEMMA HelloFacts ==
  ASSUME NEW c \in Clients
  PROVE  /\ Hello(c) \in Seq(Byte) /\ Len(Hello(c)) = Greeting
         /\ \A k \in 1 .. Greeting : Hello(c)[k] = Due(c, k)
  <1>1. Greeting \in Nat /\ <<c, 0>> \in Byte
    BY IterativeAssumption DEF Byte
  <1>2. Hello(c) \in Seq(Byte)
    BY <1>1, IsASeq DEF Hello
  <1>3. Len(Hello(c)) = Greeting
    BY <1>1, <1>2, LenProperties DEF Hello
  <1>. QED BY <1>1, <1>2, <1>3 DEF Hello, Due

LEMMA StringFacts ==
  ASSUME NEW c \in Clients, NEW m \in Nat, NEW n \in Nat, m + n <= StrLen[c]
  PROVE  /\ SubSeq(String(c), m + 1, m + n) \in Seq(Byte)
         /\ Len(SubSeq(String(c), m + 1, m + n)) = n
         /\ \A k \in 1 .. n :
              SubSeq(String(c), m + 1, m + n)[k] = Due(c, Greeting + m + k)
  <1>1. StrLen[c] \in 0 .. MaxLen /\ MaxLen \in Nat /\ Greeting \in Nat
    BY IterativeAssumption
  <1>2. \A k \in 1 .. StrLen[c] : String(c)[k] = <<c, k>> /\ <<c, k>> \in Byte
    BY <1>1 DEF String, Byte
  <1>3. ASSUME NEW k \in m + 1 .. m + n
        PROVE  String(c)[k] = <<c, k>> /\ String(c)[k] \in Byte
    <2>1. k \in 1 .. StrLen[c]
      BY <1>1
    <2>. QED BY <1>2, <2>1
  <1> DEFINE s == SubSeq(String(c), m + 1, m + n)
  <1>4. /\ s \in Seq(Byte)
        /\ Len(s) = IF m + 1 <= m + n THEN m + n - (m + 1) + 1 ELSE 0
        /\ \A k \in 1 .. m + n - (m + 1) + 1 : s[k] = String(c)[m + 1 + k - 1]
    BY <1>3, SubSeqProperties
  <1> HIDE DEF s
  <1>5. Len(s) = n
    BY <1>4
  <1>6. ASSUME NEW k \in 1 .. n PROVE s[k] = Due(c, Greeting + m + k)
    <2>1. m + 1 + k - 1 = m + k /\ m + k \in m + 1 .. m + n
          /\ k \in 1 .. m + n - (m + 1) + 1
      OBVIOUS
    <2>3. s[k] = String(c)[m + k]
      BY ONLY <1>4, <2>1
    <2>2. Greeting + m + k > Greeting /\ Greeting + m + k - Greeting = m + k
      BY <1>1
    <2>4. String(c)[m + k] = <<c, m + k>>
      BY <1>3, <2>1
    <2>5. Due(c, Greeting + m + k) = <<c, m + k>>
      BY <1>1, <2>2 DEF Due
    <2>. QED BY <2>3, <2>4, <2>5
  <1>. QED BY <1>4, <1>5, <1>6 DEF s

LEMMA ServingInv ==
  ASSUME Inv, Idle, NEW c \in queue, Serving(c)
  PROVE  Inv'
  <1> USE IterativeAssumption
  <1>1. /\ c \in Clients /\ conn' = c /\ queue' = queue \ {c} /\ buf' = Hello(c)
        /\ UNCHANGED <<cpc, sent, got, end, gone, taken, down>>
        /\ taken[c] = 0 /\ Len(down[c]) = 0
        /\ Greeting \in Nat
    BY DEF Serving, clientVars, Inv, Types, Fresh
  <1>2. /\ buf' \in Seq(Byte) /\ Len(buf') = Greeting
        /\ \A k \in 1 .. Greeting : buf'[k] = Due(c, k)
    BY <1>1, HelloFacts
  <1>3. Types'
    <2>1. buf' \in Seq(Byte) /\ (Len(buf') <= BufSize \/ Len(buf') <= Greeting)
      BY <1>1, <1>2
    <2>2. conn' \in Clients \cup {None} /\ queue' \subseteq Clients
      BY <1>1 DEF Inv, Types
    <2>. QED BY <1>1, <2>1, <2>2 DEF Inv, Types
  <1>4. Hand'
    <2>1. spc' = IF buf' = <<>> THEN "recv" ELSE "send"
      BY DEF Serving
    <2>2. buf' = <<>> <=> Len(buf') = 0
      BY <1>2, EmptySeq
    <2>. QED BY <1>1, <1>2, <2>1, <2>2 DEF Hand, Idle
  <1>5. Streams'
    BY <1>1, <1>2 DEF Inv, Streams, Types
  <1>6. Fresh'
    BY <1>1 DEF Inv, Fresh
  <1>7. Progress' /\ Ends'
    BY <1>1 DEF Inv, Progress, Ends
  <1>. QED BY <1>3, <1>4, <1>5, <1>6, <1>7 DEF Inv

LEMMA RecvInv ==
  ASSUME Inv, NEW c \in Clients, Recv(c)
  PROVE  Inv'
  <1> USE IterativeAssumption
  <1>1. PICK n \in 1 .. Lesser(ToTake(c), BufSize) :
          /\ taken' = [taken EXCEPT ![c] = @ + n]
          /\ buf' = SubSeq(String(c), taken[c] + 1, taken[c] + n)
    BY DEF Recv
  <1>2. /\ spc' = "send" /\ spc = "recv" /\ conn = c /\ conn # None
        /\ UNCHANGED <<cpc, sent, got, end, gone, queue, conn, down>>
    BY DEF Recv, clientVars
  <1>3. /\ taken[c] \in Nat /\ sent[c] \in 0 .. MaxLen /\ StrLen[c] \in Nat
        /\ taken[c] <= sent[c] /\ sent[c] <= StrLen[c]
        /\ Len(down[c]) \in Nat /\ down[c] \in Seq(Byte)
        /\ Len(buf) = 0 /\ Greeting \in Nat /\ BufSize \in Nat
    BY <1>2 DEF Inv, Types, Progress, Hand
  <1>4. n \in Nat /\ n > 0 /\ n <= BufSize /\ taken[c] + n <= sent[c]
    BY <1>3 DEF Lesser, ToTake
  <1>5. /\ buf' \in Seq(Byte) /\ Len(buf') = n
        /\ \A k \in 1 .. n : buf'[k] = Due(c, Greeting + taken[c] + k)
    <2>1. taken[c] + n <= StrLen[c]
      BY <1>3, <1>4
    <2> DEFINE p == SubSeq(String(c), taken[c] + 1, taken[c] + n)
    <2>2. /\ p \in Seq(Byte) /\ Len(p) = n
          /\ \A k \in 1 .. n : p[k] = Due(c, Greeting + taken[c] + k)
      <3>1. c \in Clients /\ taken[c] \in Nat /\ n \in Nat
        BY <1>3, <1>4
      <3>. QED BY ONLY <2>1, <3>1, StringFacts, Zenon
    <2>3. buf' = p
      BY <1>1
    <2>. QED BY ONLY <2>2, <2>3
  <1>6. Len(down[c]) = Greeting + taken[c]
    BY <1>2, <1>3 DEF Inv, Streams
  <1>7. taken' \in [Clients -> 0 .. MaxLen] /\ taken'[c] = taken[c] + n
        /\ \A d \in Clients : d # c => taken'[d] = taken[d]
    BY <1>1, <1>3, <1>4 DEF Inv, Types
  <1>8. Types'
    <2>1. buf' \in Seq(Byte) /\ (Len(buf') <= BufSize \/ Len(buf') <= Greeting)
      BY <1>4, <1>5
    <2>. QED BY <1>2, <1>4, <1>7, <2>1 DEF Inv, Types
  <1>9. Hand'
    BY <1>2, <1>4, <1>5 DEF Hand, Idle
  <1>10. Streams'
    <2>1. \A d \in Clients : taken[d] <= taken'[d] /\ taken[d] \in Nat /\ taken'[d] \in Nat
                             /\ Len(down[d]) \in Nat
      <3>1. \A d \in Clients : taken[d] \in Nat /\ Len(down[d]) \in Nat
        BY DEF Inv, Types
      <3>2. taken[c] <= taken'[c] /\ taken'[c] \in Nat
        <4>1. n \in Nat /\ taken[c] \in Nat /\ taken'[c] = taken[c] + n
          BY <1>3, <1>4, <1>7, <3>1
        <4>. QED BY ONLY <4>1
      <3>3. ASSUME NEW d \in Clients PROVE taken[d] <= taken'[d] /\ taken'[d] \in Nat
        <4>1. CASE d = c
          BY ONLY <3>2, <4>1
        <4>2. CASE d # c
          BY <1>7, <3>1, <4>2
        <4>. QED BY <4>1, <4>2
      <3>. QED BY ONLY <3>1, <3>3
    <2>2. ASSUME NEW d \in Clients
          PROVE  /\ Len(down'[d]) <= Greeting + taken'[d]
                 /\ \A k \in 1 .. Len(down'[d]) : down'[d][k] = Due(d, k)
      <3>1. /\ Len(down[d]) <= Greeting + taken[d]
            /\ \A k \in 1 .. Len(down[d]) : down[d][k] = Due(d, k)
        BY DEF Inv, Streams
      <3>2. down'[d] = down[d]
        BY <1>2
      <3>3. Len(down[d]) <= Greeting + taken'[d]
        <4>1. taken[d] <= taken'[d] /\ taken[d] \in Nat /\ taken'[d] \in Nat
              /\ Len(down[d]) \in Nat /\ Greeting \in Nat
          BY <2>1
        <4>2. Len(down[d]) <= Greeting + taken[d]
          BY <3>1
        <4>. QED BY ONLY <4>1, <4>2
      <3>. QED BY <3>1, <3>2, <3>3
    <2>3. Len(down[c]) + Len(buf') = Greeting + taken'[c]
      BY <1>3, <1>4, <1>5, <1>6, <1>7
    <2>4. \A k \in 1 .. Len(buf') : buf'[k] = Due(c, Len(down[c]) + k)
      BY <1>5, <1>6
    <2>. QED BY <1>2, <2>2, <2>3, <2>4 DEF Streams
  <1>11. Fresh'
    BY <1>2, <1>7 DEF Inv, Fresh
  <1>12. Progress'
    BY <1>2, <1>3, <1>4, <1>7 DEF Inv, Progress
  <1>13. Ends'
    BY <1>2 DEF Inv, Ends
  <1>. QED BY <1>8, <1>9, <1>10, <1>11, <1>12, <1>13 DEF Inv

LEMMA Places ==
  ASSUME NEW a \in Nat, NEW b \in Nat, NEW n \in Nat, NEW k \in 1 .. b - n
  PROVE  n + k \in 1 .. b /\ a + (n + k) = a + n + k
  OBVIOUS

(* What one send() does to the bytes in hand and in the stream.            *)
LEMMA SendFacts ==
  ASSUME Inv, NEW c \in Clients, Send(c)
  PROVE  \E n \in 1 .. Len(buf) :
           /\ down'[c] \in Seq(Byte) /\ Len(down'[c]) = Len(down[c]) + n
           /\ \A k \in 1 .. Len(down'[c]) : down'[c][k] = Due(c, k)
           /\ \A d \in Clients : d # c => down'[d] = down[d]
           /\ down' \in [Clients -> Seq(Byte)]
           /\ buf' \in Seq(Byte) /\ Len(buf') = Len(buf) - n
           /\ \A k \in 1 .. Len(buf') : buf'[k] = Due(c, Len(down'[c]) + k)
  <1> USE IterativeAssumption
  <1>1. /\ spc = "send" /\ conn = c /\ conn # None
        /\ buf \in Seq(Byte) /\ Len(buf) \in Nat /\ Len(buf) > 0
        /\ down[c] \in Seq(Byte) /\ Len(down[c]) \in Nat
        /\ got[c] \in Nat /\ got[c] <= Len(down[c])
        /\ \A k \in 1 .. Len(down[c]) : down[c][k] = Due(c, k)
        /\ \A k \in 1 .. Len(buf) : buf[k] = Due(c, Len(down[c]) + k)
    <2>1. spc = "send" /\ conn = c /\ conn # None /\ Len(buf) > 0
      BY DEF Send, Inv, Hand
    <2>2. /\ buf \in Seq(Byte) /\ Len(buf) \in Nat
          /\ down[c] \in Seq(Byte) /\ Len(down[c]) \in Nat /\ got[c] \in Nat
      BY DEF Inv, Types
    <2>3. got[c] <= Len(down[c])
      BY DEF Inv, Progress
    <2>4. /\ \A k \in 1 .. Len(down[c]) : down[c][k] = Due(c, k)
          /\ \A k \in 1 .. Len(buf) : buf[k] = Due(c, Len(down[c]) + k)
      BY <2>1 DEF Inv, Streams
    <2>. QED BY <2>1, <2>2, <2>3, <2>4
  <1>2. PICK n \in 1 .. Lesser(Len(buf), DownCap - Lesser(ToGet(c), DownCap)) :
          /\ down' = [down EXCEPT ![c] = @ \o SubSeq(buf, 1, n)]
          /\ buf' = SubSeq(buf, n + 1, Len(buf))
    BY DEF Send
  <1>3. n \in 1 .. Len(buf)
    BY <1>1 DEF Lesser, ToGet
  <1> DEFINE s == SubSeq(buf, 1, n)
             t == SubSeq(buf, n + 1, Len(buf))
  <1>4. /\ s \in Seq(Byte) /\ Len(s) = n
        /\ \A k \in 1 .. n : s[k] = buf[k]
    <2>1. \A k \in 1 .. n : buf[k] \in Byte
      BY <1>1, <1>3, ElementOfSeq
    <2>2. /\ s \in Seq(Byte) /\ Len(s) = IF 1 <= n THEN n - 1 + 1 ELSE 0
          /\ \A k \in 1 .. n - 1 + 1 : s[k] = buf[1 + k - 1]
      BY <1>3, <2>1, SubSeqProperties
    <2> HIDE DEF s
    <2>. QED BY <1>3, <2>2
  <1>5. /\ t \in Seq(Byte) /\ Len(t) = Len(buf) - n
        /\ \A k \in 1 .. Len(t) : t[k] = buf[n + k]
    <2>1. \A k \in n + 1 .. Len(buf) : buf[k] \in Byte
      BY <1>1, <1>3, ElementOfSeq
    <2>2. /\ t \in Seq(Byte)
          /\ Len(t) = IF n + 1 <= Len(buf) THEN Len(buf) - (n + 1) + 1 ELSE 0
          /\ \A k \in 1 .. Len(buf) - (n + 1) + 1 : t[k] = buf[n + 1 + k - 1]
      BY <1>1, <1>3, <2>1, SubSeqProperties
    <2> HIDE DEF t
    <2>3. Len(t) = Len(buf) - n
      <3>1. CASE n < Len(buf)
        BY <1>1, <1>3, <2>2, <3>1
      <3>2. CASE n = Len(buf)
        BY <1>1, <1>3, <2>2, <3>2
      <3>. QED BY <1>1, <1>3, <3>1, <3>2
    <2>4. ASSUME NEW k \in 1 .. Len(t) PROVE t[k] = buf[n + k]
      <3>1. Len(buf) - (n + 1) + 1 = Len(t) /\ n + 1 + k - 1 = n + k
        <4>1. n \in Nat /\ Len(buf) \in Nat /\ k \in Nat
          BY <1>1, <1>3, <2>3
        <4>. QED BY <2>3, <4>1
      <3>. QED BY <2>2, <3>1
    <2>. QED BY <2>2, <2>3, <2>4
  <1>6. down'[c] = down[c] \o s /\ buf' = t
    BY <1>2 DEF Inv, Types
  <1> HIDE DEF s, t
  <1>7. /\ down[c] \o s \in Seq(Byte) /\ Len(down[c] \o s) = Len(down[c]) + n
        /\ \A k \in 1 .. Len(down[c]) + n : (down[c] \o s)[k] =
             IF k <= Len(down[c]) THEN down[c][k] ELSE s[k - Len(down[c])]
    <2>1. down[c] \in Seq(Byte) /\ s \in Seq(Byte) /\ Len(s) = n
      BY <1>1, <1>4
    <2>. QED BY ONLY <2>1, ConcatProperties
  <1>8. ASSUME NEW k \in 1 .. Len(down[c]) + n PROVE (down[c] \o s)[k] = Due(c, k)
    <2>1. CASE k <= Len(down[c])
      BY <1>1, <1>7, <2>1
    <2>2. CASE k > Len(down[c])
      <3>1. k - Len(down[c]) \in 1 .. n /\ k - Len(down[c]) \in 1 .. Len(buf)
        BY <1>1, <1>3, <2>2
      <3>2. (down[c] \o s)[k] = buf[k - Len(down[c])]
        BY <1>1, <1>4, <1>7, <2>2, <3>1
      <3>3. Len(down[c]) + (k - Len(down[c])) = k
        BY <1>1
      <3>4. buf[k - Len(down[c])] = Due(c, Len(down[c]) + (k - Len(down[c])))
        BY <1>1, <3>1
      <3>. QED BY <3>2, <3>3, <3>4
    <2>3. k \in Nat /\ Len(down[c]) \in Nat
      BY <1>1, <1>3
    <2>4. k <= Len(down[c]) \/ k > Len(down[c])
      BY ONLY <2>3
    <2>. QED BY ONLY <2>1, <2>2, <2>4
  <1>9. ASSUME NEW k \in 1 .. Len(t) PROVE t[k] = Due(c, Len(down[c]) + n + k)
    <2>1. /\ k \in 1 .. Len(buf) - n /\ n \in Nat /\ Len(buf) \in Nat
          /\ Len(down[c]) \in Nat
      BY <1>1, <1>3, <1>5
    <2>2. n + k \in 1 .. Len(buf) /\ Len(down[c]) + (n + k) = Len(down[c]) + n + k
      BY ONLY <2>1, Places
    <2>3. buf[n + k] = Due(c, Len(down[c]) + (n + k))
      BY <1>1, <2>2
    <2>. QED BY <1>5, <2>2, <2>3
  <1>10. /\ down' \in [Clients -> Seq(Byte)]
         /\ \A d \in Clients : d # c => down'[d] = down[d]
    BY <1>2, <1>6, <1>7 DEF Inv, Types
  <1>. QED BY <1>3, <1>5, <1>6, <1>7, <1>8, <1>9, <1>10

LEMMA SendInv ==
  ASSUME Inv, NEW c \in Clients, Send(c)
  PROVE  Inv'
  <1> USE IterativeAssumption
  <1>1. PICK n \in 1 .. Len(buf) :
          /\ down'[c] \in Seq(Byte) /\ Len(down'[c]) = Len(down[c]) + n
          /\ \A k \in 1 .. Len(down'[c]) : down'[c][k] = Due(c, k)
          /\ \A d \in Clients : d # c => down'[d] = down[d]
          /\ down' \in [Clients -> Seq(Byte)]
          /\ buf' \in Seq(Byte) /\ Len(buf') = Len(buf) - n
          /\ \A k \in 1 .. Len(buf') : buf'[k] = Due(c, Len(down'[c]) + k)
    BY SendFacts
  <1>2. /\ spc = "send" /\ conn = c /\ conn # None /\ end[c] # "rst"
        /\ spc' = IF buf' = <<>> THEN "recv" ELSE "send"
        /\ UNCHANGED <<cpc, sent, got, end, gone, queue, conn, taken>>
    BY DEF Send, clientVars
  <1>3. /\ Len(buf) \in Nat /\ Len(down[c]) \in Nat /\ taken[c] \in Nat
        /\ Len(down[c]) + Len(buf) = Greeting + taken[c] /\ Greeting \in Nat
        /\ got[c] \in Nat /\ BufSize \in Nat
    BY <1>2 DEF Inv, Types, Streams
  <1>4. Types'
    <2>1. Len(buf') <= BufSize \/ Len(buf') <= Greeting
      <3>1. Len(buf) <= BufSize \/ Len(buf) <= Greeting
        BY DEF Inv, Types
      <3>. QED BY <1>1, <1>3, <3>1
    <2>2. buf' \in Seq(Byte) /\ down' \in [Clients -> Seq(Byte)]
      BY <1>1
    <2>. QED BY <1>2, <2>1, <2>2 DEF Inv, Types
  <1>5. Hand'
    <2>1. buf' = <<>> <=> Len(buf') = 0
      BY <1>1, EmptySeq
    <2>2. Len(buf') \in Nat
      BY <1>1
    <2>. QED BY <1>2, <2>1, <2>2 DEF Hand, Idle
  <1>6. Streams'
    <2>1. Len(down'[c]) + Len(buf') = Greeting + taken[c] /\ Len(down'[c]) <= Greeting + taken[c]
      BY <1>1, <1>3
    <2>2. ASSUME NEW d \in Clients
          PROVE  /\ Len(down'[d]) <= Greeting + taken'[d]
                 /\ \A k \in 1 .. Len(down'[d]) : down'[d][k] = Due(d, k)
      <3>1. CASE d = c
        BY <1>1, <1>2, <2>1, <3>1
      <3>2. CASE d # c
        <4>1. /\ Len(down[d]) <= Greeting + taken[d]
              /\ \A k \in 1 .. Len(down[d]) : down[d][k] = Due(d, k)
          BY DEF Inv, Streams
        <4>2. down'[d] = down[d] /\ taken' = taken
          BY <1>1, <1>2, <3>2
        <4>. QED BY ONLY <4>1, <4>2
      <3>. QED BY <3>1, <3>2
    <2>. QED BY <1>1, <1>2, <2>1, <2>2 DEF Streams
  <1>7. Fresh'
    BY <1>1, <1>2 DEF Inv, Fresh
  <1>8. \A d \in Clients : Len(down[d]) \in Nat /\ Len(down'[d]) \in Nat
                           /\ got[d] \in Nat /\ Len(down[d]) <= Len(down'[d])
    <2> SUFFICES ASSUME NEW d \in Clients
                 PROVE  /\ Len(down[d]) \in Nat /\ Len(down'[d]) \in Nat
                        /\ got[d] \in Nat /\ Len(down[d]) <= Len(down'[d])
      OBVIOUS
    <2>1. Len(down[d]) \in Nat /\ got[d] \in Nat
      BY DEF Inv, Types
    <2>2. CASE d = c
      BY <1>1, <1>3, <2>1, <2>2
    <2>3. CASE d # c
      BY <1>1, <2>1, <2>3
    <2>. QED BY <2>2, <2>3
  <1>9. Progress'
    BY <1>2, <1>8 DEF Inv, Progress
  <1>10. Ends'
    BY <1>2, <1>8 DEF Inv, Ends
  <1>. QED BY <1>4, <1>5, <1>6, <1>7, <1>9, <1>10 DEF Inv

LEMMA PassInv ==
  ASSUME Inv, Pass
  PROVE  Inv'
  <1>1. /\ Idle' /\ conn' = None
        /\ UNCHANGED <<cpc, sent, got, end, gone, queue, taken, down, buf>>
    BY DEF Pass, clientVars
  <1>2. Len(buf) = 0
    BY DEF Inv, Pass, Hand, StreamEnds
  <1>3. Types' /\ Hand' /\ Streams' /\ Progress' /\ Ends'
    BY <1>1, <1>2 DEF Inv, Types, Hand, Idle, Streams, Progress, Ends
  <1>4. Fresh'
    BY <1>1, IterativeAssumption DEF Inv, Fresh
  <1>. QED BY <1>3, <1>4 DEF Inv

LEMMA DieInv ==
  ASSUME Inv, NEW p \in Down, Die(p)
  PROVE  Inv'
  <1> USE IterativeAssumption
  <1>1. /\ spc' = p /\ conn' = None /\ buf' = <<>> /\ queue' = {}
        /\ UNCHANGED <<cpc, sent, got, end, taken, down>>
        /\ gone' \in [Clients -> Signal]
    BY DEF Die, clientVars, Inv, Types, Signal
  <1>2. buf' \in Seq(Byte) /\ Len(buf') = 0
    BY <1>1, EmptySeq
  <1>3. Types' /\ Progress' /\ Ends'
    BY <1>1, <1>2 DEF Inv, Types, Progress, Ends
  <1>4. Hand'
    BY <1>1, <1>2 DEF Hand, Idle, Down
  <1>5. Streams' /\ Fresh'
    BY <1>1 DEF Inv, Streams, Fresh
  <1>. QED BY <1>3, <1>4, <1>5 DEF Inv

-----------------------------------------------------------------------------
(* The clients.  None of their steps touches the server's side.            *)
LEMMA ServerSideKept ==
  ASSUME Inv, UNCHANGED serverVars
  PROVE  Hand' /\ Streams'
  BY DEF Inv, serverVars, Hand, Idle, Streams

(* What the invariant says of one client, as numbers.                      *)
LEMMA ClientFacts ==
  ASSUME Inv, NEW c \in Clients
  PROVE  /\ sent[c] \in Nat /\ got[c] \in Nat /\ taken[c] \in Nat /\ StrLen[c] \in Nat
         /\ Len(down[c]) \in Nat /\ Greeting \in Nat /\ MaxLen \in Nat
         /\ taken[c] <= sent[c] /\ sent[c] <= StrLen[c] /\ StrLen[c] <= MaxLen
         /\ got[c] <= Len(down[c]) /\ Len(down[c]) <= Greeting + taken[c]
  <1>1. /\ sent[c] \in Nat /\ got[c] \in Nat /\ taken[c] \in Nat
        /\ down[c] \in Seq(Byte)
    BY IterativeAssumption DEF Inv, Types
  <1>2. /\ StrLen[c] \in Nat /\ Greeting \in Nat /\ MaxLen \in Nat /\ StrLen[c] <= MaxLen
    BY IterativeAssumption
  <1>. QED BY <1>1, <1>2 DEF Inv, Progress, Streams

(* The greeting a client has read is the greeting: ReceiveGreetings never  *)
(* finds a difference.                                                     *)
LEMMA GreetingIsHello ==
  ASSUME Inv, NEW c \in Clients, NEW n \in Nat, n >= Greeting, n <= Len(down[c]),
         cpc[c] = "greeting"
  PROVE  n = Greeting /\ SubSeq(down[c], 1, n) = Hello(c)
  <1>1. n = Greeting /\ Len(down[c]) = Greeting
    BY ClientFacts DEF Inv, Progress
  <1>2. /\ Greeting \in Nat /\ down[c] \in Seq(Byte)
        /\ \A k \in 1 .. Len(down[c]) : down[c][k] = Due(c, k)
    BY IterativeAssumption DEF Inv, Types, Streams
  <1>3. SubSeq(down[c], 1, n) = down[c]
    BY <1>1, <1>2, SubSeqFull
  <1>4. down[c] = Hello(c)
    BY <1>1, <1>2, HelloFacts, SeqEqual
  <1>. QED BY <1>1, <1>3, <1>4

(* Each step of a connected client moves its own counters and may close    *)
(* its end, and what it does depends on how far it has come.               *)
OneClient(c) ==
  /\ cpc' \in [Clients -> {"connect"} \cup Active \cup Ended]
  /\ sent' \in [Clients -> 0 .. MaxLen] /\ got' \in [Clients -> Nat]
  /\ end' \in [Clients -> Signal] /\ gone' \in [Clients -> Signal]
  /\ UNCHANGED <<queue, serverVars>>
  /\ \A d \in Clients \ {c} : /\ cpc'[d] = cpc[d] /\ sent'[d] = sent[d]
                              /\ got'[d] = got[d] /\ end'[d] = end[d]
  /\ cpc[c] # "connect" /\ cpc'[c] # "connect"
  /\ sent[c] <= sent'[c] /\ sent'[c] <= StrLen[c] /\ got'[c] <= Len(down[c])
  /\ cpc'[c] = "greeting"                  => sent'[c] = 0
  /\ cpc'[c] \in {"send", "recv", "done"}  => got'[c] >= Greeting
  /\ cpc'[c] = "send" /\ StrLen[c] > 0     => sent'[c] < StrLen[c]
  /\ cpc'[c] = "recv"                      => sent'[c] = StrLen[c]
  /\ cpc'[c] = "done"                      => got'[c] = Greeting + StrLen[c]
  /\ end'[c] # "open" => cpc'[c] \in {"done", "killed"}
  /\ end'[c] = "rst"  => cpc'[c] = "killed"

LEMMA OneClientInv ==
  ASSUME Inv, NEW c \in Clients, OneClient(c)
  PROVE  Inv'
  <1>1. UNCHANGED <<conn, taken, down, buf, queue>>
    BY DEF OneClient, serverVars
  <1>2. Types'
    BY <1>1 DEF OneClient, Inv, Types
  <1>3. Fresh'
    BY <1>1 DEF OneClient, Inv, Fresh
  <1>4. Progress'
    <2>1. taken[c] <= sent'[c]
      <3>1. sent'[c] \in Nat
        BY IterativeAssumption DEF OneClient
      <3>. QED BY <3>1, ClientFacts DEF OneClient
    <2>. QED BY <1>1, <2>1 DEF OneClient, Inv, Progress
  <1>5. Ends'
    BY <1>1 DEF OneClient, Inv, Ends
  <1>6. Hand' /\ Streams'
    BY ServerSideKept DEF OneClient
  <1>. QED BY <1>2, <1>3, <1>4, <1>5, <1>6 DEF Inv

LEMMA ConnectInv ==
  ASSUME Inv, NEW c \in Clients, Connect(c) \/ ConnectFails(c)
  PROVE  Inv'
  <1> USE IterativeAssumption
  <1>1. PICK s \in {"greeting", "send", "failed"} :
          /\ cpc' = [cpc EXCEPT ![c] = s]
          /\ queue' \subseteq queue \cup {c} /\ queue' \subseteq Clients
          /\ s = "send" => Greeting = 0
    <2>1. queue \subseteq Clients
      BY DEF Inv, Types
    <2>2. CASE Connect(c)
      <3>1. FirstStep \in {"greeting", "send", "failed"} /\ (FirstStep = "send" => Greeting = 0)
        BY DEF FirstStep
      <3>2. cpc' = [cpc EXCEPT ![c] = FirstStep] /\ queue' = queue \cup {c}
        BY <2>2 DEF Connect
      <3> HIDE DEF FirstStep
      <3>. QED BY <2>1, <3>1, <3>2
    <2>3. CASE ConnectFails(c)
      BY <2>1, <2>3 DEF ConnectFails
    <2>. QED BY <2>2, <2>3
  <1>2. /\ cpc[c] = "connect"
        /\ UNCHANGED <<sent, got, end, gone, serverVars>>
        /\ UNCHANGED <<conn, taken, down, buf>>
    BY DEF Connect, ConnectFails, serverVars
  <1>3. /\ cpc'[c] = s /\ \A d \in Clients : d # c => cpc'[d] = cpc[d]
        /\ cpc' \in [Clients -> {"connect"} \cup Active \cup Ended]
    BY <1>1 DEF Inv, Types, Active, Ended
  <1>4. Types'
    BY <1>1, <1>2, <1>3 DEF Inv, Types
  <1>5. Fresh'
    BY <1>1, <1>2, <1>3 DEF Inv, Fresh
  <1>6. sent[c] = 0 /\ got[c] \in Nat /\ end[c] = "open" /\ StrLen[c] \in Nat
    BY <1>2, ClientFacts DEF Inv, Progress, Ends
  <1>7. Progress'
    BY <1>1, <1>2, <1>3, <1>6 DEF Inv, Progress
  <1>8. Ends'
    BY <1>2, <1>3, <1>6 DEF Inv, Ends
  <1>. QED BY <1>2, <1>4, <1>5, <1>7, <1>8, ServerSideKept DEF Inv

(* A client that is at work has not closed its end.                        *)
LEMMA ActiveIsOpen ==
  ASSUME Inv, NEW c \in Clients, cpc[c] \in Active
  PROVE  end[c] = "open" /\ cpc[c] # "connect"
  BY DEF Inv, Ends, Types, Signal, Active

(* How many bytes recv() returns.                                          *)
LEMMA GetFacts ==
  ASSUME Inv, NEW c \in Clients, Get(c)
  PROVE  /\ got' \in [Clients -> Nat]
         /\ \A d \in Clients \ {c} : got'[d] = got[d]
         /\ got[c] < got'[c] /\ got'[c] <= Len(down[c])
  <1>1. PICK n \in 1 .. ToGet(c) : got' = [got EXCEPT ![c] = @ + n]
    BY DEF Get
  <1>2. n \in Nat /\ n > 0 /\ got[c] + n <= Len(down[c]) /\ got[c] \in Nat
    BY ClientFacts DEF ToGet
  <1>. QED BY <1>1, <1>2 DEF Inv, Types

LEMMA LeaveFacts ==
  ASSUME Inv, NEW c \in Clients, NEW how \in Ended, Leave(c, how)
  PROVE  /\ cpc' \in [Clients -> {"connect"} \cup Active \cup Ended] /\ cpc'[c] = how
         /\ end' \in [Clients -> Signal]
         /\ end'[c] = IF got'[c] < Len(down[c]) THEN "rst" ELSE "fin"
         /\ \A d \in Clients \ {c} : cpc'[d] = cpc[d] /\ end'[d] = end[d]
  BY DEF Inv, Types, Leave, Signal

LEMMA ReceiveGreetingsInv ==
  ASSUME Inv, NEW c \in Clients, ReceiveGreetings(c)
  PROVE  Inv'
  <1>1. /\ cpc[c] = "greeting" /\ UNCHANGED <<sent, gone, queue, serverVars>>
        /\ sent[c] = 0 /\ end[c] = "open"
        /\ sent \in [Clients -> 0 .. MaxLen] /\ gone \in [Clients -> Signal]
        /\ end \in [Clients -> Signal]
        /\ cpc \in [Clients -> {"connect"} \cup Active \cup Ended]
    BY ActiveIsOpen DEF ReceiveGreetings, Active, Inv, Types, Progress
  <1>2. /\ got' \in [Clients -> Nat] /\ got'[c] \in Nat
        /\ \A d \in Clients \ {c} : got'[d] = got[d]
        /\ got'[c] <= Len(down[c])
    BY GetFacts DEF ReceiveGreetings
  <1>3. StrLen[c] \in Nat /\ Greeting \in Nat
    BY ClientFacts
  <1>4. CASE got'[c] < Greeting
    <2> DEFINE p == SubSeq(down[c], 1, got'[c])
    <2>1. Len(p) # Greeting
      <3>1. down[c] \in Seq(Byte)
        BY DEF Inv, Types
      <3>2. \A k \in 1 .. got'[c] : down[c][k] \in Byte
        BY <1>2, <3>1, ElementOfSeq
      <3>3. Len(p) = IF 1 <= got'[c] THEN got'[c] - 1 + 1 ELSE 0
        BY <1>2, <3>2, SubSeqProperties
      <3> HIDE DEF p
      <3>. QED BY <1>2, <1>3, <1>4, <3>3
    <2>2. p # Hello(c)
      BY <2>1, HelloFacts
    <2>3. UNCHANGED <<cpc, end>>
      BY <1>3, <1>4, <2>2 DEF ReceiveGreetings
    <2>one. OneClient(c)
      BY <1>1, <1>2, <1>3, <2>3 DEF OneClient
    <2>. QED BY <2>one, OneClientInv
  <1>5. CASE got'[c] >= Greeting
    <2>1. SubSeq(down[c], 1, got'[c]) = Hello(c)
      BY <1>1, <1>2, <1>5, GreetingIsHello
    <2>2. cpc' = [cpc EXCEPT ![c] = "send"] /\ UNCHANGED end
      BY <1>2, <1>3, <1>5, <2>1 DEF ReceiveGreetings
    <2>3. /\ cpc' \in [Clients -> {"connect"} \cup Active \cup Ended] /\ cpc'[c] = "send"
          /\ \A d \in Clients \ {c} : cpc'[d] = cpc[d]
      BY <1>1, <2>2 DEF Active
    <2>one. OneClient(c)
      BY <1>1, <1>2, <1>3, <1>5, <2>2, <2>3 DEF OneClient
    <2>. QED BY <2>one, OneClientInv
  <1>. QED BY <1>2, <1>3, <1>4, <1>5

LEMMA SendStringInv ==
  ASSUME Inv, NEW c \in Clients, SendString(c)
  PROVE  Inv'
  <1>1. /\ cpc[c] = "send" /\ StrLen[c] > 0 /\ UNCHANGED <<got, end, queue, serverVars>>
        /\ sent' = [sent EXCEPT ![c] = @ + 1]
        /\ sent[c] < StrLen[c] /\ got[c] >= Greeting /\ end[c] = "open"
    BY ActiveIsOpen DEF SendString, Active, Inv, Progress
  <1>2. /\ sent[c] \in Nat /\ StrLen[c] \in Nat /\ StrLen[c] <= MaxLen /\ MaxLen \in Nat
        /\ got[c] <= Len(down[c])
    BY ClientFacts
  <1>3. /\ sent' \in [Clients -> 0 .. MaxLen] /\ sent'[c] = sent[c] + 1
        /\ \A d \in Clients \ {c} : sent'[d] = sent[d]
    BY <1>1, <1>2 DEF Inv, Types
  <1>4. /\ cpc' \in [Clients -> {"connect"} \cup Active \cup Ended]
        /\ cpc'[c] = IF sent'[c] = StrLen[c] THEN "recv" ELSE "send"
        /\ \A d \in Clients \ {c} : cpc'[d] = cpc[d]
    BY DEF SendString, Inv, Types, Active
  <1>5. gone' \in [Clients -> Signal] /\ got \in [Clients -> Nat] /\ end \in [Clients -> Signal]
    BY DEF SendString, Inv, Types, Signal
  <1>one. OneClient(c)
    BY <1>1, <1>2, <1>3, <1>4, <1>5 DEF OneClient
  <1>. QED BY <1>one, OneClientInv

LEMMA SendNothingInv ==
  ASSUME Inv, NEW c \in Clients, SendNothing(c)
  PROVE  Inv'
  <1>1. /\ cpc[c] = "send" /\ StrLen[c] = 0
        /\ UNCHANGED <<got, sent, gone, queue, serverVars>>
        /\ got[c] >= Greeting /\ Leave(c, "done") /\ "done" \in Ended
    BY DEF SendNothing, Ended, Inv, Progress
  <1>2. got[c] = Greeting /\ ~ got[c] < Len(down[c]) /\ sent[c] <= StrLen[c]
        /\ got[c] <= Len(down[c]) /\ Greeting \in Nat
    BY <1>1, ClientFacts
  <1>3. /\ sent \in [Clients -> 0 .. MaxLen] /\ gone \in [Clients -> Signal]
        /\ got \in [Clients -> Nat] /\ sent[c] \in Nat
    BY DEF Inv, Types
  <1>one. OneClient(c)
    BY <1>1, <1>2, <1>3, LeaveFacts DEF OneClient
  <1>. QED BY <1>one, OneClientInv

LEMMA ReceiveEchoInv ==
  ASSUME Inv, NEW c \in Clients, ReceiveEcho(c)
  PROVE  Inv'
  <1>1. /\ cpc[c] = "recv" /\ UNCHANGED <<sent, gone, queue, serverVars>>
        /\ sent[c] = StrLen[c] /\ got[c] >= Greeting /\ end[c] = "open"
        /\ sent \in [Clients -> 0 .. MaxLen] /\ gone \in [Clients -> Signal]
        /\ end \in [Clients -> Signal]
        /\ cpc \in [Clients -> {"connect"} \cup Active \cup Ended]
    BY ActiveIsOpen DEF ReceiveEcho, Active, Inv, Types, Progress
  <1>2. /\ got' \in [Clients -> Nat] /\ got'[c] \in Nat
        /\ \A d \in Clients \ {c} : got'[d] = got[d]
        /\ got[c] < got'[c] /\ got'[c] <= Len(down[c])
    BY GetFacts DEF ReceiveEcho
  <1>3. /\ StrLen[c] \in Nat /\ Greeting \in Nat /\ got[c] \in Nat /\ Len(down[c]) \in Nat
        /\ Len(down[c]) <= Greeting + StrLen[c] /\ sent[c] \in Nat
    BY ClientFacts
  <1>4. CASE got'[c] < Greeting + StrLen[c]
    <2>1. UNCHANGED <<cpc, end>>
      BY <1>4 DEF ReceiveEcho
    <2>one. OneClient(c)
      BY <1>1, <1>2, <1>3, <2>1 DEF OneClient
    <2>. QED BY <2>one, OneClientInv
  <1>5. CASE got'[c] >= Greeting + StrLen[c]
    <2>1. Leave(c, "done") /\ "done" \in Ended
      BY <1>2, <1>3, <1>5 DEF ReceiveEcho, Ended
    <2>2. got'[c] = Greeting + StrLen[c] /\ ~ got'[c] < Len(down[c])
      BY <1>2, <1>3, <1>5
    <2>one. OneClient(c)
      BY <1>1, <1>2, <1>3, <2>1, <2>2, LeaveFacts DEF OneClient
    <2>. QED BY <2>one, OneClientInv
  <1>. QED BY <1>2, <1>3, <1>4, <1>5

LEMMA ClientFailsInv ==
  ASSUME Inv, NEW c \in Clients, ClientFails(c)
  PROVE  Inv'
  <1>1. /\ UNCHANGED <<sent, got, end, gone, queue, serverVars>>
        /\ end[c] = "open" /\ cpc[c] # "connect"
        /\ cpc' = [cpc EXCEPT ![c] = "failed"]
    BY ActiveIsOpen DEF ClientFails
  <1>2. /\ cpc' \in [Clients -> {"connect"} \cup Active \cup Ended] /\ cpc'[c] = "failed"
        /\ \A d \in Clients \ {c} : cpc'[d] = cpc[d]
    BY <1>1 DEF Inv, Types, Ended
  <1>3. /\ sent \in [Clients -> 0 .. MaxLen] /\ gone \in [Clients -> Signal]
        /\ got \in [Clients -> Nat] /\ end \in [Clients -> Signal] /\ sent[c] \in Nat
    BY DEF Inv, Types
  <1>one. OneClient(c)
    BY <1>1, <1>2, <1>3, ClientFacts DEF OneClient
  <1>. QED BY <1>one, OneClientInv

LEMMA KillInv ==
  ASSUME Inv, NEW c \in Clients, Kill(c)
  PROVE  Inv'
  <1>1. /\ UNCHANGED <<got, sent, gone, queue, serverVars>>
        /\ cpc[c] # "connect" /\ Leave(c, "killed") /\ "killed" \in Ended
    BY ActiveIsOpen DEF Kill, Ended
  <1>2. /\ sent \in [Clients -> 0 .. MaxLen] /\ gone \in [Clients -> Signal]
        /\ got \in [Clients -> Nat] /\ sent[c] \in Nat
    BY DEF Inv, Types
  <1>one. OneClient(c)
    BY <1>1, <1>2, ClientFacts, LeaveFacts DEF OneClient
  <1>. QED BY <1>one, OneClientInv

LEMMA AbortInv ==
  ASSUME Inv, NEW c \in Clients, Abort(c)
  PROVE  Inv'
  <1>1. /\ UNCHANGED <<sent, got, gone, queue, serverVars>>
        /\ cpc[c] # "connect"
        /\ cpc' = [cpc EXCEPT ![c] = "killed"] /\ end' = [end EXCEPT ![c] = "rst"]
    BY ActiveIsOpen DEF Abort
  <1>2. /\ sent \in [Clients -> 0 .. MaxLen] /\ gone \in [Clients -> Signal]
        /\ got \in [Clients -> Nat] /\ sent[c] \in Nat
    BY DEF Inv, Types
  <1>3. /\ cpc' \in [Clients -> {"connect"} \cup Active \cup Ended] /\ cpc'[c] = "killed"
        /\ end' \in [Clients -> Signal] /\ end'[c] = "rst"
        /\ \A d \in Clients \ {c} : cpc'[d] = cpc[d] /\ end'[d] = end[d]
    BY <1>1 DEF Inv, Types, Signal, Ended
  <1>one. OneClient(c)
    BY <1>1, <1>2, <1>3, ClientFacts DEF OneClient
  <1>. QED BY <1>one, OneClientInv

(* A connection is dropped from the queue: its client has ended, and       *)
(* nothing else changes.                                                   *)
LEMMA DropFacts ==
  ASSUME Inv, NEW c \in Clients, DropAborted(c)
  PROVE  /\ queue' = queue \ {c} /\ c \in queue /\ c # conn
         /\ UNCHANGED <<cpc, sent, got, end, gone, spc, conn, taken, down, buf>>
         /\ cpc[c] = "killed"
  <1>1. queue' = queue \ {c} /\ UNCHANGED <<clientVars, end, gone, serverVars>>
    BY DEF DropAborted
  <1>2. c \in queue /\ c # conn /\ cpc[c] = "killed"
    BY DEF DropAborted, Inv, Fresh, Ends
  <1>. QED BY <1>1, <1>2 DEF clientVars, serverVars

LEMMA DropInv ==
  ASSUME Inv, NEW c \in Clients, DropAborted(c)
  PROVE  Inv'
  <1>1. /\ queue' = queue \ {c}
        /\ UNCHANGED <<cpc, sent, got, end, gone, spc, conn, taken, down, buf>>
    BY DropFacts
  <1>2. Types' /\ Fresh'
    BY <1>1 DEF Inv, Types, Fresh
  <1>3. Hand' /\ Streams'
    BY <1>1 DEF Inv, Hand, Idle, Streams
  <1>4. Progress' /\ Ends'
    BY <1>1 DEF Inv, Progress, Ends
  <1>. QED BY <1>2, <1>3, <1>4 DEF Inv

LEMMA ResetInv ==
  ASSUME Inv, NEW c \in Clients, Reset(c)
  PROVE  Inv'
  <1>1. /\ UNCHANGED <<cpc, sent, got, gone, queue, serverVars>>
        /\ end[c] = "fin" /\ end' = [end EXCEPT ![c] = "rst"]
    BY DEF Reset, clientVars
  <1>2. cpc[c] \in {"done", "killed"} /\ got[c] < Len(down[c])
    BY <1>1, ClientFacts DEF Reset, ToGet, Inv, Ends
  <1>3. cpc[c] = "killed"
    BY <1>2, ClientFacts DEF Inv, Progress
  <1>4. /\ sent \in [Clients -> 0 .. MaxLen] /\ gone \in [Clients -> Signal]
        /\ got \in [Clients -> Nat] /\ sent[c] \in Nat
        /\ cpc \in [Clients -> {"connect"} \cup Active \cup Ended]
    BY DEF Inv, Types
  <1>5. end' \in [Clients -> Signal] /\ end'[c] = "rst"
        /\ \A d \in Clients \ {c} : end'[d] = end[d]
    BY <1>1 DEF Inv, Types, Signal
  <1>one. OneClient(c)
    BY <1>1, <1>2, <1>3, <1>4, <1>5, ClientFacts DEF OneClient
  <1>. QED BY <1>one, OneClientInv

-----------------------------------------------------------------------------
LEMMA StepInv ==
  ASSUME Inv, Step
  PROVE  Inv'
  <1>1. CASE \E c \in queue : Idle /\ Serving(c)
    BY <1>1, ServingInv
  <1>2. CASE \E c \in Clients : Recv(c) \/ Send(c)
    BY <1>2, RecvInv, SendInv
  <1>3. CASE Pass
    BY <1>3, PassInv
  <1>4. CASE \E p \in Down : Die(p)
    BY <1>4, DieInv
  <1>5. CASE World
    BY <1>5, ConnectInv, ReceiveGreetingsInv, SendStringInv, SendNothingInv,
       ReceiveEchoInv, ClientFailsInv, KillInv, AbortInv, ResetInv, DropInv DEF World, ClientRuns
  <1>6. CASE UNCHANGED vars
    BY <1>6 DEF vars, clientVars, serverVars, Inv, Types, Hand, Idle, Streams,
                Fresh, Progress, Ends
  <1>. QED BY <1>1, <1>2, <1>3, <1>4, <1>5, <1>6 DEF Step

-----------------------------------------------------------------------------
(* What the invariant means for the properties.                            *)
LEMMA InvDone == Inv => DoneMeansEchoed
  <1> SUFFICES ASSUME Inv, NEW c \in Clients, cpc[c] = "done"
               PROVE  SubSeq(down[c], 1, got[c]) = Hello(c) \o String(c)
    BY DEF DoneMeansEchoed
  <1>1. got[c] = Greeting + StrLen[c] /\ Len(down[c]) = Greeting + StrLen[c]
    BY ClientFacts DEF Inv, Progress
  <1>2. /\ StrLen[c] \in Nat /\ Greeting \in Nat /\ StrLen[c] <= MaxLen /\ MaxLen \in Nat
        /\ down[c] \in Seq(Byte)
        /\ \A k \in 1 .. Len(down[c]) : down[c][k] = Due(c, k)
    BY ClientFacts DEF Inv, Types, Streams
  <1>3. SubSeq(down[c], 1, got[c]) = down[c]
    BY <1>1, <1>2, SubSeqFull
  <1>4. /\ String(c) \in Seq(Byte) /\ Len(String(c)) = StrLen[c]
        /\ \A k \in 1 .. StrLen[c] : String(c)[k] = <<c, k>>
    <2>1. \A k \in 1 .. StrLen[c] : <<c, k>> \in Byte
      BY <1>2 DEF Byte
    <2>2. String(c) \in Seq(Byte)
      BY <1>2, <2>1, IsASeq DEF String
    <2>. QED BY <1>2, <2>2, LenProperties DEF String
  <1>5. /\ Hello(c) \o String(c) \in Seq(Byte)
        /\ Len(Hello(c) \o String(c)) = Greeting + StrLen[c]
        /\ \A k \in 1 .. Greeting + StrLen[c] : (Hello(c) \o String(c))[k] =
             IF k <= Greeting THEN Hello(c)[k] ELSE String(c)[k - Greeting]
    <2>1. Hello(c) \in Seq(Byte) /\ Len(Hello(c)) = Greeting
      BY HelloFacts
    <2>2. /\ Hello(c) \o String(c) \in Seq(Byte)
          /\ Len(Hello(c) \o String(c)) = Len(Hello(c)) + Len(String(c))
          /\ \A k \in 1 .. Len(Hello(c)) + Len(String(c)) : (Hello(c) \o String(c))[k] =
               IF k <= Len(Hello(c)) THEN Hello(c)[k] ELSE String(c)[k - Len(Hello(c))]
      BY ONLY <1>4, <2>1, ConcatProperties
    <2>. QED BY ONLY <1>4, <2>1, <2>2
  <1>6. ASSUME NEW k \in 1 .. Len(down[c]) PROVE down[c][k] = (Hello(c) \o String(c))[k]
    <2>1. k \in 1 .. Greeting + StrLen[c] /\ down[c][k] = Due(c, k)
      BY <1>1, <1>2
    <2>2. CASE k <= Greeting
      BY <1>2, <1>5, <2>1, <2>2, HelloFacts
    <2>3. CASE k > Greeting
      <3>1. k - Greeting \in 1 .. StrLen[c]
        BY <1>2, <2>1, <2>3
      <3>2. ~ k <= Greeting
        BY <1>2, <2>1, <2>3
      <3>3. (Hello(c) \o String(c))[k] = String(c)[k - Greeting]
        BY <1>5, <2>1, <3>2
      <3>4. String(c)[k - Greeting] = <<c, k - Greeting>>
        BY <1>4, <3>1
      <3>5. Due(c, k) = <<c, k - Greeting>>
        BY <3>2 DEF Due
      <3>. QED BY <2>1, <3>3, <3>4, <3>5
    <2>4. k <= Greeting \/ k > Greeting
      <3>1. k \in Nat
        BY <1>2
      <3>. QED BY <1>2, <3>1
    <2>. QED BY ONLY <2>2, <2>3, <2>4
  <1>7. down[c] = Hello(c) \o String(c)
    BY <1>1, <1>2, <1>5, <1>6, SeqEqual
  <1>. QED BY <1>3, <1>7

LEMMA InvMutualBlock == Inv => MutualBlockNeedsLongString
  <1> SUFFICES ASSUME Inv, NEW c \in Clients, MutualBlock(c)
               PROVE  StrLen[c] >= UpCap + DownCap + 2
    BY DEF MutualBlockNeedsLongString
  <1>1. /\ cpc[c] = "send" /\ sent[c] - taken[c] = UpCap
        /\ conn = c /\ spc = "send" /\ Len(down[c]) - got[c] = DownCap
    BY DEF MutualBlock, ToTake, ToGet
  <1>2. UpCap \in Nat \ {0} /\ DownCap \in Nat \ {0}
    BY IterativeAssumption
  <1>3. Len(down[c]) + Len(buf) = Greeting + taken[c] /\ Len(buf) > 0 /\ Len(buf) \in Nat
    BY <1>1 DEF Inv, Types, Hand, Streams
  <1>4. StrLen[c] > 0 => sent[c] < StrLen[c]
    BY <1>1 DEF Inv, Progress
  <1>5. got[c] >= Greeting
    BY <1>1 DEF Inv, Progress
  <1>6. /\ sent[c] \in Nat /\ got[c] \in Nat /\ taken[c] \in Nat /\ StrLen[c] \in Nat
        /\ Len(down[c]) \in Nat /\ Greeting \in Nat /\ sent[c] <= StrLen[c]
    BY ClientFacts
  <1>7. sent[c] > 0 /\ StrLen[c] > 0
    BY <1>1, <1>2, <1>6
  <1>8. taken[c] >= DownCap + 1
    BY <1>1, <1>2, <1>3, <1>5, <1>6
  <1>. QED BY <1>1, <1>2, <1>4, <1>6, <1>7, <1>8

(* A client that was killed and whose connection was reset stays as it is. *)
LEMMA KilledStays ==
  ASSUME Inv, Step, NEW c \in Clients, cpc[c] = "killed", end[c] = "rst"
  PROVE  cpc'[c] = "killed" /\ end'[c] = "rst"
  <1>1. CASE UNCHANGED <<cpc, end>>
    BY <1>1
  <1>2. CASE World
    <2>1. PICK d \in Clients : \/ Connect(d) \/ ConnectFails(d) \/ ClientRuns(d)
                               \/ Kill(d) \/ Abort(d) \/ Reset(d) \/ DropAborted(d)
      BY <1>2 DEF World
    <2>2. CASE d = c
      BY <2>1, <2>2 DEF Connect, ConnectFails, ClientRuns, Kill, Abort, Reset, DropAborted,
         ReceiveGreetings, SendString, SendNothing, ReceiveEcho, ClientFails, Active, clientVars
    <2>3. CASE d # c
      BY <2>1, <2>3 DEF Inv, Types, Connect, ConnectFails, ClientRuns, Kill, Abort, Reset,
         DropAborted, ReceiveGreetings, SendString, SendNothing, ReceiveEcho, ClientFails, Leave,
         clientVars
    <2>. QED BY <2>2, <2>3
  <1>. QED BY <1>1, <1>2 DEF Step, Serving, Recv, Send, Pass, Die, vars, clientVars

(* Somebody was killed where a reset has come.                             *)
LEMMA ResetNeedsKilled ==
  ASSUME Inv, NEW c \in Clients, end[c] = "rst"
  PROVE  cpc[c] = "killed"
  BY DEF Inv, Ends

(* No step but World and Die ends the server, none brings it back.         *)
LEMMA ExitStep ==
  ASSUME Inv, ExitNeedsKilledClient, [Next]_vars
  PROVE  ExitNeedsKilledClient'
  <1> SUFFICES ASSUME spc' = "exited"
               PROVE  \E c \in Clients : cpc'[c] = "killed" /\ end'[c] = "rst"
    BY DEF ExitNeedsKilledClient
  <1>1. Step
    BY NextIsStep
  <1>2. CASE spc = "exited"
    BY <1>1, <1>2, KilledStays DEF ExitNeedsKilledClient
  <1>3. CASE \E c \in Clients : HandleFails(c)
    BY <1>3, ResetNeedsKilled DEF HandleFails, Die, clientVars
  <1>4. CASE spc # "exited" /\ ~ \E c \in Clients : HandleFails(c)
    <2>1. \/ \E c \in Clients : Accept(c) \/ Recv(c) \/ Send(c) \/ CloseClient(c)
          \/ AcceptFails \/ KillServer
          \/ UNCHANGED serverVars
      BY <1>4 DEF Next, Serve, Handle, World, ClientRuns, Connect, ConnectFails, Kill, Abort, Reset,
         DropAborted, ReceiveGreetings, SendString, SendNothing, ReceiveEcho, ClientFails, vars
    <2>2. spc' # "exited"
      BY <1>4, <2>1 DEF Accept, Serving, Recv, Send, CloseClient, AcceptFails, KillServer, Die,
         serverVars
    <2>. QED BY <2>2
  <1>. QED BY <1>2, <1>3, <1>4

-----------------------------------------------------------------------------
(* A second invariant, inductive together with the first: in whose hands   *)
(* a connection is (Owed), how much lies in the kernel's buffers (Window), *)
(* and how much a client has read at each of its calls (Reads).            *)
Owed ==
  \A c \in Clients :
    /\ cpc[c] \in Active => c \in queue \/ conn = c \/ gone[c] # "open"
    /\ cpc[c] = "connect" \/ c \in queue \/ conn = c => gone[c] = "open"
    /\ (c \in queue \/ conn = c) /\ end[c] = "open" => cpc[c] \in Active

Window ==
  \A c \in Clients : sent[c] <= taken[c] + UpCap /\ Len(down[c]) <= got[c] + DownCap

Reads ==
  \A c \in Clients :
    /\ cpc[c] = "greeting" => got[c] < Greeting
    /\ cpc[c] = "send"     => got[c] = Greeting
    /\ cpc[c] = "recv"     => got[c] < Greeting + StrLen[c]

Waits == Owed /\ Window /\ Reads

LEMMA WaitsInit ==
  ASSUME NEW p, InitAt(p)
  PROVE  Waits
  <1>1. Owed
    BY IterativeAssumption DEF InitAt, Owed, Active
  <1>2. Window
    <2>1. \A c \in Clients : sent[c] = 0 /\ taken[c] = 0 /\ got[c] = 0 /\ Len(down[c]) = 0
      BY EmptySeq DEF InitAt
    <2>. QED BY <2>1, IterativeAssumption DEF Window
  <1>3. Reads
    BY DEF InitAt, Reads
  <1>. QED BY <1>1, <1>2, <1>3 DEF Waits

(* What a step of a connected client leaves as it is.                      *)
LEMMA ClientKeeps ==
  ASSUME Inv, NEW c \in Clients, ClientRuns(c) \/ Kill(c) \/ Abort(c) \/ Reset(c)
  PROVE  /\ UNCHANGED <<queue, conn, taken, down>>
         /\ \A d \in Clients : gone'[d] = gone[d] \/ (gone[d] # "open" /\ gone'[d] # "open")
         /\ \A d \in Clients \ {c} : /\ cpc'[d] = cpc[d] /\ sent'[d] = sent[d]
                                     /\ got'[d] = got[d] /\ end'[d] = end[d]
  <1>1. UNCHANGED <<queue, conn, taken, down>>
    BY DEF ClientRuns, ReceiveGreetings, SendString, SendNothing, ReceiveEcho, ClientFails,
           Kill, Abort, Reset, clientVars, serverVars
  <1>2. \A d \in Clients : gone'[d] = gone[d] \/ (gone[d] # "open" /\ gone'[d] # "open")
    BY DEF ClientRuns, ReceiveGreetings, SendString, SendNothing, ReceiveEcho, ClientFails,
           Kill, Abort, Reset, Inv, Types
  <1>3. ASSUME NEW d \in Clients \ {c}
        PROVE  cpc'[d] = cpc[d] /\ sent'[d] = sent[d] /\ got'[d] = got[d] /\ end'[d] = end[d]
    BY DEF Inv, Types, ClientRuns, ReceiveGreetings, SendString, SendNothing, ReceiveEcho,
           ClientFails, Kill, Abort, Reset, Leave, Get, clientVars
  <1>. QED BY <1>1, <1>2, <1>3

(* How its own place changes: it stays at work, or it ends; it leaves its  *)
(* connection open only if the server's end has gone.                      *)
LEMMA ClientGoesOn ==
  ASSUME Inv, NEW c \in Clients, ClientRuns(c) \/ Kill(c) \/ Abort(c) \/ Reset(c)
  PROVE  /\ cpc[c] # "connect" /\ cpc'[c] # "connect"
         /\ cpc'[c] \in Active => cpc[c] \in Active
         /\ end'[c] = "open" =>
              end[c] = "open" /\ (cpc'[c] \in Active \/ gone[c] # "open")
  <1>1. CASE ReceiveGreetings(c)
    BY <1>1 DEF ReceiveGreetings, Leave, Inv, Types, Active
  <1>2. CASE SendString(c)
    BY <1>2 DEF SendString, Inv, Types, Active
  <1>3. CASE SendNothing(c)
    BY <1>3 DEF SendNothing, Leave, Inv, Types, Active
  <1>4. CASE ReceiveEcho(c)
    BY <1>4 DEF ReceiveEcho, Leave, Inv, Types, Active
  <1>5. CASE ClientFails(c)
    <2>1. gone[c] # "open" /\ cpc[c] \in Active /\ end' = end /\ cpc'[c] = "failed"
      BY <1>5 DEF ClientFails, AtEndOfStream, Inv, Types
    <2>. QED BY <2>1 DEF Active
  <1>6. CASE Kill(c) \/ Abort(c)
    BY <1>6 DEF Kill, Abort, Leave, Inv, Types, Active
  <1>7. CASE Reset(c)
    <2>1. /\ end[c] = "fin" /\ end'[c] = "rst" /\ cpc' = cpc
      BY <1>7 DEF Reset, clientVars, Inv, Types
    <2>. QED BY <2>1 DEF Inv, Ends
  <1>. QED BY <1>1, <1>2, <1>3, <1>4, <1>5, <1>6, <1>7 DEF ClientRuns

LEMMA OwedStep ==
  ASSUME Inv, Owed, Step
  PROVE  Owed'
  <1> USE IterativeAssumption
  <1>1. ASSUME NEW c \in queue, Idle, Serving(c) PROVE Owed'
    <2>1. /\ conn' = c /\ queue' = queue \ {c} /\ c \in Clients /\ conn = None
          /\ UNCHANGED <<cpc, end, gone>>
      BY <1>1 DEF Serving, clientVars, Inv, Types, Hand
    <2>. QED BY <2>1 DEF Owed
  <1>2. ASSUME NEW c \in Clients, Recv(c) \/ Send(c) PROVE Owed'
    BY <1>2 DEF Recv, Send, clientVars, Owed
  <1>3. CASE Pass
    <2>1. /\ conn' = None /\ UNCHANGED <<cpc, end, gone, queue>>
          /\ \A c \in Clients : conn = c => cpc[c] \notin Active
      <3>1. \A c \in Clients : conn = c => end[c] = "fin"
        BY <1>3 DEF Pass, StreamEnds, Inv, Hand
      <3>2. \A c \in Clients : end[c] = "fin" => cpc[c] \notin Active
        BY DEF Inv, Ends, Active
      <3>. QED BY <1>3, <3>1, <3>2 DEF Pass, clientVars
    <2>. QED BY <2>1 DEF Owed
  <1>4. ASSUME NEW p \in Down, Die(p) PROVE Owed'
    <2>1. /\ conn' = None /\ queue' = {} /\ UNCHANGED <<cpc, end>>
          /\ \A c \in Clients : c \in queue \/ conn = c => gone'[c] # "open"
          /\ \A c \in Clients : ~ (c \in queue \/ conn = c) => gone'[c] = gone[c]
      BY <1>4 DEF Die, clientVars
    <2>2. \A c \in Clients : cpc[c] = "connect" => ~ (c \in queue \/ conn = c)
      BY DEF Inv, Fresh
    <2>. QED BY <2>1, <2>2 DEF Owed
  <1>5. ASSUME NEW c \in Clients, Connect(c) PROVE Owed'
    <2>1. /\ cpc[c] = "connect" /\ queue' = queue \cup {c}
          /\ UNCHANGED <<end, gone, conn>>
          /\ cpc'[c] \in Active /\ \A d \in Clients : d # c => cpc'[d] = cpc[d]
      BY <1>5 DEF Connect, FirstStep, Active, serverVars, Inv, Types
    <2>. QED BY <2>1 DEF Owed
  <1>6. ASSUME NEW c \in Clients, ConnectFails(c) PROVE Owed'
    <2>1. /\ cpc[c] = "connect" /\ UNCHANGED <<end, gone, conn, queue>>
          /\ cpc'[c] = "failed" /\ \A d \in Clients : d # c => cpc'[d] = cpc[d]
      BY <1>6 DEF ConnectFails, serverVars, Inv, Types
    <2>2. c \notin queue /\ conn # c
      BY <2>1 DEF Inv, Fresh
    <2>. QED BY <2>1, <2>2 DEF Owed, Active
  <1>7. ASSUME NEW c \in Clients, ClientRuns(c) \/ Kill(c) \/ Abort(c) \/ Reset(c) PROVE Owed'
    <2>1. /\ UNCHANGED <<queue, conn>>
          /\ \A d \in Clients : gone'[d] = gone[d] \/ (gone[d] # "open" /\ gone'[d] # "open")
          /\ \A d \in Clients \ {c} : cpc'[d] = cpc[d] /\ end'[d] = end[d]
      BY <1>7, ClientKeeps
    <2>2. /\ cpc'[c] # "connect"
          /\ cpc'[c] \in Active => cpc[c] \in Active
          /\ end'[c] = "open" =>
               end[c] = "open" /\ (cpc'[c] \in Active \/ gone[c] # "open")
      BY <1>7, ClientGoesOn
    <2>3. ASSUME NEW d \in Clients
          PROVE  /\ cpc'[d] \in Active => d \in queue' \/ conn' = d \/ gone'[d] # "open"
                 /\ cpc'[d] = "connect" \/ d \in queue' \/ conn' = d => gone'[d] = "open"
                 /\ (d \in queue' \/ conn' = d) /\ end'[d] = "open" => cpc'[d] \in Active
      <3>1. /\ cpc[d] \in Active => d \in queue \/ conn = d \/ gone[d] # "open"
            /\ cpc[d] = "connect" \/ d \in queue \/ conn = d => gone[d] = "open"
            /\ (d \in queue \/ conn = d) /\ end[d] = "open" => cpc[d] \in Active
        BY DEF Owed
      <3>2. CASE d = c
        BY <2>1, <2>2, <3>1, <3>2
      <3>3. CASE d # c
        BY <2>1, <3>1, <3>3
      <3>. QED BY <3>2, <3>3
    <2>. QED BY <2>3 DEF Owed
  <1>10. ASSUME NEW c \in Clients, DropAborted(c) PROVE Owed'
    <2>1. /\ queue' = queue \ {c} /\ UNCHANGED <<cpc, end, gone, conn>> /\ cpc[c] \notin Active
      BY <1>10, DropFacts DEF Active
    <2>. QED BY <2>1 DEF Owed
  <1>8. CASE World
    BY <1>5, <1>6, <1>7, <1>8, <1>10 DEF World
  <1>9. CASE UNCHANGED vars
    BY <1>9 DEF vars, clientVars, serverVars, Owed
  <1>. QED BY <1>1, <1>2, <1>3, <1>4, <1>8, <1>9 DEF Step

(* One send() fills the kernel's buffer at most.                           *)
LEMMA SendFits ==
  ASSUME Inv, NEW c \in Clients, Send(c), Len(down[c]) <= got[c] + DownCap
  PROVE  Len(down'[c]) <= got[c] + DownCap
  <1>1. PICK n \in 1 .. Lesser(Len(buf), DownCap - Lesser(ToGet(c), DownCap)) :
          /\ down' = [down EXCEPT ![c] = @ \o SubSeq(buf, 1, n)]
    BY DEF Send
  <1>2. PICK m \in 1 .. Len(buf) : Len(down'[c]) = Len(down[c]) + m
    BY SendFacts
  <1>3. /\ Len(down[c]) \in Nat /\ got[c] \in Nat /\ got[c] <= Len(down[c])
        /\ buf \in Seq(Byte) /\ Len(buf) \in Nat /\ down[c] \in Seq(Byte) /\ DownCap \in Nat
    <2>1. Len(down[c]) \in Nat /\ got[c] \in Nat /\ got[c] <= Len(down[c])
      BY ClientFacts
    <2>2. buf \in Seq(Byte) /\ down[c] \in Seq(Byte)
      BY DEF Inv, Types
    <2>3. Len(buf) \in Nat
      BY ONLY <2>2
    <2>4. DownCap \in Nat
      BY IterativeAssumption
    <2>. QED BY <2>1, <2>2, <2>3, <2>4
  <1>4. n \in Nat /\ n <= Len(buf) /\ Len(down[c]) + n <= got[c] + DownCap
    <2>1. ToGet(c) <= DownCap /\ ToGet(c) = Len(down[c]) - got[c]
      BY <1>3 DEF ToGet
    <2>2. Lesser(ToGet(c), DownCap) = ToGet(c)
      BY <1>3, <2>1 DEF Lesser
    <2>3. n \in Nat /\ n <= Len(buf) /\ n <= DownCap - ToGet(c)
      BY <1>3, <2>1, <2>2 DEF Lesser
    <2>. QED BY ONLY <1>3, <2>1, <2>3
  <1>5. Len(SubSeq(buf, 1, n)) = n /\ SubSeq(buf, 1, n) \in Seq(Byte)
    <2>1. n \in 1 .. Len(buf)
      BY <1>1, <1>4
    <2>2. \A k \in 1 .. n : buf[k] \in Byte
      BY <1>3, <2>1, ElementOfSeq
    <2>. QED BY <2>1, <2>2, <1>4, SubSeqProperties
  <1>6. down'[c] = down[c] \o SubSeq(buf, 1, n)
    BY <1>1 DEF Inv, Types
  <1>7. Len(down[c] \o SubSeq(buf, 1, n)) = Len(down[c]) + n
    BY ONLY <1>3, <1>5, ConcatProperties
  <1>. QED BY <1>4, <1>6, <1>7

LEMMA WindowStep ==
  ASSUME Inv, Window, Step
  PROVE  Window'
  <1> USE IterativeAssumption
  <1>1. ASSUME UNCHANGED <<sent, taken, down, got>> PROVE Window'
    BY <1>1 DEF Window
  <1>2. ASSUME NEW c \in Clients, Recv(c) PROVE Window'
    <2>1. PICK n \in 1 .. Lesser(ToTake(c), BufSize) : taken' = [taken EXCEPT ![c] = @ + n]
      BY <1>2 DEF Recv
    <2>2. taken[c] \in Nat /\ sent[c] \in Nat /\ taken[c] <= sent[c]
      BY ClientFacts
    <2>3. n \in Nat
      BY <2>2 DEF Lesser, ToTake
    <2>4. /\ taken'[c] = taken[c] + n /\ \A d \in Clients : d # c => taken'[d] = taken[d]
          /\ UNCHANGED <<sent, down, got>>
      BY <1>2, <2>1 DEF Inv, Types, Recv, clientVars
    <2>5. sent[c] <= taken[c] + UpCap => sent[c] <= taken[c] + n + UpCap
      BY <2>2, <2>3
    <2>. QED BY <2>4, <2>5 DEF Window
  <1>3. ASSUME NEW c \in Clients, Send(c) PROVE Window'
    <2>1. /\ \A d \in Clients : d # c => down'[d] = down[d]
          /\ UNCHANGED <<sent, taken, got>>
      BY <1>3, SendFacts DEF Send, clientVars
    <2>2. Len(down'[c]) <= got[c] + DownCap
      BY <1>3, SendFits DEF Window
    <2>. QED BY <2>1, <2>2 DEF Window
  <1>4. ASSUME NEW c \in Clients, ClientRuns(c) \/ Kill(c) \/ Abort(c) \/ Reset(c) PROVE Window'
    <2>1. /\ UNCHANGED <<taken, down>>
          /\ \A d \in Clients \ {c} : sent'[d] = sent[d] /\ got'[d] = got[d]
      BY <1>4, ClientKeeps
    <2>2. CASE SendString(c)
      <3>1. sent' = [sent EXCEPT ![c] = @ + 1] /\ got' = got /\ ToTake(c) < UpCap
        BY <2>2 DEF SendString
      <3>2. sent[c] \in Nat /\ taken[c] \in Nat
        BY ClientFacts
      <3>3. sent'[c] = sent[c] + 1 /\ sent[c] - taken[c] < UpCap
        BY <3>1 DEF Inv, Types, ToTake
      <3>4. sent'[c] <= taken[c] + UpCap
        BY <3>2, <3>3
      <3>. QED BY <2>1, <3>1, <3>4 DEF Window
    <2>3. CASE Get(c) /\ sent' = sent
      <3>1. got[c] < got'[c] /\ got[c] \in Nat /\ got'[c] \in Nat /\ Len(down[c]) \in Nat
        BY <2>3, GetFacts, ClientFacts
      <3>2. Len(down[c]) <= got[c] + DownCap => Len(down[c]) <= got'[c] + DownCap
        BY <3>1
      <3>. QED BY <2>1, <2>3, <3>2 DEF Window
    <2>4. CASE UNCHANGED <<sent, got>>
      BY <2>1, <2>4 DEF Window
    <2>. QED BY <1>4, <2>2, <2>3, <2>4 DEF ClientRuns, ReceiveGreetings, SendNothing, ReceiveEcho,
             ClientFails, Kill, Abort, Reset, clientVars
  <1>5. CASE World
    BY <1>1, <1>4, <1>5 DEF World, Connect, ConnectFails, DropAborted, clientVars, serverVars
  <1>. QED BY <1>1, <1>2, <1>3, <1>5
           DEF Step, Serving, Pass, Die, clientVars, serverVars, vars

LEMMA ReadsStep ==
  ASSUME Inv, Reads, Step
  PROVE  Reads'
  <1> USE IterativeAssumption
  <1>1. ASSUME UNCHANGED <<cpc, got>> PROVE Reads'
    BY <1>1 DEF Reads
  <1>2. ASSUME NEW c \in Clients, Connect(c) \/ ConnectFails(c) PROVE Reads'
    <2>1. /\ cpc[c] = "connect" /\ got' = got
          /\ cpc'[c] = FirstStep \/ cpc'[c] = "failed"
          /\ \A d \in Clients : d # c => cpc'[d] = cpc[d]
      BY <1>2 DEF Connect, ConnectFails, Inv, Types
    <2>2. got[c] = 0
      <3>1. Len(down[c]) = 0
        BY <2>1 DEF Inv, Fresh
      <3>. QED BY <3>1, ClientFacts
    <2>. QED BY <2>1, <2>2 DEF Reads, FirstStep
  <1>3. ASSUME NEW c \in Clients, ClientRuns(c) \/ Kill(c) \/ Abort(c) \/ Reset(c) PROVE Reads'
    <2>1. \A d \in Clients \ {c} : cpc'[d] = cpc[d] /\ got'[d] = got[d]
      BY <1>3, ClientKeeps
    <2>2. /\ got[c] \in Nat /\ Len(down[c]) \in Nat /\ Greeting \in Nat /\ StrLen[c] \in Nat
      BY ClientFacts
    <2>3. ASSUME /\ cpc'[c] = "greeting" => got'[c] < Greeting
                 /\ cpc'[c] = "send"     => got'[c] = Greeting
                 /\ cpc'[c] = "recv"     => got'[c] < Greeting + StrLen[c]
          PROVE  Reads'
      BY <2>1, <2>3 DEF Reads
    <2>4. CASE cpc'[c] \notin {"greeting", "send", "recv"}
      BY <2>3, <2>4
    <2>5. CASE ReceiveGreetings(c)
      <3>1. got'[c] \in Nat /\ got'[c] <= Len(down[c]) /\ cpc[c] = "greeting"
        BY <2>5, GetFacts DEF ReceiveGreetings
      <3>2. CASE got'[c] < Greeting
        <4>1. cpc'[c] = "send" => cpc' = [cpc EXCEPT ![c] = "send"] \/ cpc' = cpc
          BY <2>5 DEF ReceiveGreetings, Leave
        <4>2. SubSeq(down[c], 1, got'[c]) # Hello(c)
          <5>1. down[c] \in Seq(Byte)
            BY DEF Inv, Types
          <5>2. \A k \in 1 .. got'[c] : down[c][k] \in Byte
            BY <3>1, <5>1, ElementOfSeq, <2>2
          <5>3. Len(SubSeq(down[c], 1, got'[c])) = got'[c]
            BY <3>1, <5>2, SubSeqProperties
          <5>. QED BY <3>1, <3>2, <2>2, <5>3, HelloFacts
        <4>3. cpc' = cpc
          BY <2>2, <2>5, <3>2, <4>2 DEF ReceiveGreetings
        <4>. QED BY <2>3, <3>1, <3>2, <4>3
      <3>3. CASE got'[c] >= Greeting
        <4>1. got'[c] = Greeting /\ SubSeq(down[c], 1, got'[c]) = Hello(c)
          BY <3>1, <3>3, GreetingIsHello
        <4>2. cpc' = [cpc EXCEPT ![c] = "send"]
          BY <2>2, <2>5, <4>1 DEF ReceiveGreetings
        <4>3. cpc'[c] = "send"
          BY <4>2 DEF Inv, Types
        <4>. QED BY <2>3, <4>1, <4>3
      <3>. QED BY <2>2, <3>1, <3>2, <3>3
    <2>6. CASE SendString(c)
      <3>1. /\ cpc[c] = "send" /\ got' = got /\ StrLen[c] > 0
            /\ cpc'[c] \in {"send", "recv"}
        BY <2>6 DEF SendString, Inv, Types
      <3>2. got[c] = Greeting
        BY <3>1 DEF Reads
      <3>. QED BY <2>2, <2>3, <3>1, <3>2
    <2>7. CASE ReceiveEcho(c)
      <3>1. /\ cpc[c] = "recv"
            /\ cpc'[c] \in {"recv", "done"} /\ (cpc'[c] = "recv" => got'[c] < Greeting + StrLen[c])
        BY <2>7 DEF ReceiveEcho, Leave, Inv, Types
      <3>. QED BY <2>3, <3>1
    <2>8. CASE SendNothing(c) \/ ClientFails(c) \/ Kill(c) \/ Abort(c)
      <3>1. cpc'[c] \in {"done", "failed", "killed"}
        BY <2>8 DEF SendNothing, ClientFails, Kill, Abort, Leave, Inv, Types
      <3>. QED BY <2>4, <3>1
    <2>9. CASE Reset(c)
      BY <1>1, <2>9 DEF Reset, clientVars
    <2>. QED BY <1>3, <2>5, <2>6, <2>7, <2>8, <2>9 DEF ClientRuns
  <1>4. CASE World
    BY <1>1, <1>2, <1>3, <1>4 DEF World, DropAborted, clientVars
  <1>. QED BY <1>1, <1>4 DEF Step, Serving, Recv, Send, Pass, Die, clientVars, vars

LEMMA WaitsStep ==
  ASSUME Inv, Waits, Step
  PROVE  Waits'
  BY OwedStep, WindowStep, ReadsStep DEF Waits

LEMMA WaitsNobodyForgotten == Waits => NobodyForgotten
  BY DEF Waits, Owed, NobodyForgotten

(* Where the server waits for its client, and what the client can do then. *)
LEMMA WaitsOnlyMutualBlock == Inv /\ Waits => OnlyMutualBlock
  <1> SUFFICES ASSUME Inv, Waits, NEW c \in Clients, WaitsFor(c)
               PROVE  MutualBlock(c) \/ CanMove(c) \/ (end[c] = "fin" /\ ToGet(c) > 0)
    BY DEF OnlyMutualBlock
  <1>1. /\ sent[c] \in Nat /\ got[c] \in Nat /\ taken[c] \in Nat /\ StrLen[c] \in Nat
        /\ Len(down[c]) \in Nat /\ Greeting \in Nat
        /\ {UpCap, DownCap} \subseteq Nat \ {0}
    BY IterativeAssumption, ClientFacts
  <1>2. /\ sent[c] <= taken[c] + UpCap /\ Len(down[c]) <= got[c] + DownCap
        /\ cpc[c] = "greeting" => got[c] < Greeting
        /\ cpc[c] = "recv" => got[c] < Greeting + StrLen[c]
    BY DEF Waits, Window, Reads
  <1>3. /\ conn = c /\ conn # None
        /\ Len(down[c]) + Len(buf) = Greeting + taken[c]
        /\ end[c] = "open" => cpc[c] \in Active
        /\ cpc[c] = "recv" => sent[c] = StrLen[c]
    BY IterativeAssumption DEF WaitsFor, Inv, Streams, Progress, Waits, Owed
  <1>4. CASE spc = "recv" /\ ToTake(c) = 0 /\ end[c] = "open"
    <2>1. Len(buf) = 0 /\ sent[c] = taken[c] /\ cpc[c] \in Active
      BY <1>1, <1>3, <1>4 DEF Inv, Hand, ToTake
    <2>2. CASE cpc[c] = "greeting"
      <3>1. ToGet(c) > 0
        BY <1>1, <1>2, <1>3, <2>1, <2>2 DEF ToGet
      <3>. QED BY <2>2, <3>1 DEF CanMove
    <2>3. CASE cpc[c] = "recv"
      <3>1. ToGet(c) > 0
        BY <1>1, <1>2, <1>3, <2>1, <2>3 DEF ToGet
      <3>. QED BY <2>3, <3>1 DEF CanMove
    <2>4. CASE cpc[c] = "send"
      BY <1>1, <1>4, <2>4 DEF CanMove
    <2>. QED BY <2>1, <2>2, <2>3, <2>4 DEF Active
  <1>5. CASE spc = "send" /\ ToGet(c) >= DownCap /\ end[c] # "rst"
    <2>1. ToGet(c) > 0 /\ ToGet(c) = DownCap
      BY <1>1, <1>2, <1>5 DEF ToGet
    <2>2. CASE end[c] = "fin"
      BY <2>1, <2>2
    <2>3. CASE end[c] = "open"
      <3>1. ToTake(c) < UpCap \/ ToTake(c) = UpCap
        BY <1>1, <1>2 DEF ToTake
      <3>. QED BY <1>3, <1>5, <2>1, <2>3, <3>1 DEF Active, CanMove, MutualBlock
    <2>4. end[c] \in Signal
      BY DEF Inv, Types
    <2>. QED BY <1>5, <2>2, <2>3, <2>4 DEF Signal
  <1>. QED BY <1>4, <1>5 DEF WaitsFor

LEMMA InvAlways == Spec => []Inv
  <1>1. Init => Inv
    BY InvInit DEF Init
  <1>2. Inv /\ [Next]_vars => Inv'
    BY NextIsStep, StepInv
  <1>. QED BY <1>1, <1>2, PTL DEF Spec

LEMMA WaitsAlways == Spec => [](Inv /\ Waits)
  <1>1. Init => Inv /\ Waits
    BY InvInit, WaitsInit DEF Init
  <1>2. Inv /\ Waits /\ [Next]_vars => Inv' /\ Waits'
    BY NextIsStep, StepInv, WaitsStep
  <1>. QED BY <1>1, <1>2, PTL DEF Spec

(* A client that has received as many bytes as it waits for, and never     *)
(* compares them, has received the greeting and its own string.            *)
THEOREM DoneAlwaysEchoed == Spec => []DoneMeansEchoed
  BY InvDone, InvAlways, PTL

(* Client and server block each other in send() only on a string too long  *)
(* for the kernel's room in both directions.                               *)
THEOREM MutualBlockCorrect == Spec => []MutualBlockNeedsLongString
  BY InvMutualBlock, InvAlways, PTL

(* While it serves, a sequential server calls exit() or dies of SIGPIPE    *)
(* only because of a client that was killed and whose connection was reset.*)
(* A failing accept() is its other end, and not meant here.                *)
THEOREM ExitCorrect == Spec => []ExitNeedsKilledClient
  <1>1. Init => ExitNeedsKilledClient
    BY DEF Init, InitAt, ExitNeedsKilledClient
  <1>2. Inv /\ ExitNeedsKilledClient /\ [Next]_vars => ExitNeedsKilledClient'
    BY ExitStep
  <1>. QED BY <1>1, <1>2, InvAlways, PTL DEF Spec

(* A connection that a client has made is in the listen queue or in the    *)
(* server's hands until one of the two ends; and whenever a call of the    *)
(* server waits for its client, the client has a step to make or its       *)
(* kernel has, but for the block of two send()s.                           *)
THEOREM NobodyWaitsInVainCorrect == Spec => []NobodyWaitsInVain
  <1>1. Inv /\ Waits => NobodyWaitsInVain
    BY WaitsNobodyForgotten, WaitsOnlyMutualBlock DEF NobodyWaitsInVain
  <1>. QED BY <1>1, WaitsAlways, PTL

-----------------------------------------------------------------------------
(* The measure of EveryStepGoesOn, part by part.                           *)
LEMMA StageForward ==
  ASSUME Inv, Step, NEW c \in Clients
  PROVE  Stage(c)' >= Stage(c)
  <1> USE IterativeAssumption
  <1>1. CASE UNCHANGED <<cpc, queue, conn>>
    BY <1>1 DEF Stage
  <1>2. ASSUME NEW d \in queue, Idle, Serving(d) PROVE Stage(c)' >= Stage(c)
    <2>1. /\ conn' = d /\ queue' = queue \ {d} /\ conn = None /\ cpc' = cpc
      BY <1>2 DEF Serving, clientVars, Inv, Hand
    <2>. QED BY <2>1 DEF Stage
  <1>3. CASE conn' = None /\ cpc' = cpc /\ queue' \subseteq queue
    <2>1. /\ cpc[c] = "connect" \/ c \in queue => c # conn
          /\ c \in queue => cpc[c] # "connect"
      BY DEF Inv, Fresh
    <2>. QED BY <1>3, <2>1 DEF Stage
  <1>4. ASSUME NEW d \in Clients, Connect(d) \/ ConnectFails(d) PROVE Stage(c)' >= Stage(c)
    <2>1. /\ cpc[d] = "connect" /\ conn' = conn /\ queue' \in {queue, queue \cup {d}}
          /\ \A e \in Clients : e # d => cpc'[e] = cpc[e]
      BY <1>4 DEF Connect, ConnectFails, serverVars, Inv, Types
    <2>. QED BY <2>1 DEF Stage
  <1>5. ASSUME NEW d \in Clients, ClientRuns(d) \/ Kill(d) \/ Abort(d) \/ Reset(d)
        PROVE  Stage(c)' >= Stage(c)
    <2>1. /\ UNCHANGED <<queue, conn>>
          /\ \A e \in Clients \ {d} : cpc'[e] = cpc[e]
          /\ cpc[d] # "connect" /\ cpc'[d] # "connect"
      BY <1>5, ClientKeeps, ClientGoesOn
    <2>2. cpc[c] = "connect" <=> cpc'[c] = "connect"
      BY <2>1
    <2>. QED BY <2>1, <2>2 DEF Stage
  <1>7. ASSUME NEW d \in Clients, DropAborted(d) PROVE Stage(c)' >= Stage(c)
    <2>1. queue' = queue \ {d} /\ UNCHANGED <<cpc, conn>> /\ cpc[d] = "killed" /\ d # conn
      BY <1>7, DropFacts
    <2>2. CASE c = d
      BY <2>1, <2>2 DEF Stage
    <2>3. CASE c # d
      BY <2>1, <2>3 DEF Stage
    <2>. QED BY <2>2, <2>3
  <1>6. CASE World
    BY <1>4, <1>5, <1>6, <1>7 DEF World
  <1>. QED BY <1>1, <1>2, <1>3, <1>6
           DEF Step, Recv, Send, Pass, Die, vars, clientVars, serverVars

LEMMA PlaceForward ==
  ASSUME Inv, Step, NEW c \in Clients
  PROVE  Place(c)' >= Place(c)
  <1>1. CASE cpc'[c] = cpc[c]
    BY <1>1 DEF Place
  <1>2. CASE cpc[c] = "connect"
    BY <1>2 DEF Place
  <1>3. CASE cpc'[c] \in Ended
    BY <1>3 DEF Place, Ended
  <1>4. ASSUME NEW d \in Clients, ClientRuns(d) \/ Kill(d) \/ Abort(d) \/ Reset(d)
        PROVE  Place(c)' >= Place(c)
    <2>1. CASE d # c
      BY <1>1, <1>4, <2>1, ClientKeeps
    <2>2. CASE d = c
      <3>1. CASE ReceiveGreetings(c)
        <4>1. cpc[c] = "greeting" /\ cpc'[c] \in {"greeting", "send", "failed"}
          BY <3>1 DEF ReceiveGreetings, Leave, Inv, Types
        <4>. QED BY <4>1 DEF Place
      <3>2. CASE SendString(c)
        <4>1. cpc[c] = "send" /\ cpc'[c] \in {"send", "recv"}
          BY <3>2 DEF SendString, Inv, Types
        <4>. QED BY <4>1 DEF Place
      <3>3. CASE ReceiveEcho(c)
        <4>1. cpc'[c] \in Ended \/ cpc'[c] = cpc[c]
          BY <3>3 DEF ReceiveEcho, Leave, Inv, Types, Ended
        <4>. QED BY <1>1, <1>3, <4>1
      <3>4. CASE SendNothing(c) \/ ClientFails(c) \/ Kill(c) \/ Abort(c)
        <4>1. cpc'[c] \in Ended
          BY <3>4 DEF SendNothing, ClientFails, Kill, Abort, Leave, Inv, Types, Ended
        <4>. QED BY <1>3, <4>1
      <3>5. CASE Reset(c)
        BY <1>1, <3>5 DEF Reset, clientVars
      <3>. QED BY <1>4, <2>2, <3>1, <3>2, <3>3, <3>4, <3>5 DEF ClientRuns
    <2>. QED BY <2>1, <2>2
  <1>5. ASSUME NEW d \in Clients, Connect(d) \/ ConnectFails(d) PROVE Place(c)' >= Place(c)
    <2>1. cpc[d] = "connect" /\ (c # d => cpc'[c] = cpc[c])
      BY <1>5 DEF Connect, ConnectFails, Inv, Types
    <2>. QED BY <1>1, <1>2, <2>1
  <1>. QED BY <1>1, <1>4, <1>5 DEF Step, World, DropAborted, Serving, Recv, Send, Pass, Die, vars,
           clientVars

LEMMA CountsForward ==
  ASSUME Inv, Step, NEW c \in Clients
  PROVE  sent[c] <= sent'[c] /\ got[c] <= got'[c] /\ taken[c] <= taken'[c]
         /\ Len(down[c]) <= Len(down'[c])
  <1>1. sent[c] \in Nat /\ got[c] \in Nat /\ taken[c] \in Nat /\ Len(down[c]) \in Nat
        /\ taken[c] <= sent[c]
    BY ClientFacts
  <1>2. CASE UNCHANGED <<sent, got, taken, down>>
    BY <1>1, <1>2
  <1>3. ASSUME NEW d \in Clients, Recv(d)
        PROVE  UNCHANGED <<sent, got, down>> /\ taken[c] <= taken'[c]
    <2>1. PICK n \in 1 .. Lesser(ToTake(d), BufSize) : taken' = [taken EXCEPT ![d] = @ + n]
      BY <1>3 DEF Recv
    <2>2. n \in Nat
      <3>1. taken[d] \in Nat /\ sent[d] \in Nat /\ BufSize \in Nat
        BY IterativeAssumption, ClientFacts
      <3>. QED BY <3>1 DEF Lesser, ToTake
    <2>3. taken'[c] = IF c = d THEN taken[c] + n ELSE taken[c]
      BY <2>1 DEF Inv, Types
    <2>. QED BY <1>1, <1>3, <2>2, <2>3 DEF Recv, clientVars
  <1>4. ASSUME NEW d \in Clients, Send(d)
        PROVE  UNCHANGED <<sent, got, taken>> /\ Len(down[c]) <= Len(down'[c])
    <2>1. PICK n \in 1 .. Len(buf) :
            /\ Len(down'[d]) = Len(down[d]) + n
            /\ \A e \in Clients : e # d => down'[e] = down[e]
      BY <1>4, SendFacts
    <2>2. n \in Nat
      BY DEF Inv, Types
    <2>3. Len(down'[c]) = IF c = d THEN Len(down[c]) + n ELSE Len(down[c])
      BY <2>1
    <2>. QED BY <1>1, <1>4, <2>2, <2>3 DEF Send, clientVars
  <1>5. ASSUME NEW d \in Clients, ClientRuns(d) \/ Kill(d) \/ Abort(d) \/ Reset(d)
        PROVE  UNCHANGED <<taken, down>> /\ sent[c] <= sent'[c] /\ got[c] <= got'[c]
    <2>1. UNCHANGED <<taken, down>> /\ (c # d => sent'[c] = sent[c] /\ got'[c] = got[c])
      BY <1>5, ClientKeeps
    <2>2. CASE SendString(d)
      <3>1. sent' = [sent EXCEPT ![d] = @ + 1] /\ got' = got
        BY <2>2 DEF SendString
      <3>2. sent'[c] = IF c = d THEN sent[c] + 1 ELSE sent[c]
        BY <3>1 DEF Inv, Types
      <3>. QED BY <1>1, <2>1, <3>1, <3>2
    <2>3. CASE Get(d) /\ sent' = sent
      <3>1. got[d] < got'[d] /\ got'[d] \in Nat
        BY <2>3, GetFacts
      <3>. QED BY <1>1, <2>1, <2>3, <3>1
    <2>4. CASE UNCHANGED <<sent, got>>
      BY <1>1, <2>1, <2>4
    <2>. QED BY <1>5, <2>2, <2>3, <2>4 DEF ClientRuns, ReceiveGreetings, SendNothing, ReceiveEcho,
             ClientFails, Kill, Abort, Reset, clientVars
  <1>6. ASSUME NEW d \in Clients, Connect(d) \/ ConnectFails(d) \/ DropAborted(d)
        PROVE  UNCHANGED <<sent, got, taken, down>>
    BY <1>6 DEF Connect, ConnectFails, DropAborted, clientVars, serverVars
  <1>7. CASE \E d \in Clients : Recv(d) \/ Send(d)
    BY <1>1, <1>3, <1>4, <1>7
  <1>8. CASE World
    BY <1>1, <1>2, <1>5, <1>6, <1>8 DEF World
  <1>. QED BY <1>2, <1>7, <1>8 DEF Step, Serving, Pass, Die, vars, clientVars, serverVars

LEMMA EndingForward ==
  ASSUME Inv, Step, NEW c \in Clients
  PROVE  Ending(c)' >= Ending(c)
  <1>1. CASE end'[c] = end[c]
    BY <1>1 DEF Ending
  <1>2. CASE end[c] = "open"
    BY <1>2 DEF Ending
  <1>3. ASSUME NEW d \in Clients, ClientRuns(d) \/ Kill(d) \/ Abort(d) \/ Reset(d)
        PROVE  Ending(c)' >= Ending(c)
    <2>1. CASE d # c
      BY <1>1, <1>3, <2>1, ClientKeeps
    <2>2. CASE d = c
      <3>1. CASE Reset(c)
        <4>1. end'[c] = "rst"
          BY <3>1 DEF Reset, Inv, Types
        <4>. QED BY <4>1 DEF Ending
      <3>2. CASE ClientRuns(c) \/ Kill(c) \/ Abort(c)
        <4>1. cpc[c] \in Active
          BY <3>2 DEF ClientRuns, ReceiveGreetings, SendString, SendNothing, ReceiveEcho,
                      ClientFails, Kill, Abort, Active
        <4>. QED BY <1>2, <4>1, ActiveIsOpen
      <3>. QED BY <1>3, <2>2, <3>1, <3>2
    <2>. QED BY <2>1, <2>2
  <1>4. ASSUME NEW d \in Clients, Connect(d) \/ ConnectFails(d) \/ DropAborted(d)
        PROVE  end' = end
    BY <1>4 DEF Connect, ConnectFails, DropAborted
  <1>. QED BY <1>1, <1>3, <1>4 DEF Step, World, Serving, Recv, Send, Pass, Die, vars, clientVars

LEMMA NothingGoesBack ==
  ASSUME Inv, Step, NEW c \in Clients
  PROVE  NotBehind(Course(c)', Course(c))
  <1>1. /\ Stage(c)' >= Stage(c) /\ Place(c)' >= Place(c) /\ Ending(c)' >= Ending(c)
        /\ sent[c] <= sent'[c] /\ got[c] <= got'[c] /\ taken[c] <= taken'[c]
        /\ Len(down[c]) <= Len(down'[c])
    BY StageForward, PlaceForward, EndingForward, CountsForward
  <1>2. /\ Course(c) = <<Stage(c), Place(c), sent[c], got[c], taken[c], Len(down[c]), Ending(c)>>
        /\ Course(c)' = <<Stage(c)', Place(c)', sent'[c], got'[c], taken'[c], Len(down'[c]),
                          Ending(c)'>>
    BY DEF Course
  <1>3. Stage(c) <= Stage(c)' /\ Place(c) <= Place(c)' /\ Ending(c) <= Ending(c)'
    BY <1>1 DEF Stage, Place, Ending
  <1> HIDE DEF Course
  <1>. QED BY <1>1, <1>2, <1>3 DEF NotBehind

(* What moves in each step.                                                *)
LEMMA SomethingGoesOn ==
  ASSUME Inv, Next
  PROVE  (\E c \in Clients : Course(c)' # Course(c)) \/ (Up /\ ~Up')
  <1> USE IterativeAssumption
  <1>1. ASSUME NEW c \in Clients,
               \/ Stage(c)' # Stage(c) \/ Place(c)' # Place(c) \/ sent'[c] # sent[c]
               \/ got'[c] # got[c] \/ taken'[c] # taken[c] \/ Len(down'[c]) # Len(down[c])
               \/ Ending(c)' # Ending(c)
        PROVE  Course(c)' # Course(c)
    BY <1>1 DEF Course
  <1>2. ASSUME NEW p \in Down, Die(p), Up PROVE ~Up'
    BY <1>2 DEF Die, Up
  <1>3. CASE AcceptFails \/ KillServer
    BY <1>2, <1>3 DEF AcceptFails, KillServer, Down, Up
  <1>4. ASSUME NEW c \in Clients, Accept(c) PROVE Course(c)' # Course(c)
    <2>1. /\ c \in queue /\ queue' = queue \ {c} /\ conn' = c /\ cpc' = cpc
          /\ cpc[c] # "connect" /\ conn # c
      BY <1>4 DEF Accept, Serving, clientVars, Inv, Fresh
    <2>2. Stage(c) = 1 /\ Stage(c)' = 2
      BY <2>1 DEF Stage
    <2>. QED BY <1>1, <2>2
  <1>5. ASSUME NEW c \in Clients, Recv(c) PROVE Course(c)' # Course(c)
    <2>1. PICK n \in 1 .. Lesser(ToTake(c), BufSize) : taken' = [taken EXCEPT ![c] = @ + n]
      BY <1>5 DEF Recv
    <2>2. n \in Nat \ {0} /\ taken[c] \in Nat
      <3>1. taken[c] \in Nat /\ sent[c] \in Nat /\ BufSize \in Nat
        BY ClientFacts
      <3>. QED BY <3>1 DEF Lesser, ToTake
    <2>3. taken'[c] = taken[c] + n
      BY <2>1 DEF Inv, Types
    <2>. QED BY <1>1, <2>2, <2>3
  <1>6. ASSUME NEW c \in Clients, Send(c) PROVE Course(c)' # Course(c)
    <2>1. PICK n \in 1 .. Len(buf) : Len(down'[c]) = Len(down[c]) + n
      BY <1>6, SendFacts
    <2>2. n \in Nat \ {0} /\ Len(down[c]) \in Nat
      BY ClientFacts DEF Inv, Types
    <2>. QED BY <1>1, <2>1, <2>2
  <1>7. ASSUME NEW c \in Clients, HandleFails(c) PROVE Up /\ ~Up'
    <2>1. Up /\ Die("exited") /\ "exited" \in Down
      BY <1>7 DEF HandleFails, Up, Down
    <2>. QED BY <1>2, <2>1
  <1>8. ASSUME NEW c \in Clients, CloseClient(c) PROVE Course(c)' # Course(c)
    <2>1. /\ conn = c /\ conn' = None /\ UNCHANGED <<cpc, queue>>
          /\ cpc[c] # "connect" /\ c \notin queue
      BY <1>8 DEF CloseClient, StreamEnds, clientVars, Inv, Fresh
    <2>2. Stage(c) = 2 /\ Stage(c)' = 3
      BY <2>1 DEF Stage
    <2>. QED BY <1>1, <2>2
  <1>9. ASSUME NEW c \in Clients, Connect(c) \/ ConnectFails(c) PROVE Course(c)' # Course(c)
    <2>1. cpc[c] = "connect" /\ cpc'[c] # "connect"
      BY <1>9 DEF Connect, ConnectFails, FirstStep, Inv, Types
    <2>2. Place(c) = 0 /\ Place(c)' # 0
      BY <2>1 DEF Place
    <2>. QED BY <1>1, <2>2
  <1>10. ASSUME NEW c \in Clients, ReceiveGreetings(c) \/ ReceiveEcho(c)
         PROVE  Course(c)' # Course(c)
    <2>1. got[c] < got'[c] /\ got[c] \in Nat /\ got'[c] \in Nat
      BY <1>10, GetFacts, ClientFacts DEF ReceiveGreetings, ReceiveEcho
    <2>. QED BY <1>1, <2>1
  <1>11. ASSUME NEW c \in Clients, SendString(c) PROVE Course(c)' # Course(c)
    <2>1. sent'[c] = sent[c] + 1 /\ sent[c] \in Nat
      BY <1>11, ClientFacts DEF SendString, Inv, Types
    <2>. QED BY <1>1, <2>1
  <1>12. ASSUME NEW c \in Clients, SendNothing(c) \/ ClientFails(c) \/ Kill(c) \/ Abort(c)
         PROVE  Course(c)' # Course(c)
    <2>1. cpc[c] \in Active /\ cpc'[c] \in Ended
      BY <1>12 DEF SendNothing, ClientFails, Kill, Abort, Leave, Inv, Types, Active, Ended
    <2>2. Place(c) < 4 /\ Place(c)' = 4
      BY <2>1 DEF Place, Active, Ended
    <2>3. Place(c)' # Place(c)
      BY <2>2 DEF Place
    <2>. QED BY <1>1, <2>3
  <1>13. ASSUME NEW c \in Clients, Reset(c) PROVE Course(c)' # Course(c)
    <2>1. end[c] = "fin" /\ end'[c] = "rst"
      BY <1>13 DEF Reset, Inv, Types
    <2>2. Ending(c) = 1 /\ Ending(c)' = 2
      BY <2>1 DEF Ending
    <2>. QED BY <1>1, <2>2
  <1>14. ASSUME NEW c \in Clients, DropAborted(c) PROVE Course(c)' # Course(c)
    <2>1. /\ queue' = queue \ {c} /\ c \in queue /\ UNCHANGED <<cpc, conn>> /\ c # conn
          /\ cpc[c] = "killed"
      BY <1>14, DropFacts
    <2>2. Stage(c) = 1 /\ Stage(c)' = 3
      BY <2>1 DEF Stage
    <2>. QED BY <1>1, <2>2
  <1>. QED BY <1>3, <1>4, <1>5, <1>6, <1>7, <1>8, <1>9, <1>10, <1>11, <1>12, <1>13, <1>14
           DEF Next, Serve, Handle, World, ClientRuns

(* Every step of server and clients takes some client further, or ends the *)
(* server, and none takes any client back: the system cannot go round in   *)
(* circles, and nobody is served twice.                                    *)
THEOREM EveryStepGoesOnCorrect == Spec => EveryStepGoesOn
  <1> DEFINE Forward ==
        /\ \A c \in Clients : NotBehind(Course(c)', Course(c))
        /\ (\E c \in Clients : Course(c)' # Course(c)) \/ (Up /\ ~Up')
  <1>1. Inv /\ [Next]_vars => [Forward]_vars
    BY NextIsStep, NothingGoesBack, SomethingGoesOn
  <1>. QED BY <1>1, InvAlways, PTL DEF Spec, EveryStepGoesOn

-----------------------------------------------------------------------------
(* The states the server waits in.                                         *)
ServerStates == {"accept", "recv", "send"} \cup Down

(* The variables keep their types: the server sends no more at a time than *)
(* its buffer or the greeting holds.                                       *)
THEOREM TypeCorrect == Spec => []TypeOK
  <1>1. Init => spc \in ServerStates
    BY DEF Init, InitAt, ServerStates
  <1>2. spc \in ServerStates /\ [Next]_vars => (spc \in ServerStates)'
    <2> SUFFICES ASSUME spc \in ServerStates, [Next]_vars PROVE spc' \in ServerStates
      OBVIOUS
    <2>1. \/ \E c \in Clients : Accept(c) \/ Recv(c) \/ Send(c) \/ HandleFails(c) \/ CloseClient(c)
          \/ AcceptFails \/ KillServer
          \/ UNCHANGED serverVars
      BY DEF Next, Serve, Handle, World, ClientRuns, Connect, ConnectFails, Kill, Abort, Reset, DropAborted,
         ReceiveGreetings, SendString, SendNothing, ReceiveEcho, ClientFails, vars
    <2>. QED BY <2>1 DEF Accept, Serving, Recv, Send, HandleFails, CloseClient, AcceptFails,
             KillServer, Die, serverVars, ServerStates, Down
  <1>3. Inv /\ spc \in ServerStates => TypeOK
    <2> SUFFICES ASSUME Inv, spc \in ServerStates PROVE TypeOK
      OBVIOUS
    <2>1. got \in [Clients -> 0 .. MaxLen + Greeting]
      <3>1. \A c \in Clients : got[c] \in 0 .. MaxLen + Greeting
        BY ClientFacts
      <3>. QED BY <3>1 DEF Inv, Types
    <2>. QED BY <2>1 DEF Inv, Types, TypeOK, ServerStates
  <1>. QED BY <1>1, <1>2, <1>3, InvAlways, PTL DEF Spec

-----------------------------------------------------------------------------
(* The echo service.                                                       *)

(* Behind the greeting a client has been sent its own bytes from the first.*)
LEMMA EchoedIsPrefix ==
  ASSUME NEW c \in Clients, NEW s \in Seq(Byte), Greeting \in Nat,
         \A k \in 1 .. Len(s) : s[k] = Due(c, k)
  PROVE  SubSeq(s, Greeting + 1, Len(s)) = Echo!Prefix(c, Len(s) - Greeting)
  <1>1. SubSeq(s, Greeting + 1, Len(s)) = [k \in 1 .. Len(s) - Greeting |-> s[Greeting + k]]
    OBVIOUS
  <1>2. ASSUME NEW k \in 1 .. Len(s) - Greeting PROVE s[Greeting + k] = <<c, k>>
    <2>1. /\ Greeting + k \in 1 .. Len(s) /\ ~ Greeting + k <= Greeting
          /\ Greeting + k - Greeting = k
      <3>1. Len(s) \in Nat
        OBVIOUS
      <3>. QED BY <3>1
    <2>2. Due(c, Greeting + k) = <<c, k>>
      BY <2>1 DEF Due
    <2>. QED BY <2>1, <2>2
  <1>. QED BY <1>1, <1>2 DEF Echo!Prefix

LEMMA PrefixLen ==
  ASSUME NEW c \in Clients, NEW n \in Nat
  PROVE  Len(Echo!Prefix(c, n)) = n
  <1>1. [k \in 1 .. n |-> <<c, k>>] \in Seq(Clients \X Nat)
    BY IsASeq
  <1>. QED BY <1>1, LenProperties DEF Echo!Prefix

LEMMA EchoedFacts ==
  ASSUME Inv, NEW c \in Clients
  PROVE  Echoed(c) = Echo!Prefix(c, Len(down[c]) - Greeting)
  <1>1. /\ down[c] \in Seq(Byte) /\ Greeting \in Nat
        /\ \A k \in 1 .. Len(down[c]) : down[c][k] = Due(c, k)
    BY IterativeAssumption DEF Inv, Types, Streams
  <1>. QED BY <1>1, EchoedIsPrefix DEF Echoed

EchoOf == [c \in Clients |-> Echoed(c)]

LEMMA EchoCount ==
  ASSUME NEW g \in Nat, NEW l \in Nat, NEW n \in Nat, n > 0, l + n > g,
         NEW t \in Nat, NEW s \in Nat, l + n <= g + t, t <= s
  PROVE  l + n - g \in Nat /\ l + n - g <= s /\ l + n - g > l - g /\ l + n - g > 0
  OBVIOUS

LEMMA EchoStep ==
  ASSUME Inv, Step
  PROVE  [Echo!Next]_<<sent, EchoOf>>
  <1> USE IterativeAssumption
  <1>1. Inv'
    BY StepInv
  <1>2. CASE \E c \in Clients : Send(c)
    <2>1. PICK c \in Clients : Send(c)
      BY <1>2
    <2>2. PICK n \in 1 .. Len(buf) :
            /\ Len(down'[c]) = Len(down[c]) + n
            /\ \A d \in Clients : d # c => down'[d] = down[d]
      BY <2>1, SendFacts
    <2>3. Len(buf) \in Nat /\ n \in Nat /\ n > 0
      BY DEF Inv, Types
    <2>4. /\ Len(down[c]) \in Nat /\ Greeting \in Nat /\ taken[c] <= sent[c]
          /\ sent[c] \in Nat /\ taken[c] \in Nat
      BY ClientFacts
    <2>5. sent' = sent /\ taken' = taken
      BY <2>1 DEF Send, clientVars
    <2>6. Len(down'[c]) <= Greeting + taken[c]
      BY <1>1, <2>5 DEF Inv, Streams
    <2>7. Echoed(c) = Echo!Prefix(c, Len(down[c]) - Greeting)
      BY EchoedFacts
    <2>8. Echoed(c)' = Echo!Prefix(c, Len(down'[c]) - Greeting)
      <3>1. /\ down'[c] \in Seq(Byte) /\ Greeting \in Nat
            /\ \A k \in 1 .. Len(down'[c]) : down'[c][k] = Due(c, k)
        BY <1>1 DEF Inv, Types, Streams
      <3>. QED BY <3>1, EchoedIsPrefix DEF Echoed
    <2>9. \A d \in Clients : d # c => Echoed(d)' = Echoed(d)
      BY <2>2 DEF Echoed
    <2>10. CASE Len(down'[c]) <= Greeting
      <3>1. Echoed(c)' = Echoed(c)
        <4>1. /\ 1 .. Len(down[c]) - Greeting = {}
              /\ 1 .. Len(down'[c]) - Greeting = {}
          <5>1. Len(down[c]) <= Greeting /\ Len(down'[c]) \in Nat
            BY <2>2, <2>3, <2>4, <2>10
          <5>2. \A m \in Nat : m <= Greeting => 1 .. m - Greeting = {}
            BY <2>4
          <5>. QED BY ONLY <2>4, <2>10, <5>1, <5>2
        <4>2. /\ Echo!Prefix(c, Len(down[c]) - Greeting) = [k \in {} |-> <<c, k>>]
              /\ Echo!Prefix(c, Len(down'[c]) - Greeting) = [k \in {} |-> <<c, k>>]
          BY <4>1 DEF Echo!Prefix
        <4>. QED BY <2>7, <2>8, <4>2
      <3>2. EchoOf' = EchoOf
        BY <2>9, <3>1 DEF EchoOf
      <3>. QED BY <2>5, <3>2
    <2>11. CASE Len(down'[c]) > Greeting
      <3> DEFINE m == Len(down'[c]) - Greeting
      <3>1. m \in Nat /\ m <= sent[c] /\ m > Len(down[c]) - Greeting /\ m > 0
        <4>1. Len(down'[c]) = Len(down[c]) + n
          BY <2>2
        <4>2. Len(down'[c]) \in Nat
          BY <2>3, <2>4, <4>1
        <4>. QED BY ONLY <2>3, <2>4, <2>6, <2>11, <4>1, <4>2, EchoCount
      <3>2. EchoOf' = [EchoOf EXCEPT ![c] = Echo!Prefix(c, m)]
        BY <2>8, <2>9 DEF EchoOf
      <3>3. Len(EchoOf[c]) = IF Len(down[c]) >= Greeting THEN Len(down[c]) - Greeting ELSE 0
        <4>1. EchoOf[c] = Echo!Prefix(c, Len(down[c]) - Greeting)
          BY <2>7 DEF EchoOf
        <4>2. CASE Len(down[c]) >= Greeting
          <5>1. Len(down[c]) - Greeting \in Nat
            BY <2>4, <4>2
          <5>2. Len(Echo!Prefix(c, Len(down[c]) - Greeting)) = Len(down[c]) - Greeting
            BY <5>1, PrefixLen
          <5>. QED BY <4>1, <4>2, <5>2
        <4>3. CASE Len(down[c]) < Greeting
          <5>1. 1 .. Len(down[c]) - Greeting = {} /\ 1 .. 0 = {}
            BY <2>4, <4>3
          <5>2. Echo!Prefix(c, Len(down[c]) - Greeting) = Echo!Prefix(c, 0)
            BY <5>1 DEF Echo!Prefix
          <5>3. Len(Echo!Prefix(c, 0)) = 0
            BY PrefixLen
          <5>. QED BY <2>4, <4>1, <4>3, <5>2, <5>3
        <4>. QED BY <2>4, <4>2, <4>3
      <3>4. m \in Len(EchoOf[c]) + 1 .. sent[c]
        <4>1. Len(EchoOf[c]) < m /\ Len(EchoOf[c]) \in Nat
          BY <2>4, <3>1, <3>3
        <4>. QED BY <2>4, <3>1, <4>1
      <3> HIDE DEF m
      <3>5. Echo!Reply(c)
        BY <2>5, <3>2, <3>4 DEF Echo!Reply, EchoOf
      <3>. QED BY <3>5 DEF Echo!Next
    <2>. QED BY <2>2, <2>3, <2>4, <2>10, <2>11
  <1>3. CASE \E c \in Clients : SendString(c)
    <2>1. PICK c \in Clients : SendString(c)
      BY <1>3
    <2>2. /\ sent' = [sent EXCEPT ![c] = @ + 1] /\ down' = down
          /\ sent[c] < StrLen[c]
      BY <2>1 DEF SendString, serverVars, Inv, Progress
    <2>3. sent[c] < MaxLen
      BY <2>2, ClientFacts
    <2>4. EchoOf' = EchoOf
      BY <2>2 DEF EchoOf, Echoed
    <2>. QED BY <2>2, <2>3, <2>4 DEF Echo!Next, Echo!Submit, EchoOf
  <1>4. CASE ~ \E c \in Clients : Send(c) \/ SendString(c)
    <2>1. sent' = sent /\ down' = down
      BY <1>4 DEF Step, Serving, Recv, Pass, Die, World, ClientRuns, Connect, ConnectFails, Kill,
         Abort, Reset, DropAborted, ReceiveGreetings, SendNothing, ReceiveEcho, ClientFails, vars, clientVars,
         serverVars
    <2>2. EchoOf' = EchoOf
      BY <2>1 DEF EchoOf, Echoed
    <2>. QED BY <2>1, <2>2
  <1>. QED BY <1>2, <1>3, <1>4

LEMMA EchoInit ==
  ASSUME NEW p, InitAt(p)
  PROVE  Echo!Init
  <1>1. \A c \in Clients : Echoed(c) = <<>>
    <2>1. \A c \in Clients : down[c] = <<>>
      BY DEF InitAt
    <2>2. SubSeq(<<>>, Greeting + 1, Len(<<>>)) = <<>>
      BY IterativeAssumption, SubSeqEmpty, EmptySeq
    <2>. QED BY <2>1, <2>2 DEF Echoed
  <1>. QED BY <1>1 DEF InitAt, Echo!Init

(* What a sequential server sends a client behind the greeting is at all   *)
(* times what that client has sent, from its first byte: the server        *)
(* implements EchoService.                                                 *)
THEOREM ImplementsEchoService == Spec => ImplementsEcho
  <1>1. Init => Echo!Init
    BY EchoInit DEF Init
  <1>2. Inv /\ [Next]_vars => [Echo!Next]_<<sent, EchoOf>>
    BY NextIsStep, EchoStep
  <1>. QED BY <1>1, <1>2, InvAlways, PTL DEF Spec, ImplementsEcho, Echo!Spec, EchoOf
=============================================================================
