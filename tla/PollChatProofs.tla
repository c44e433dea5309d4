--------------------------- MODULE PollChatProofs ---------------------------
(***************************************************************************)
(* Proofs about PollChat.  The array of poll_server.c is kept by the same  *)
(* argument as that of poll_server2.c, whose lemmas serve here; a failing  *)
(* accept() and the sending loop leave it alone.  On top of it             *)
(*   Loop    says where the sending loop is: what it has to send is the    *)
(*           end of what handler() received, and its index is below the    *)
(*           number of entries;                                            *)
(*   Copies  says how many copies of a byte that makes: one for each       *)
(*           round so far, and one more of those this round has sent.      *)
(* The steps of a scan are counted as for poll_server2.c (IndexInv).  For  *)
(* the order of the copies a second invariant, OrderInv, says which byte   *)
(* each client's stream ends with, and which can follow it (Ordered).      *)
(***************************************************************************)
EXTENDS PollChat, PollServerProofs

(* n bytes of the stream of c, after the first a.                          *)
Bytes(c, a, n) == [k \in 1 .. n |-> <<c, a + k>>]

Loop ==
  pc = "send" =>
    LET c == pfds[i].fd
    IN  /\ j \in 0 .. fd_count - 1
        /\ Len(rest) \in 1 .. Len(buf) /\ Len(buf) <= taken[c]
        /\ buf  = Bytes(c, taken[c] - Len(buf), Len(buf))
        /\ rest = Bytes(c, taken[c] - Len(rest), Len(rest))

(* Byte k of c is one of those the loop is sending.                        *)
InLoop(c, k) == pc = "send" /\ pfds[i].fd = c /\ k > taken[c] - Len(buf)

CopiesOf(c) ==
  /\ \A n \in 1 .. Len(wrote[c]) : \E k \in 1 .. taken[c] : wrote[c][n] = <<c, k>>
  /\ \A k \in 1 .. taken[c] :
       IF InLoop(c, k)
       THEN Occurrences(c, k) = IF k <= taken[c] - Len(rest) THEN j + 1 ELSE j
       ELSE Occurrences(c, k) \in 2 .. Cardinality(Clients) + 1

Copies == \A c \in Clients : ~rst[c] => CopiesOf(c)

ChatInv == TableInv /\ Loop /\ Copies

-----------------------------------------------------------------------------
(* The array.                                                              *)
LEMMA ChatSendCounts ==
  ASSUME TypeOK, Loop, NEW c \in Clients, ChatSend(c)
  PROVE  LET n == Lesser(Len(rest), Room(c))
         IN  /\ n \in 1 .. Len(rest)
             /\ SubSeq(rest, 1, n) = Bytes(c, taken[c] - Len(rest), n)
             /\ SubSeq(rest, n + 1, Len(rest))
                  = Bytes(c, taken[c] - (Len(rest) - n), Len(rest) - n)
  <1> DEFINE n == Lesser(Len(rest), Room(c))
             r == Len(rest)
             a == taken[c] - r
  <1>1. /\ Len(buf) \in Nat /\ r \in 1 .. Len(buf) /\ taken[c] \in Nat /\ Len(buf) <= taken[c]
        /\ rest = Bytes(c, a, r)
    BY PeersAssumption DEF ChatSend, Loop, TypeOK, PeersTypeOK
  <1>2. r \in Nat /\ a \in Nat /\ r >= 1 /\ taken[c] = a + r
    BY <1>1
  <1>3. Room(c) \in Nat /\ Room(c) > 0
    BY PeersAssumption DEF ChatSend, Room, Unacked, TypeOK, PeersTypeOK
  <1>4. n \in 1 .. r
    BY <1>2, <1>3 DEF Lesser
  <1> HIDE DEF n, r, a
  <1> DEFINE S == {<<c, k>> : k \in Nat}
  <1>5. rest \in Seq(S) /\ Len(rest) = r /\ \A k \in 1 .. r : rest[k] = <<c, a + k>>
    BY <1>1, <1>2 DEF Bytes, r
  <1>6. SubSeq(rest, 1, n) = Bytes(c, a, n)
    <2>1. SubSeq(rest, 1, n) = [k \in 1 .. n |-> rest[k]]
      BY <1>2, <1>4, <1>5
    <2>2. \A k \in 1 .. n : rest[k] = <<c, a + k>>
      BY <1>2, <1>4, <1>5
    <2>. QED BY <2>1, <2>2 DEF Bytes
  <1>7. SubSeq(rest, n + 1, Len(rest)) = Bytes(c, taken[c] - (r - n), r - n)
    <2>1. SubSeq(rest, n + 1, r) = [k \in 1 .. r - n |-> rest[k + n]]
      BY <1>2, <1>4, <1>5
    <2>2. \A k \in 1 .. r - n : rest[k + n] = <<c, a + (k + n)>>
      BY <1>2, <1>4, <1>5
    <2>3. \A k \in 1 .. r - n : a + (k + n) = (taken[c] - (r - n)) + k
      BY <1>2, <1>4
    <2>4. [k \in 1 .. r - n |-> rest[k + n]]
            = [k \in 1 .. r - n |-> <<c, (taken[c] - (r - n)) + k>>]
      BY ONLY <2>2, <2>3
    <2>5. Len(rest) = r
      BY <1>5
    <2>. QED BY ONLY <2>1, <2>4, <2>5 DEF Bytes
  <1>. QED BY <1>4, <1>6, <1>7 DEF n, r, a

LEMMA ChatSendTable ==
  ASSUME TableInv, Loop, NEW c \in Clients, ChatSend(c)
  PROVE  TableInv'
  <1> DEFINE n == Lesser(Len(rest), Room(c))
             s == SubSeq(rest, 1, n)
             w == wrote[c] \o s
  <1>1. /\ wrote' = [wrote EXCEPT ![c] = w]
        /\ \/ pc' = pc /\ i' = i
           \/ pc' = "scan" /\ i' = i + 1
        /\ UNCHANGED <<link, sent, taken, got, fin, rst, pfds, fd_count, fd_size, buf, polled>>
    BY DEF ChatSend, NextCopy
  <1>2. /\ n \in 1 .. Len(rest) /\ s = Bytes(c, taken[c] - Len(rest), n)
    BY ChatSendCounts DEF TableInv
  <1>3. /\ Len(buf) \in Nat /\ Len(rest) \in 1 .. Len(buf) /\ taken[c] \in 0 .. MaxBytes
        /\ Len(buf) <= taken[c] /\ MaxBytes \in Nat
    BY PeersAssumption DEF ChatSend, Loop, TableInv, TypeOK, PeersTypeOK
  <1> HIDE DEF n, s
  <1>4. s \in Seq(Byte)
    <2>1. \A k \in 1 .. n : taken[c] - Len(rest) + k \in 1 .. MaxBytes
      BY <1>2, <1>3
    <2>2. \A k \in 1 .. n : <<c, taken[c] - Len(rest) + k>> \in Byte
      BY <2>1 DEF Byte
    <2>3. n \in Nat
      BY <1>2, <1>3
    <2>. QED BY <1>2, <2>2, <2>3, IsASeq DEF Bytes
  <1>5. wrote[c] \in Seq(Byte)
    BY DEF TableInv, TypeOK, PeersTypeOK
  <1>6. w \in Seq(Byte) /\ Len(w) \in Nat /\ Len(wrote[c]) \in Nat /\ Len(w) >= Len(wrote[c])
    BY <1>4, <1>5, ConcatProperties
  <1> HIDE DEF w
  <1>7. TypeOK'
    BY <1>1, <1>6 DEF TableInv, TypeOK, PeersTypeOK, Pcs
  <1>8. TableMatchesDescriptors'
    BY <1>1 DEF TableInv, TableMatchesDescriptors, Open
  <1>9. Accounting'
    BY <1>1, <1>6 DEF TableInv, Accounting, TypeOK, PeersTypeOK
  <1>10. HandHasClient'
    BY <1>1 DEF TableInv, HandHasClient
  <1>. QED BY <1>7, <1>8, <1>9, <1>10 DEF TableInv

(* A failing accept() takes an aborted connection from the queue, or       *)
(* nothing: no open one.                                                   *)
LEMMA LoggedTable ==
  ASSUME TableInv, accept_logged
  PROVE  TableInv'
  <1>1. /\ pc = "scan" /\ i' = i + 1
        /\ UNCHANGED <<sent, taken, wrote, got, fin, rst, pfds, fd_count, fd_size, pc, buf, polled>>
        /\ \/ \E c \in Aborted : link' = [link EXCEPT ![c] = "closed"]
           \/ link' = link
    BY DEF accept_logged, At
  <1>2. /\ link' \in [Clients -> Links] /\ Open' = Open
        /\ \A c \in Clients : link'[c] = "aborted" => link[c] = "aborted"
    BY <1>1 DEF TableInv, TypeOK, PeersTypeOK, Links, Open, Aborted
  <1>3. TypeOK'
    BY <1>1, <1>2 DEF TableInv, TypeOK, PeersTypeOK
  <1>4. TableMatchesDescriptors' /\ HandHasClient'
    BY <1>1, <1>2 DEF TableInv, TableMatchesDescriptors, HandHasClient
  <1>5. Accounting'
    BY <1>1, <1>2 DEF TableInv, Accounting
  <1>. QED BY <1>3, <1>4, <1>5 DEF TableInv

LEMMA ChatSendFailsTable ==
  ASSUME TableInv, NEW c \in Clients, ChatSendFails(c)
  PROVE  TableInv'
  <1>1. /\ UNCHANGED <<peerVars, pfds, fd_count, fd_size, buf, polled>>
        /\ i' = i \/ i' = i + 1
        /\ pc' \in Pcs /\ (pc' = "send" => pc = "send" /\ i' = i)
    BY DEF ChatSendFails, NextCopy, Pcs, TableInv, TypeOK
  <1>2. i' \in Nat
    BY <1>1 DEF TableInv, TypeOK
  <1>3. TypeOK'
    BY <1>1, <1>2 DEF TableInv, TypeOK, PeersTypeOK, peerVars
  <1>4. TableMatchesDescriptors' /\ HandHasClient' /\ Accounting'
    BY <1>1 DEF TableInv, TableMatchesDescriptors, Open, HandHasClient, Accounting, peerVars
  <1>. QED BY <1>3, <1>4 DEF TableInv

LEMMA ChatTableStep ==
  ASSUME TableInv, Loop, [ChatNext]_allVars
  PROVE  TableInv'
  <1>1. CASE [Next]_vars
    BY <1>1, TableInvStep
  <1>2. CASE accept_logged
    BY <1>2, LoggedTable
  <1>3. ASSUME NEW c \in Clients, ChatSend(c) PROVE TableInv'
    BY <1>3, ChatSendTable
  <1>4. ASSUME NEW c \in Clients, ChatSendFails(c) PROVE TableInv'
    BY <1>4, ChatSendFailsTable
  <1>5. ASSUME NEW c \in Clients, ChatRecv(c) PROVE TableInv'
    BY <1>5, RecvTable DEF ChatRecv
  <1>6. CASE UNCHANGED allVars
    BY <1>1, <1>6 DEF allVars
  <1>. QED BY <1>1, <1>2, <1>3, <1>4, <1>5, <1>6
             DEF ChatNext, ChatServe, Next, ServerStep, Serve

-----------------------------------------------------------------------------
(* Counting.  Bytes appended to a stream add one occurrence of each byte   *)
(* among them and none of any other.                                       *)
Places(w, e) == {n \in 1 .. Len(w) : w[n] = e}

LEMMA PlacesFinite ==
  ASSUME NEW S, NEW w \in Seq(S), NEW e
  PROVE  /\ IsFiniteSet(Places(w, e)) /\ Cardinality(Places(w, e)) \in Nat
         /\ Cardinality(Places(w, e)) = 0 <=> Places(w, e) = {}
  <1>1. IsFiniteSet(1 .. Len(w))
    BY FS_Interval
  <1>2. Places(w, e) \in SUBSET (1 .. Len(w))
    BY DEF Places
  <1>3. IsFiniteSet(Places(w, e))
    BY <1>1, <1>2, FS_Subset
  <1>. QED BY <1>3, FS_CardinalityType, FS_EmptySet

LEMMA BytesFacts ==
  ASSUME NEW c, NEW a \in Nat, NEW n \in Nat
  PROVE  /\ Len(Bytes(c, a, n)) = n
         /\ \A q \in 1 .. n : Bytes(c, a, n)[q] = <<c, a + q>>
  <1> DEFINE S == {<<c, k>> : k \in Nat}
  <1>1. Bytes(c, a, n) \in Seq(S) /\ Len(Bytes(c, a, n)) = n
    BY DEF Bytes
  <1>. QED BY <1>1 DEF Bytes

Appended(u, w, c, a, n) ==
  /\ u \in Seq(Byte)
  /\ \A p \in 1 .. Len(u) : \/ p \in 1 .. Len(w) /\ u[p] = w[p]
                            \/ \E q \in 1 .. n : u[p] = <<c, a + q>>
  /\ \A k \in Nat :
       Cardinality(Places(u, <<c, k>>)) =
         IF k \in a + 1 .. a + n THEN Cardinality(Places(w, <<c, k>>)) + 1
         ELSE Cardinality(Places(w, <<c, k>>))

LEMMA AppendedBytes ==
  ASSUME NEW w \in Seq(Byte), NEW c, NEW a \in Nat, NEW n \in Nat, NEW u,
         Bytes(c, a, n) \in Seq(Byte), u = w \o Bytes(c, a, n)
  PROVE  Appended(u, w, c, a, n)
  <1> DEFINE s == Bytes(c, a, n)
             e(k) == <<c, k>>
  <1>1. s \in Seq(Byte) /\ Len(s) = n /\ \A q \in 1 .. n : s[q] = <<c, a + q>>
    BY BytesFacts
  <1>0. u = w \o s
    OBVIOUS
  <1>2. Len(w) \in Nat
    OBVIOUS
  <1> HIDE DEF s
  <1>3. /\ u \in Seq(Byte) /\ Len(u) = Len(w) + n
        /\ \A p \in 1 .. Len(w) + n : u[p] = IF p <= Len(w) THEN w[p] ELSE s[p - Len(w)]
    <2>1. /\ w \o s \in Seq(Byte) /\ Len(w \o s) = Len(w) + n
          /\ \A p \in 1 .. Len(w) + n :
               (w \o s)[p] = IF p <= Len(w) THEN w[p] ELSE s[p - Len(w)]
      BY <1>1, ConcatProperties
    <2>. QED BY ONLY <1>0, <2>1
  <1>4. \A p \in 1 .. Len(w) : p \in 1 .. Len(u) /\ u[p] = w[p]
    BY <1>2, <1>3
  <1>5. ASSUME NEW p \in 1 .. Len(u), p \notin 1 .. Len(w)
        PROVE  p - Len(w) \in 1 .. n /\ u[p] = <<c, a + (p - Len(w))>>
    <2>1. p - Len(w) \in 1 .. n /\ ~ p <= Len(w)
      BY <1>2, <1>3, <1>5
    <2>. QED BY <1>1, <1>3, <2>1
  <1>6. ASSUME NEW k \in Nat, k \in a + 1 .. a + n
        PROVE  Cardinality(Places(u, e(k))) = Cardinality(Places(w, e(k))) + 1
    <2> DEFINE p == Len(w) + (k - a)
    <2>1. p \in 1 .. Len(u) /\ p \notin 1 .. Len(w) /\ a + (p - Len(w)) = k
      BY <1>2, <1>3, <1>6
    <2>2. u[p] = e(k)
      BY <1>5, <2>1
    <2>3. ASSUME NEW q \in 1 .. Len(u), q \notin 1 .. Len(w), u[q] = e(k)
          PROVE  q = p
      <3>1. <<c, a + (q - Len(w))>> = <<c, k>>
        BY ONLY <1>5, <2>3
      <3>2. a + (q - Len(w)) = k
        BY ONLY <3>1
      <3>. QED BY <1>2, <3>2
    <2> HIDE DEF p
    <2>4. Places(u, e(k)) = Places(w, e(k)) \cup {p} /\ p \notin Places(w, e(k))
      BY <1>4, <2>1, <2>2, <2>3 DEF Places
    <2>5. Cardinality(Places(u, e(k))) = Cardinality(Places(w, e(k))) + 1
      BY <2>4, PlacesFinite, FS_AddElement
    <2>. QED BY <1>6, <2>5
  <1>7. ASSUME NEW k \in Nat, k \notin a + 1 .. a + n
        PROVE  Cardinality(Places(u, e(k))) = Cardinality(Places(w, e(k)))
    <2>1. ASSUME NEW q \in 1 .. Len(u), q \notin 1 .. Len(w), u[q] = e(k)
          PROVE  FALSE
      <3>1. <<c, a + (q - Len(w))>> = <<c, k>> /\ q - Len(w) \in 1 .. n
        BY ONLY <1>5, <2>1
      <3>2. a + (q - Len(w)) = k
        BY ONLY <3>1
      <3>. QED BY <1>2, <1>7, <3>1, <3>2
    <2>2. Places(u, e(k)) = Places(w, e(k))
      BY <1>4, <2>1 DEF Places
    <2>. QED BY <1>7, <2>2
  <1>8. \A p \in 1 .. Len(u) : \/ p \in 1 .. Len(w) /\ u[p] = w[p]
                               \/ \E q \in 1 .. n : u[p] = <<c, a + q>>
    BY <1>4, <1>5
  <1>. QED BY <1>3, <1>6, <1>7, <1>8 DEF Appended

(* As many entries as open connections, and one for the listener.          *)
LEMMA EntriesBound ==
  ASSUME TableInv, fd_count > 1
  PROVE  fd_count \in 2 .. Cardinality(Clients) + 1
  <1>1. fd_count \in Nat /\ fd_count - 1 \in Nat
    BY DEF TableInv, TypeOK
  <1>2. IsFiniteSet(Open)
    BY PollAssumption, FS_Subset DEF Open
  <1>3. Cardinality(Open) <= Cardinality(Clients)
    BY PollAssumption, FS_Subset DEF Open
  <1>4. Cardinality(Clients) \in Nat /\ Cardinality(Open) \in Nat
    BY PollAssumption, <1>2, FS_CardinalityType
  <1> DEFINE f == [k \in 1 .. fd_count - 1 |-> pfds[k].fd]
  <1>5. f \in [1 .. fd_count - 1 -> Open]
    BY DEF TableInv, TableMatchesDescriptors
  <1>6. \A k, m \in 1 .. fd_count - 1 : f[k] = f[m] => k = m
    BY <1>1 DEF TableInv, TableMatchesDescriptors, Slots
  <1>7. f \in Injection(1 .. fd_count - 1, Open)
    BY <1>5, <1>6 DEF Injection, IsInjective
  <1>8. Cardinality(1 .. fd_count - 1) <= Cardinality(Open)
    BY <1>2, <1>7, FS_Injection
  <1>9. Cardinality(1 .. fd_count - 1) = fd_count - 1
    BY <1>1, FS_Interval
  <1>. QED BY <1>1, <1>3, <1>4, <1>8, <1>9

-----------------------------------------------------------------------------
(* The copies.                                                             *)
LEMMA QuietStep ==
  ASSUME ChatInv, pc # "send", pc' # "send", UNCHANGED <<wrote, taken, rst>>
  PROVE  Loop' /\ Copies'
  BY DEF ChatInv, Loop, Copies, CopiesOf, InLoop, Occurrences

LEMMA PeerCopies ==
  ASSUME ChatInv, NEW c \in Clients, ClientStep(c), UNCHANGED chatVars
  PROVE  Loop' /\ Copies'
  <1>1. taken' = taken /\ wrote' = wrote
    BY PeerStepFacts DEF ClientStep, ChatInv, TableInv, TypeOK
  <1>2. UNCHANGED <<pfds, fd_count, i, pc, buf, j, rest>>
    BY DEF ClientStep, serverVars, chatVars
  <1>3. \A d \in Clients : rst[d] => rst'[d]
    BY DEF ClientStep, PeerStep, Connect, Write, Read, HangUp, Reset, Abort, DropAborted,
           ChatInv, TableInv, Accounting, TypeOK, PeersTypeOK
  <1>4. Loop'
    BY <1>1, <1>2 DEF ChatInv, Loop
  <1>5. ASSUME NEW d \in Clients, CopiesOf(d) PROVE CopiesOf(d)'
    <2>1. \A k : Occurrences(d, k)' = Occurrences(d, k) /\ InLoop(d, k)' = InLoop(d, k)
      BY <1>1, <1>2 DEF Occurrences, InLoop
    <2>. QED BY <1>1, <1>2, <1>5, <2>1 DEF CopiesOf
  <1>6. Copies'
    BY <1>3, <1>5 DEF ChatInv, Copies
  <1>. QED BY <1>4, <1>6

(* Bytes just received have not been sent.                                 *)
LEMMA RecvCopies ==
  ASSUME ChatInv, NEW c \in Clients, ChatRecv(c)
  PROVE  Loop' /\ Copies'
  <1> DEFINE n == Lesser(BufSize, Unread(c))
  <1>1. /\ pc = "scan" /\ pfds[i].fd = c /\ pc' = "send"
        /\ buf' = [k \in 1 .. n |-> <<c, taken[c] + k>>]
        /\ rest' = buf' /\ j' = 0
        /\ taken' = [taken EXCEPT ![c] = @ + n]
        /\ UNCHANGED <<wrote, rst, pfds, fd_count, i>>
    BY DEF ChatRecv, HandlerRecv, At
  <1>2. /\ n \in Nat /\ n > 0 /\ taken[c] \in Nat
        /\ \A d \in Clients : taken[d] \in Nat
    BY PollAssumption, PeersAssumption
       DEF ChatRecv, HandlerRecv, Lesser, Unread, ChatInv, TableInv, TypeOK, PeersTypeOK
  <1> HIDE DEF n
  <1>3. taken'[c] = taken[c] + n /\ \A d \in Clients \ {c} : taken'[d] = taken[d]
    BY <1>1 DEF ChatInv, TableInv, TypeOK, PeersTypeOK
  <1>4. buf' = Bytes(c, taken[c], n) /\ Len(buf') = n
    BY <1>1, <1>2, BytesFacts DEF Bytes
  <1>5. fd_count \in Nat /\ fd_count > 1
    BY AtClient DEF ChatRecv, HandlerRecv, ChatInv, TableInv, TypeOK
  <1>6. taken'[c] - n = taken[c]
    BY <1>2, <1>3
  <1>7. Loop'
    <2>1. j' \in 0 .. fd_count' - 1
      BY <1>1, <1>5
    <2>2. Len(rest') \in 1 .. Len(buf') /\ Len(buf') <= taken'[c]
      BY <1>1, <1>2, <1>3, <1>4
    <2>3. buf' = Bytes(c, taken'[c] - Len(buf'), Len(buf'))
      BY <1>4, <1>6
    <2>. QED BY <1>1, <2>1, <2>2, <2>3 DEF Loop
  <1>8. ASSUME NEW d \in Clients, ~rst'[d]
        PROVE  CopiesOf(d)'
    <2>1. /\ \A p \in 1 .. Len(wrote[d]) : \E k \in 1 .. taken[d] : wrote[d][p] = <<d, k>>
          /\ \A k \in 1 .. taken[d] : Occurrences(d, k) \in 2 .. Cardinality(Clients) + 1
      BY <1>1, <1>8 DEF ChatInv, Copies, CopiesOf, InLoop
    <2>2. \A k : Occurrences(d, k)' = Occurrences(d, k)
      BY <1>1 DEF Occurrences
    <2>3. CASE d # c
      <3>1. \A k : ~InLoop(d, k)'
        BY <1>1, <2>3 DEF InLoop
      <3>. QED BY <1>1, <1>3, <2>1, <2>2, <2>3, <3>1 DEF CopiesOf
    <2>4. CASE d = c
      <3>1. \A k \in 1 .. taken[c] : k \in 1 .. taken'[c]
        BY <1>2, <1>3
      <3>2. ASSUME NEW k \in 1 .. taken'[c], InLoop(c, k)'
            PROVE  Occurrences(c, k) = 0 /\ ~ k <= taken'[c] - Len(rest')
        <4>1. k > taken[c] /\ k \in Nat
          BY <1>2, <1>3, <1>4, <1>6, <3>2 DEF InLoop
        <4>2. \A m \in 1 .. taken[c] : m # k
          BY <1>2, <4>1
        <4>3. wrote[c] \in Seq(Byte)
          BY DEF ChatInv, TableInv, TypeOK, PeersTypeOK
        <4>4. {p \in DOMAIN wrote[c] : wrote[c][p] = <<c, k>>} = {}
          BY <2>1, <2>4, <4>2, <4>3
        <4>5. Occurrences(c, k) = 0
          BY <4>4, FS_EmptySet DEF Occurrences
        <4>. QED BY <1>1, <1>2, <1>4, <1>6, <4>1, <4>5
      <3>3. ASSUME NEW k \in 1 .. taken'[c], ~InLoop(c, k)'
            PROVE  k \in 1 .. taken[c]
        BY <1>1, <1>2, <1>3, <1>4, <1>6, <3>3 DEF InLoop
      <3>4. \A p \in 1 .. Len(wrote'[c]) : \E k \in 1 .. taken'[c] : wrote'[c][p] = <<c, k>>
        BY <1>1, <2>1, <2>4, <3>1
      <3>5. ASSUME NEW k \in 1 .. taken'[c]
            PROVE  IF InLoop(c, k)'
                   THEN Occurrences(c, k)' = IF k <= taken'[c] - Len(rest') THEN j' + 1 ELSE j'
                   ELSE Occurrences(c, k)' \in 2 .. Cardinality(Clients) + 1
        <4>1. CASE InLoop(c, k)'
          BY <1>1, <2>2, <2>4, <3>2, <4>1
        <4>2. CASE ~InLoop(c, k)'
          BY <2>1, <2>2, <2>4, <3>3, <4>2
        <4>. QED BY <4>1, <4>2
      <3>. QED BY <2>4, <3>4, <3>5 DEF CopiesOf
    <2>. QED BY <2>3, <2>4
  <1>9. Copies'
    BY <1>8 DEF Copies
  <1>. QED BY <1>7, <1>9
(* One send(): the bytes that get out have one more occurrence each.  When *)
(* the last of a round is out the next round begins, or there have been as *)
(* many as entries.                                                        *)
LEMMA SendCopies ==
  ASSUME ChatInv, NEW c \in Clients, ChatSend(c)
  PROVE  Loop' /\ Copies'
  <1> DEFINE n == Lesser(Len(rest), Room(c))
             r == Len(rest)
             m == Len(buf)
             t == taken[c]
  <1>1. /\ n \in 1 .. r
        /\ SubSeq(rest, 1, n) = Bytes(c, t - r, n)
        /\ SubSeq(rest, n + 1, r) = Bytes(c, t - (r - n), r - n)
    BY ChatSendCounts DEF ChatInv, TableInv
  <1>2. /\ pc = "send" /\ pfds[i].fd = c /\ ~rst[c]
        /\ wrote' = [wrote EXCEPT ![c] = @ \o Bytes(c, t - r, n)]
        /\ UNCHANGED <<taken, rst, pfds, fd_count, buf>>
    BY <1>1 DEF ChatSend
  <1>3. \/ /\ n # r /\ rest' = Bytes(c, t - (r - n), r - n)
           /\ j' = j /\ pc' = "send" /\ i' = i
        \/ /\ n = r /\ rest' = buf /\ j' = j + 1
           /\ IF j + 1 < fd_count THEN pc' = "send" /\ i' = i ELSE pc' = "scan"
    BY <1>1, <1>2 DEF ChatSend, NextCopy
  <1>4. /\ m \in Nat /\ r \in 1 .. m /\ t \in Nat /\ m <= t
        /\ j \in 0 .. fd_count - 1 /\ fd_count \in Nat
        /\ buf = Bytes(c, t - m, m)
    BY <1>2, PeersAssumption DEF ChatInv, Loop, TableInv, TypeOK, PeersTypeOK
  <1>5. fd_count \in 2 .. Cardinality(Clients) + 1
    <2>1. fd_count > 1
      BY <1>2, <1>4 DEF ChatInv, TableInv, HandHasClient
    <2>. QED BY <2>1, EntriesBound DEF ChatInv
  <1> HIDE DEF n, r, m, t
  <1>6. n \in Nat /\ r \in Nat /\ t - r \in Nat /\ (n # r => r - n \in 1 .. m /\ t - (r - n) \in Nat)
    BY <1>1, <1>4
  <1>7. ASSUME n # r PROVE Len(rest') = r - n
    <2> DEFINE a == t - (r - n)
    <2>1. a \in Nat /\ r - n \in Nat /\ rest' = Bytes(c, a, r - n)
      BY <1>3, <1>4, <1>6, <1>7
    <2> HIDE DEF a
    <2>. QED BY <2>1, BytesFacts
  <1>8. Loop'
    <2> SUFFICES ASSUME pc' = "send"
                 PROVE  /\ j' \in 0 .. fd_count - 1 /\ i' = i
                        /\ Len(rest') \in 1 .. m /\ m <= t
                        /\ rest' = Bytes(c, t - Len(rest'), Len(rest'))
      BY <1>2, <1>4 DEF Loop, m, t
    <2>1. CASE n # r
      BY <1>3, <1>4, <1>6, <1>7, <2>1
    <2>2. CASE n = r
      <3>1. /\ rest' = buf /\ j' = j + 1 /\ j + 1 < fd_count /\ i' = i /\ Len(rest') = m
        BY <1>3, <2>2 DEF m
      <3>. QED BY <1>4, <3>1
    <2>. QED BY <2>1, <2>2
  <1>9. wrote[c] \in Seq(Byte) /\ Bytes(c, t - r, n) \in Seq(Byte)
    <2>1. wrote[c] \in Seq(Byte) /\ MaxBytes \in Nat /\ t <= MaxBytes
      BY PeersAssumption DEF ChatInv, TableInv, TypeOK, PeersTypeOK, t
    <2>2. \A k \in 1 .. n : (t - r) + k \in 1 .. MaxBytes
      BY <1>1, <1>4, <1>6, <2>1
    <2>3. \A k \in 1 .. n : <<c, (t - r) + k>> \in Byte
      BY <2>2 DEF Byte
    <2>. QED BY <1>6, <2>1, <2>3, IsASeq DEF Bytes
  <1>10. /\ wrote'[c] = wrote[c] \o Bytes(c, t - r, n)
         /\ \A d \in Clients \ {c} : wrote'[d] = wrote[d]
    BY <1>2 DEF ChatInv, TableInv, TypeOK, PeersTypeOK
  <1>11. CopiesOf(c)
    BY <1>2 DEF ChatInv, Copies
  <1>12. CopiesOf(c)'
    <2>1. /\ wrote'[c] \in Seq(Byte)
          /\ \A p \in 1 .. Len(wrote'[c]) :
               \/ p \in 1 .. Len(wrote[c]) /\ wrote'[c][p] = wrote[c][p]
               \/ \E q \in 1 .. n : wrote'[c][p] = <<c, (t - r) + q>>
      <3>1. Appended(wrote'[c], wrote[c], c, t - r, n)
        BY <1>6, <1>9, <1>10, AppendedBytes
      <3>. QED BY <3>1 DEF Appended
    <2>2. \A q \in 1 .. n : (t - r) + q \in 1 .. t
      BY <1>1, <1>4, <1>6
    <2>3. \A p \in 1 .. Len(wrote'[c]) : \E k \in 1 .. taken'[c] : wrote'[c][p] = <<c, k>>
      BY <1>2, <1>11, <2>1, <2>2 DEF CopiesOf, t
    <2>4. ASSUME NEW k \in 1 .. t
          PROVE  IF InLoop(c, k)'
                 THEN Occurrences(c, k)' = IF k <= t - Len(rest') THEN j' + 1 ELSE j'
                 ELSE Occurrences(c, k)' \in 2 .. Cardinality(Clients) + 1
      <3>1. Occurrences(c, k)' = IF k \in (t - r) + 1 .. (t - r) + n
                                 THEN Occurrences(c, k) + 1 ELSE Occurrences(c, k)
        <4>1. /\ Occurrences(c, k) = Cardinality(Places(wrote[c], <<c, k>>))
              /\ Occurrences(c, k)' = Cardinality(Places(wrote'[c], <<c, k>>))
          <5>1. DOMAIN wrote[c] = 1 .. Len(wrote[c]) /\ DOMAIN wrote'[c] = 1 .. Len(wrote'[c])
            BY <1>9, <2>1
          <5>. QED BY <5>1 DEF Occurrences, Places
        <4>2. k \in Nat
          BY <1>4
        <4>3. Appended(wrote'[c], wrote[c], c, t - r, n)
          BY <1>6, <1>9, <1>10, AppendedBytes
        <4>. QED BY <4>1, <4>2, <4>3 DEF Appended
      <3>2. /\ InLoop(c, k) <=> k > t - m
            /\ InLoop(c, k)' <=> pc' = "send" /\ k > t - m
        BY <1>2, <1>3 DEF InLoop, t, m
      <3>3. IF k > t - m THEN Occurrences(c, k) = IF k <= t - r THEN j + 1 ELSE j
            ELSE Occurrences(c, k) \in 2 .. Cardinality(Clients) + 1
        BY <1>11, <3>2 DEF CopiesOf, t, r
      <3>4. CASE ~ k > t - m
        <4>1. k \notin (t - r) + 1 .. (t - r) + n
          BY <1>4, <1>6, <3>4
        <4>. QED BY <3>1, <3>2, <3>3, <3>4, <4>1
      <3>5. CASE k > t - m /\ n # r
        <4>1. Occurrences(c, k)' = IF k <= t - (r - n) THEN j + 1 ELSE j
          BY <1>1, <1>4, <1>6, <3>1, <3>3, <3>5
        <4>. QED BY <1>3, <1>7, <3>2, <3>5, <4>1
      <3>6. CASE k > t - m /\ n = r
        <4>1. Occurrences(c, k)' = j + 1
          BY <1>1, <1>4, <1>6, <3>1, <3>3, <3>6
        <4>2. CASE pc' = "send"
          <5>1. Len(rest') = m /\ j' = j + 1
            BY <1>3, <3>6 DEF m
          <5>2. ~ k <= t - Len(rest')
            BY <1>4, <3>6, <5>1
          <5>. QED BY <3>2, <3>6, <4>1, <4>2, <5>1, <5>2
        <4>3. CASE pc' # "send"
          <5>1. j + 1 = fd_count
            BY <1>3, <1>4, <3>6, <4>3
          <5>. QED BY <1>5, <3>2, <4>1, <4>3, <5>1
        <4>. QED BY <4>2, <4>3
      <3>. QED BY <3>4, <3>5, <3>6
    <2>. QED BY <1>2, <2>3, <2>4 DEF CopiesOf, t
  <1>13. ASSUME NEW d \in Clients \ {c}, CopiesOf(d) PROVE CopiesOf(d)'
    <2>1. \A k : ~InLoop(d, k) /\ ~InLoop(d, k)'
      BY <1>2, <1>3 DEF InLoop
    <2>2. \A k : Occurrences(d, k)' = Occurrences(d, k)
      BY <1>10 DEF Occurrences
    <2>. QED BY <1>2, <1>10, <1>13, <2>1, <2>2 DEF CopiesOf
  <1>14. Copies'
    BY <1>2, <1>12, <1>13 DEF ChatInv, Copies
  <1>. QED BY <1>8, <1>14

(* A send() that fails counts as a round, but on a connection that is      *)
(* reset.                                                                  *)
LEMMA FailCopies ==
  ASSUME ChatInv, NEW c \in Clients, ChatSendFails(c)
  PROVE  Loop' /\ Copies'
  <1>1. /\ pc = "send" /\ pfds[i].fd = c /\ rst[c]
        /\ UNCHANGED <<taken, rst, wrote, pfds, fd_count, buf>>
        /\ pc' = "send" => i' = i /\ j' = j + 1 /\ j + 1 < fd_count /\ rest' = buf
    BY DEF ChatSendFails, NextCopy, peerVars
  <1>2. Loop'
    BY <1>1 DEF ChatInv, Loop, TableInv, TypeOK
  <1>3. ASSUME NEW d \in Clients \ {c}, CopiesOf(d) PROVE CopiesOf(d)'
    <2>1. \A k : ~InLoop(d, k) /\ ~InLoop(d, k)'
      BY <1>1 DEF InLoop
    <2>2. \A k : Occurrences(d, k)' = Occurrences(d, k)
      BY <1>1 DEF Occurrences
    <2>. QED BY <1>1, <1>3, <2>1, <2>2 DEF CopiesOf
  <1>4. Copies'
    BY <1>1, <1>3 DEF ChatInv, Copies
  <1>. QED BY <1>2, <1>4

LEMMA ChatInvStep ==
  ASSUME ChatInv, [ChatNext]_allVars
  PROVE  ChatInv'
  <1>1. TableInv'
    BY ChatTableStep DEF ChatInv
  <1>2. ASSUME \/ Poll \/ Skip \/ EndScan \/ realloc_fails \/ PollFails \/ accept_logged
               \/ \E c \in Clients : accept_conn(c) \/ HandlerClose(c)
        PROVE  Loop' /\ Copies'
    <2>1. pc # "send" /\ pc' # "send" /\ UNCHANGED <<wrote, taken, rst>>
      BY <1>2 DEF Poll, Skip, EndScan, realloc_fails, PollFails, accept_logged, accept_conn,
                  HandlerClose, At, peerVars
    <2>. QED BY <2>1, QuietStep
  <1>3. ASSUME UNCHANGED allVars
        PROVE  Loop' /\ Copies'
    <2>1. UNCHANGED <<wrote, taken, rst, pfds, fd_count, i, pc, buf, j, rest>>
      BY <1>3 DEF allVars, vars, peerVars, serverVars, chatVars
    <2>2. Loop'
      BY <2>1 DEF ChatInv, Loop
    <2>3. ASSUME NEW d \in Clients, CopiesOf(d) PROVE CopiesOf(d)'
      <3>1. \A k : Occurrences(d, k)' = Occurrences(d, k) /\ InLoop(d, k)' = InLoop(d, k)
        BY <2>1 DEF Occurrences, InLoop
      <3>. QED BY <2>1, <2>3, <3>1 DEF CopiesOf
    <2>. QED BY <2>1, <2>2, <2>3 DEF ChatInv, Copies
  <1>4. ASSUME NEW c \in Clients,
               \/ ClientStep(c) /\ UNCHANGED chatVars
               \/ ChatRecv(c) \/ ChatSend(c) \/ ChatSendFails(c)
        PROVE  Loop' /\ Copies'
    BY <1>4, PeerCopies, RecvCopies, SendCopies, FailCopies
  <1>5. Loop' /\ Copies'
    BY <1>2, <1>3, <1>4 DEF ChatNext, ChatServe
  <1>. QED BY <1>1, <1>5 DEF ChatInv

LEMMA ChatInvInit ==
  ASSUME ChatInit
  PROVE  ChatInv
  <1>1. TableInv /\ pc = "poll"
    BY TableInvInit DEF ChatInit, Init
  <1>2. \A c \in Clients : wrote[c] = <<>> /\ taken[c] = 0
    BY DEF ChatInit, Init, PeersInit
  <1>3. ASSUME NEW c \in Clients
        PROVE  1 .. Len(wrote[c]) = {} /\ 1 .. taken[c] = {}
    <2>1. Len(wrote[c]) = 0 /\ taken[c] = 0
      BY <1>2
    <2>. QED BY <2>1
  <1>. QED BY <1>1, <1>3 DEF ChatInv, Loop, Copies, CopiesOf

LEMMA ChatInvAlways == ChatSpec => []ChatInv
  BY ChatInvInit, ChatInvStep, PTL DEF ChatSpec

(* The array of poll_server.c, too, lists the listener and exactly the     *)
(* open connections, whatever accept() and send() fail at.                 *)
THEOREM ChatTableCorrect == ChatSpec => []TableMatchesDescriptors
  <1>1. ChatInv => TableMatchesDescriptors
    BY DEF ChatInv, TableInv
  <1>. QED BY <1>1, ChatInvAlways, PTL

(* The loop that sends pfds[i] what it means for pfds[j]: a byte goes back *)
(* to its sender, once for every entry of the array, and to nobody else.   *)
THEOREM CopiesCorrect == ChatSpec => []SenderGetsEveryCopy
  <1>1. ASSUME ChatInv PROVE SenderGetsEveryCopy
    <2> SUFFICES ASSUME NEW c \in Clients, ~rst[c]
                 PROVE  /\ \A n \in DOMAIN wrote[c] : wrote[c][n] \in {<<c, k>> : k \in 1 .. taken[c]}
                        /\ \A k \in 1 .. taken[c] :
                             IF pc = "send" /\ \E n \in DOMAIN buf : buf[n] = <<c, k>>
                             THEN Occurrences(c, k) \in {j, j + 1}
                             ELSE Occurrences(c, k) \in 2 .. Cardinality(Clients) + 1
      BY DEF SenderGetsEveryCopy
    <2>1. CopiesOf(c)
      BY <1>1 DEF ChatInv, Copies
    <2>2. wrote[c] \in Seq(Byte) /\ buf \in Seq(Byte) /\ taken[c] \in Nat /\ pfds[i].fd = pfds[i].fd
      BY <1>1, PeersAssumption DEF ChatInv, TableInv, TypeOK, PeersTypeOK
    <2>3. \A n \in DOMAIN wrote[c] : wrote[c][n] \in {<<c, k>> : k \in 1 .. taken[c]}
      <3>1. DOMAIN wrote[c] = 1 .. Len(wrote[c])
        BY <2>2
      <3>. QED BY <2>1, <3>1 DEF CopiesOf
    <2>4. ASSUME NEW k \in 1 .. taken[c]
          PROVE  (pc = "send" /\ \E n \in DOMAIN buf : buf[n] = <<c, k>>) <=> InLoop(c, k)
      <3>1. CASE pc # "send"
        BY <3>1 DEF InLoop
      <3>2. CASE pc = "send"
        <4> DEFINE d == pfds[i].fd
                   m == Len(buf)
                   a == taken[d] - m
        <4>1. d \in Clients /\ taken[d] \in Nat
          BY <1>1, <3>2, PeersAssumption DEF ChatInv, TableInv, HandHasClient, TypeOK, PeersTypeOK
        <4>5. m \in Nat
          BY <2>2
        <4>6. m <= taken[d] /\ buf = Bytes(d, a, m)
          BY <1>1, <3>2 DEF ChatInv, Loop
        <4>7. a \in Nat
          BY <4>1, <4>5, <4>6
        <4>2. DOMAIN buf = 1 .. m /\ \A n \in 1 .. m : buf[n] = <<d, a + n>>
          BY <4>6 DEF Bytes
        <4>3. ASSUME NEW n \in DOMAIN buf, buf[n] = <<c, k>>
              PROVE  InLoop(c, k)
          <5>1. d = c /\ a + n = k
            BY <4>2, <4>3
          <5>. QED BY <3>2, <4>1, <4>2, <4>5, <5>1 DEF InLoop
        <4>4. ASSUME InLoop(c, k)
              PROVE  \E n \in DOMAIN buf : buf[n] = <<c, k>>
          <5>1. d = c /\ k > a /\ k <= a + m
            BY <4>1, <4>4, <4>5 DEF InLoop
          <5>2. k - a \in 1 .. m /\ a + (k - a) = k
            BY <4>1, <4>5, <4>7, <5>1
          <5>. QED BY <4>2, <5>1, <5>2
        <4>. QED BY <3>2, <4>3, <4>4
      <3>. QED BY <3>1, <3>2
    <2>. QED BY <2>1, <2>3, <2>4 DEF CopiesOf
  <1>. QED BY <1>1, ChatInvAlways, PTL

-----------------------------------------------------------------------------
(* The scan comes to an end.                                               *)
LEMMA LessFour ==
  ASSUME NEW a, NEW b, NEW c, NEW d, NEW e, NEW f, NEW g, NEW h,
         \/ a < e
         \/ a = e /\ b < f
         \/ a = e /\ b = f /\ c < g
         \/ a = e /\ b = f /\ c = g /\ d < h
  PROVE  Less(<<a, b, c, d>>, <<e, f, g, h>>)
  <1> DEFINE s == <<a, b, c, d>>
             t == <<e, f, g, h>>
  <1>1. /\ DOMAIN s = 1 .. 4 /\ s[1] = a /\ s[2] = b /\ s[3] = c /\ s[4] = d
        /\ t[1] = e /\ t[2] = f /\ t[3] = g /\ t[4] = h
    OBVIOUS
  <1> HIDE DEF s, t
  <1>2. CASE a < e
    <2>1. 1 \in DOMAIN s /\ s[1] < t[1] /\ \A n \in 1 .. 1 - 1 : s[n] = t[n]
      BY <1>1, <1>2
    <2>. QED BY <2>1 DEF Less, s, t
  <1>3. CASE a = e /\ b < f
    <2>1. 2 \in DOMAIN s /\ s[2] < t[2] /\ \A n \in 1 .. 2 - 1 : s[n] = t[n]
      BY <1>1, <1>3
    <2>. QED BY <2>1 DEF Less, s, t
  <1>4. CASE a = e /\ b = f /\ c < g
    <2>1. 3 \in DOMAIN s /\ s[3] < t[3] /\ \A n \in 1 .. 3 - 1 : s[n] = t[n]
      BY <1>1, <1>4
    <2>. QED BY <2>1 DEF Less, s, t
  <1>5. CASE a = e /\ b = f /\ c = g /\ d < h
    <2>1. 4 \in DOMAIN s /\ s[4] < t[4] /\ \A n \in 1 .. 4 - 1 : s[n] = t[n]
      BY <1>1, <1>5
    <2>. QED BY <2>1 DEF Less, s, t
  <1>. QED BY <1>2, <1>3, <1>4, <1>5

(* A step that ends with less to do, and not with less than nothing.       *)
LessToDo == Less(ChatScanWork', ChatScanWork) /\ ChatScanWork' \in Nat \X Nat \X Nat \X Nat

LEMMA FewerSlots ==
  ASSUME ToVisit' < ToVisit
  PROVE  Less(ChatScanWork', ChatScanWork)
  <1>1. ASSUME NEW b, NEW c, NEW d, NEW f, NEW g, NEW h
        PROVE  Less(<<ToVisit', b, c, d>>, <<ToVisit, f, g, h>>)
    BY LessFour
  <1>. QED BY <1>1 DEF ChatScanWork

(* accept() has the listener's slot, the first.                            *)
LEMMA LoggedNext ==
  ASSUME TableInv, accept_logged
  PROVE  NextSlot /\ pc' = "scan"
  BY DEF accept_logged, At, NextSlot

(* One send() of the loop: bytes of the copy, or the copy, or the slot.    *)
LEMMA ChatSendHand ==
  ASSUME ChatInv, NEW c \in Clients, ChatSend(c) \/ ChatSendFails(c), Scanning'
  PROVE  /\ pc = "send" /\ i < fd_count /\ fd_count' = fd_count
         /\ \/ pc' = "scan" /\ i' = i + 1
            \/ pc' = "send" /\ i' = i /\ j' = j + 1
            \/ pc' = "send" /\ i' = i /\ j' = j /\ Len(rest') < Len(rest)
  <1>1. pc = "send" /\ i < fd_count /\ fd_count' = fd_count
    BY DEF ChatSend, ChatSendFails, ChatInv, TableInv, HandHasClient, TypeOK
  <1>2. CASE ChatSendFails(c)
    BY <1>1, <1>2 DEF ChatSendFails, NextCopy, Scanning
  <1>3. CASE ChatSend(c)
    <2> DEFINE n == Lesser(Len(rest), Room(c))
               r == Len(rest)
    <2>1. n \in 1 .. r /\ SubSeq(rest, n + 1, r) = Bytes(c, taken[c] - (r - n), r - n)
      BY <1>3, ChatSendCounts DEF ChatInv, TableInv
    <2>2. CASE n = r
      BY <1>1, <1>3, <2>2 DEF ChatSend, NextCopy
    <2>3. CASE n # r
      <3>1. pc' = pc /\ i' = i /\ j' = j /\ rest' = SubSeq(rest, n + 1, r)
        BY <1>3, <2>3 DEF ChatSend
      <3>2. /\ Len(buf) \in Nat /\ r \in 1 .. Len(buf) /\ taken[c] \in Nat /\ Len(buf) <= taken[c]
        BY <1>1, <1>3, PeersAssumption
           DEF ChatSend, ChatInv, Loop, TableInv, TypeOK, PeersTypeOK
      <3> HIDE DEF n, r
      <3>3. taken[c] - (r - n) \in Nat /\ r - n \in Nat /\ r - n < r
        BY <2>1, <3>2
      <3>4. Len(Bytes(c, taken[c] - (r - n), r - n)) = r - n
        BY ONLY <3>3, BytesFacts
      <3>5. Len(rest') = r - n
        BY <2>1, <3>1, <3>4
      <3>. QED BY <1>1, <3>1, <3>3, <3>5 DEF r
    <2>. QED BY <2>2, <2>3
  <1>. QED BY <1>2, <1>3

LEMMA ChatIndexStep ==
  ASSUME ChatInv, IndexInv, [ChatNext]_allVars
  PROVE  IndexInv'
  <1>1. CASE [Next]_vars
    BY <1>1, IndexInvStep DEF ChatInv
  <1>2. CASE accept_logged
    BY <1>2, LoggedNext, NextSlotLess DEF ChatInv, TableInv, IndexInv
  <1>3. ASSUME NEW c \in Clients, ChatSend(c) \/ ChatSendFails(c) PROVE IndexInv'
    <2> SUFFICES ASSUME Scanning' PROVE i' <= fd_count' + 1
      BY DEF IndexInv
    <2>1. i \in Nat /\ fd_count \in Nat
      BY DEF ChatInv, TableInv, TypeOK
    <2>2. /\ i < fd_count /\ fd_count' = fd_count
          /\ i' = i + 1 \/ i' = i
      BY <1>3, ChatSendHand
    <2>. QED BY <2>1, <2>2
  <1>4. ASSUME NEW c \in Clients, ChatRecv(c) PROVE IndexInv'
    BY <1>4 DEF ChatRecv, HandlerRecv, At, IndexInv, Scanning
  <1>5. CASE UNCHANGED allVars
    BY <1>1, <1>5 DEF allVars
  <1>. QED BY <1>1, <1>2, <1>3, <1>4, <1>5
           DEF ChatNext, ChatServe, Next, ServerStep, Serve

LEMMA ChatScanStep ==
  ASSUME ChatInv, IndexInv, ChatServe, Scanning, Scanning'
  PROVE  LessToDo
  <1>1. ChatInv' /\ IndexInv'
    BY ChatInvStep, ChatIndexStep DEF ChatNext
  <1>2. ChatScanWork' \in Nat \X Nat \X Nat \X Nat
    <2>0. TypeOK'
      BY <1>1 DEF ChatInv, TableInv
    <2>1. fd_count' \in Nat
      <3>1. fd_size' \in Nat /\ fd_count' \in 1 .. fd_size'
        BY <2>0 DEF TypeOK
      <3>. QED BY ONLY <3>1
    <2>2. ToVisit' \in Nat
      <3>1. ASSUME NEW n \in Nat, NEW m \in Nat, n <= m + 1
            PROVE  (IF n = 0 THEN m + 2 ELSE m + 1) - n \in Nat
        BY ONLY <3>1
      <3>2. i' \in Nat
        BY <2>0 DEF TypeOK
      <3>3. i' <= fd_count' + 1
        BY <1>1 DEF IndexInv
      <3>. QED BY ONLY <2>1, <3>1, <3>2, <3>3 DEF ToVisit
    <2>3. ASSUME pc' = "send" PROVE fd_count' - j' \in Nat /\ Len(rest') \in Nat
      <3>1. ASSUME NEW n \in Nat, NEW m \in 0 .. n - 1 PROVE n - m \in Nat
        BY ONLY <3>1
      <3>2. ASSUME NEW n \in Nat, NEW m \in 1 .. n PROVE m \in Nat
        BY ONLY <3>2
      <3>3. j' \in 0 .. fd_count' - 1 /\ Len(rest') \in 1 .. Len(buf')
        BY <1>1, <2>3 DEF ChatInv, Loop
      <3>4. Len(buf') \in Nat
        BY <2>0 DEF TypeOK
      <3>. QED BY ONLY <2>1, <3>1, <3>2, <3>3, <3>4
    <2>. QED BY <2>2, <2>3 DEF ChatScanWork
  <1>3. /\ i \in Nat /\ fd_count \in Nat /\ fd_count >= 1 /\ i <= fd_count + 1
        /\ pc = "send" => j \in 0 .. fd_count - 1
    BY DEF ChatInv, TableInv, TypeOK, IndexInv, Loop
  <1>4. ASSUME NextSlot PROVE LessToDo
    BY <1>2, <1>4, NextSlotLess, FewerSlots DEF ChatInv, TableInv, LessToDo
  <1>5. CASE \/ Skip \/ accept_logged
             \/ \E c \in Clients : accept_conn(c) \/ HandlerClose(c)
    BY <1>4, <1>5, MovesOnAreNext, LoggedNext DEF ChatInv
  <1>6. ASSUME NEW c \in Clients, ChatRecv(c) PROVE LessToDo
    <2>1. /\ pc = "scan" /\ pc' = "send" /\ i' = i /\ fd_count' = fd_count
      BY <1>6 DEF ChatRecv, HandlerRecv, At
    <2>2. ToVisit' = ToVisit
      BY <2>1 DEF ToVisit
    <2>3. ASSUME NEW x, NEW y PROVE Less(<<ToVisit', 0, x, y>>, <<ToVisit, 1, 0, 0>>)
      <3>1. 0 < 1
        OBVIOUS
      <3>. QED BY ONLY <2>2, <3>1, LessFour
    <2>4. Less(ChatScanWork', ChatScanWork)
      BY <2>1, <2>3 DEF ChatScanWork
    <2>. QED BY <1>2, <2>4 DEF LessToDo
  <1>7. ASSUME NEW c \in Clients, ChatSend(c) \/ ChatSendFails(c) PROVE LessToDo
    <2>1. pc = "send" /\ i < fd_count /\ fd_count' = fd_count
      BY <1>7, ChatSendHand
    <2>2. CASE i' = i + 1
      BY <1>4, <2>1, <2>2 DEF NextSlot
    <2>3. CASE pc' = "send" /\ i' = i /\ j' = j + 1
      <3>1. ToVisit' = ToVisit
        BY <2>1, <2>3 DEF ToVisit
      <3>2. fd_count' - j' < fd_count - j
        BY <1>3, <2>1, <2>3
      <3>3. ASSUME NEW x, NEW y
            PROVE  Less(<<ToVisit', 0, fd_count' - j', x>>, <<ToVisit, 0, fd_count - j, y>>)
        BY ONLY <3>1, <3>2, LessFour
      <3>4. Less(ChatScanWork', ChatScanWork)
        BY <2>1, <2>3, <3>3 DEF ChatScanWork
      <3>. QED BY <1>2, <3>4 DEF LessToDo
    <2>4. CASE pc' = "send" /\ i' = i /\ j' = j /\ Len(rest') < Len(rest)
      <3>1. ToVisit' = ToVisit /\ fd_count' - j' = fd_count - j /\ Len(rest') < Len(rest)
        BY <2>1, <2>4 DEF ToVisit
      <3>2. Less(<<ToVisit', 0, fd_count' - j', Len(rest')>>,
                 <<ToVisit, 0, fd_count - j, Len(rest)>>)
        BY ONLY <3>1, LessFour
      <3>3. Less(ChatScanWork', ChatScanWork)
        BY <2>1, <2>4, <3>2 DEF ChatScanWork
      <3>. QED BY <1>2, <3>3 DEF LessToDo
    <2>. QED BY <1>7, <2>2, <2>3, <2>4, ChatSendHand
  <1>8. ~ (Poll \/ EndScan \/ realloc_fails)
    BY DEF Poll, EndScan, realloc_fails, Scanning
  <1>. QED BY <1>5, <1>6, <1>7, <1>8 DEF ChatServe

(* The scan of poll_server.c comes to an end as well: a logged accept()    *)
(* takes a slot, a send() of the loop bytes or a copy.                     *)
THEOREM ChatScanEndsCorrect == ChatSpec => ChatScanEnds
  <1>1. ChatInit => ChatInv /\ IndexInv
    BY ChatInvInit DEF ChatInit, Init, IndexInv, Scanning
  <1>2. ChatInv /\ IndexInv /\ [ChatNext]_allVars => ChatInv' /\ IndexInv'
    BY ChatInvStep, ChatIndexStep
  <1>3. ChatInv /\ IndexInv /\ [ChatNext]_allVars =>
          [Scanning /\ Scanning' =>
             /\ Less(ChatScanWork', ChatScanWork)
             /\ ChatScanWork' \in Nat \X Nat \X Nat \X Nat]_<<serverVars, chatVars>>
    <2> SUFFICES ASSUME ChatInv, IndexInv, [ChatNext]_allVars, Scanning, Scanning',
                        ~UNCHANGED <<serverVars, chatVars>>
                 PROVE  LessToDo
      BY DEF LessToDo
    <2>1. CASE ChatServe
      BY <2>1, ChatScanStep
    <2>2. ~PollFails
      BY DEF PollFails, Scanning
    <2>. QED BY <2>1, <2>2 DEF ChatNext, ClientStep, allVars, vars
  <1>. QED BY <1>1, <1>2, <1>3, PTL DEF ChatSpec, ChatScanEnds

-----------------------------------------------------------------------------
(* The order of the copies.  Ordered says it of what went out to c when    *)
(* the last byte was number k; Reached is that number: the byte before the *)
(* rest of the copy, or, between two copies, the last of the read.         *)
Ordered(w, c, k) ==
  /\ w # <<>> => w[1] = <<c, 1>>
  /\ \A p \in 1 .. Len(w) - 1 :
       LET x == w[p][2]
           y == w[p + 1][2]
       IN  y = x + 1 \/ (y <= x /\ x < y + BufSize)
  /\ IF k = 0 THEN Len(w) = 0 ELSE Len(w) > 0 /\ w[Len(w)] = <<c, k>>

BetweenCopies == j > 0 /\ Len(rest) = Len(buf)

Reached(c) ==
  IF pc = "send" /\ pfds[i].fd = c /\ ~BetweenCopies THEN taken[c] - Len(rest) ELSE taken[c]

OrderInv ==
  /\ pc = "send" => Len(buf) <= BufSize
  /\ \A c \in Clients : ~rst[c] => Ordered(wrote[c], c, Reached(c))

LEMMA OrderedAppend ==
  ASSUME NEW w \in Seq(Byte), NEW c, NEW k \in Nat, Ordered(w, c, k),
         NEW a \in Nat, NEW n \in Nat, n >= 1, Bytes(c, a, n) \in Seq(Byte),
         a = k \/ (a < k /\ k < a + 1 + BufSize)
  PROVE  Ordered(w \o Bytes(c, a, n), c, a + n)
  <1> DEFINE s == Bytes(c, a, n)
             u == w \o s
  <1>1. s \in Seq(Byte) /\ Len(s) = n /\ \A q \in 1 .. n : s[q] = <<c, a + q>>
    BY BytesFacts
  <1>2. Len(w) \in Nat
    OBVIOUS
  <1> HIDE DEF s
  <1>3. /\ u \in Seq(Byte) /\ Len(u) = Len(w) + n
        /\ \A p \in 1 .. Len(w) + n : u[p] = IF p <= Len(w) THEN w[p] ELSE s[p - Len(w)]
    BY <1>1, ConcatProperties
  <1> HIDE DEF u
  <1>4. \A p \in 1 .. Len(w) : u[p] = w[p]
    BY <1>2, <1>3
  <1>5. ASSUME NEW q \in 1 .. n PROVE u[Len(w) + q] = <<c, a + q>>
    <2>1. Len(w) + q \in 1 .. Len(w) + n /\ ~ Len(w) + q <= Len(w) /\ Len(w) + q - Len(w) = q
      BY <1>2
    <2> DEFINE p == Len(w) + q
    <2> HIDE DEF p
    <2>2. p \in 1 .. Len(w) + n /\ ~ p <= Len(w) /\ p - Len(w) = q
      BY ONLY <2>1 DEF p
    <2>3. u[p] = s[p - Len(w)]
      BY ONLY <1>3, <2>2
    <2>4. u[p] = <<c, a + q>>
      BY ONLY <1>1, <2>2, <2>3
    <2>. QED BY ONLY <2>4 DEF p
  <1>6. u # <<>> => u[1] = <<c, 1>>
    <2>1. CASE Len(w) = 0
      <3>1. k = 0
        BY <2>1 DEF Ordered
      <3>2. a = 0
        BY <3>1
      <3>3. u[Len(w) + 1] = <<c, a + 1>>
        BY <1>5
      <3>. QED BY <2>1, <3>2, <3>3
    <2>2. CASE Len(w) > 0
      <3>1. w # <<>> /\ 1 \in 1 .. Len(w)
        BY <1>2, <2>2
      <3>. QED BY <1>4, <3>1 DEF Ordered
    <2>. QED BY <1>2, <2>1, <2>2
  <1>7. ASSUME NEW p \in 1 .. Len(u) - 1
        PROVE  \/ u[p + 1][2] = u[p][2] + 1
               \/ u[p + 1][2] <= u[p][2] /\ u[p][2] < u[p + 1][2] + BufSize
    <2>1. CASE p < Len(w)
      <3>1. p \in 1 .. Len(w) - 1 /\ p \in 1 .. Len(w) /\ p + 1 \in 1 .. Len(w)
        BY <1>2, <2>1
      <3>2. u[p] = w[p] /\ u[p + 1] = w[p + 1]
        BY <1>4, <3>1
      <3>. QED BY <3>1, <3>2 DEF Ordered
    <2>2. CASE p = Len(w)
      <3>1. u[p + 1] = <<c, a + 1>>
        BY <1>5, <2>2
      <3>2. p \in 1 .. Len(w) /\ k # 0
        BY <1>2, <2>2 DEF Ordered
      <3>3. u[p] = <<c, k>>
        BY <1>4, <2>2, <3>2 DEF Ordered
      <3>4. u[p + 1][2] = a + 1 /\ u[p][2] = k
        BY ONLY <3>1, <3>3
      <3>5. a + 1 = k + 1 \/ (a + 1 <= k /\ k < a + 1 + BufSize)
        OBVIOUS
      <3>. QED BY ONLY <3>4, <3>5
    <2>3. CASE p > Len(w)
      <3>1. PICK q \in 1 .. n : p = Len(w) + q /\ q + 1 \in 1 .. n
        <4>1. p - Len(w) \in 1 .. n /\ p = Len(w) + (p - Len(w)) /\ p - Len(w) + 1 \in 1 .. n
          BY <1>2, <1>3, <2>3
        <4>. QED BY ONLY <4>1
      <3>2. u[Len(w) + q] = <<c, a + q>> /\ u[Len(w) + (q + 1)] = <<c, a + (q + 1)>>
        BY <1>5, <3>1
      <3>3. p + 1 = Len(w) + (q + 1) /\ a + (q + 1) = (a + q) + 1
        BY <1>2, <3>1
      <3>4. u[p][2] = a + q /\ u[p + 1][2] = (a + q) + 1
        BY ONLY <3>1, <3>2, <3>3
      <3>. QED BY ONLY <3>4
    <2>. QED BY <1>2, <2>1, <2>2, <2>3
  <1>8. a + n # 0 /\ Len(u) > 0 /\ u[Len(u)] = <<c, a + n>>
    <2>1. n \in 1 .. n /\ a + n # 0 /\ Len(w) + n > 0
      BY <1>2
    <2>. QED BY <1>3, <1>5, <2>1
  <1>9. Ordered(u, c, a + n)
    BY <1>6, <1>7, <1>8 DEF Ordered
  <1>. QED BY <1>9 DEF u, s

(* A step that sends and receives nothing.                                 *)
LEMMA StillOrdered ==
  ASSUME OrderInv, UNCHANGED <<wrote, taken>>, \A d \in Clients : rst[d] => rst'[d],
         \/ pc # "send" /\ pc' # "send"
         \/ UNCHANGED <<pc, pfds, i, buf, j, rest>>
  PROVE  OrderInv'
  <1>1. \A d \in Clients : Reached(d)' = Reached(d)
    BY DEF Reached, BetweenCopies
  <1>2. pc' = "send" => Len(buf') <= BufSize
    BY DEF OrderInv
  <1>. QED BY <1>1, <1>2 DEF OrderInv

LEMMA RecvOrdered ==
  ASSUME ChatInv, OrderInv, NEW c \in Clients, ChatRecv(c)
  PROVE  OrderInv'
  <1> DEFINE n == Lesser(BufSize, Unread(c))
  <1>1. /\ pc = "scan" /\ pfds[i].fd = c /\ pc' = "send"
        /\ buf' = Bytes(c, taken[c], n)
        /\ rest' = buf' /\ j' = 0
        /\ taken' = [taken EXCEPT ![c] = @ + n]
        /\ UNCHANGED <<wrote, rst, pfds, i>>
    BY DEF ChatRecv, HandlerRecv, At, Bytes
  <1>2. n \in Nat /\ n <= BufSize /\ taken[c] \in Nat
    BY PollAssumption, PeersAssumption
       DEF ChatRecv, HandlerRecv, Lesser, Unread, ChatInv, TableInv, TypeOK, PeersTypeOK
  <1> HIDE DEF n
  <1>3. taken'[c] = taken[c] + n /\ \A d \in Clients \ {c} : taken'[d] = taken[d]
    BY <1>1 DEF ChatInv, TableInv, TypeOK, PeersTypeOK
  <1>4. Len(Bytes(c, taken[c], n)) = n
    BY ONLY <1>2, BytesFacts
  <1>5. Len(buf') = n /\ Len(rest') = n
    BY <1>1, <1>4
  <1>6. ASSUME NEW d \in Clients PROVE Reached(d)' = Reached(d)
    <2>1. Reached(d) = taken[d]
      BY <1>1 DEF Reached
    <2>2. CASE d = c
      <3>1. Reached(c)' = taken'[c] - Len(rest')
        BY <1>1 DEF Reached, BetweenCopies
      <3>. QED BY <1>2, <1>3, <1>5, <2>1, <2>2, <3>1
    <2>3. CASE d # c
      BY <1>1, <1>3, <2>1, <2>3 DEF Reached
    <2>. QED BY <2>2, <2>3
  <1>7. Len(buf') <= BufSize
    BY <1>2, <1>5
  <1>8. \A d \in Clients : ~rst'[d] => Ordered(wrote'[d], d, Reached(d)')
    BY <1>1, <1>6 DEF OrderInv
  <1>. QED BY <1>7, <1>8 DEF OrderInv

(* What a send() adds goes on where the copy was, or begins a new copy.    *)
LEMMA SendOrdered ==
  ASSUME ChatInv, OrderInv, NEW c \in Clients, ChatSend(c)
  PROVE  OrderInv'
  <1> DEFINE n == Lesser(Len(rest), Room(c))
             r == Len(rest)
             m == Len(buf)
             t == taken[c]
             a == t - r
  <1>1. /\ n \in 1 .. r
        /\ SubSeq(rest, 1, n) = Bytes(c, a, n)
        /\ SubSeq(rest, n + 1, r) = Bytes(c, t - (r - n), r - n)
    BY ChatSendCounts DEF ChatInv, TableInv
  <1>2. /\ pc = "send" /\ pfds[i].fd = c /\ ~rst[c]
        /\ wrote' = [wrote EXCEPT ![c] = @ \o Bytes(c, a, n)]
        /\ UNCHANGED <<taken, rst, pfds, buf>>
    BY <1>1 DEF ChatSend
  <1>3. \/ /\ n # r /\ rest' = Bytes(c, t - (r - n), r - n)
           /\ j' = j /\ pc' = "send" /\ i' = i
        \/ /\ n = r /\ rest' = buf /\ j' = j + 1
           /\ (pc' = "send" /\ i' = i) \/ pc' = "scan"
    BY <1>1, <1>2 DEF ChatSend, NextCopy
  <1>4. /\ m \in Nat /\ r \in 1 .. m /\ t \in Nat /\ m <= t /\ t <= MaxBytes /\ MaxBytes \in Nat
        /\ j \in 0 .. fd_count - 1 /\ fd_count \in Nat /\ m <= BufSize /\ BufSize \in Nat
    BY <1>2, PeersAssumption, PollAssumption
       DEF ChatInv, Loop, OrderInv, TableInv, TypeOK, PeersTypeOK
  <1>5. Ordered(wrote[c], c, Reached(c)) /\ wrote[c] \in Seq(Byte)
    BY <1>2 DEF OrderInv, ChatInv, TableInv, TypeOK, PeersTypeOK
  <1>6. /\ wrote'[c] = wrote[c] \o Bytes(c, a, n)
        /\ \A d \in Clients \ {c} : wrote'[d] = wrote[d]
    BY <1>2 DEF ChatInv, TableInv, TypeOK, PeersTypeOK
  <1>7. Reached(c) = IF j > 0 /\ r = m THEN t ELSE a
    BY <1>2 DEF Reached, BetweenCopies
  <1> HIDE DEF n, r, m, t
  <1>8. /\ a \in Nat /\ n \in Nat /\ n >= 1 /\ Reached(c) \in Nat
        /\ Reached(c) = a \/ (a < Reached(c) /\ Reached(c) < a + 1 + BufSize)
    BY <1>1, <1>4, <1>7
  <1>9. Bytes(c, a, n) \in Seq(Byte)
    <2>1. \A k \in 1 .. n : a + k \in 1 .. MaxBytes
      BY <1>1, <1>4, <1>8
    <2>2. \A k \in 1 .. n : <<c, a + k>> \in Byte
      BY <2>1 DEF Byte
    <2>. QED BY <1>8, <2>2, IsASeq DEF Bytes
  <1>10. Ordered(wrote'[c], c, a + n)
    <2> HIDE DEF a
    <2>1. Ordered(wrote[c] \o Bytes(c, a, n), c, a + n)
      BY ONLY <1>5, <1>8, <1>9, OrderedAppend
    <2>. QED BY <1>6, <2>1
  <1>11. Reached(c)' = a + n
    <2>1. CASE n # r
      <3>1. Len(Bytes(c, t - (r - n), r - n)) = r - n
        <4>1. t - (r - n) \in Nat /\ r - n \in Nat
          BY <1>1, <1>4, <2>1
        <4>. QED BY ONLY <4>1, BytesFacts
      <3>2. Len(rest') = r - n /\ pc' = "send" /\ i' = i
        BY <1>3, <2>1, <3>1
      <3>3. r - n # m /\ t - (r - n) = a + n
        BY <1>1, <1>4, <2>1
      <3>4. ~BetweenCopies'
        BY <1>2, <3>2, <3>3 DEF BetweenCopies, m
      <3>. QED BY <1>2, <3>2, <3>3, <3>4 DEF Reached, t
    <2>2. CASE n = r
      <3>1. rest' = buf /\ j' = j + 1 /\ j + 1 > 0 /\ buf' = buf /\ (pc' = "send" => i' = i)
        BY <1>2, <1>3, <1>4, <2>2
      <3>2. BetweenCopies'
        BY <3>1 DEF BetweenCopies
      <3>3. Reached(c)' = t
        BY <1>2, <3>2 DEF Reached, t
      <3>. QED BY <1>4, <2>2, <3>3
    <2>. QED BY <2>1, <2>2
  <1>12. ASSUME NEW d \in Clients \ {c} PROVE Reached(d)' = Reached(d)
    BY <1>2, <1>3 DEF Reached
  <1>13. ASSUME NEW d \in Clients, ~rst'[d] PROVE Ordered(wrote'[d], d, Reached(d)')
    <2>1. CASE d = c
      BY <1>10, <1>11, <2>1
    <2>2. CASE d # c
      BY <1>2, <1>6, <1>12, <1>13, <2>2 DEF OrderInv
    <2>. QED BY <2>1, <2>2
  <1>14. Len(buf') <= BufSize
    BY <1>2, <1>4 DEF m
  <1>. QED BY <1>13, <1>14 DEF OrderInv

LEMMA FailOrdered ==
  ASSUME ChatInv, OrderInv, NEW c \in Clients, ChatSendFails(c)
  PROVE  OrderInv'
  <1>1. /\ pc = "send" /\ pfds[i].fd = c /\ rst[c]
        /\ UNCHANGED <<taken, rst, wrote, pfds, buf>>
        /\ pc' = "send" => i' = i
    BY DEF ChatSendFails, NextCopy, peerVars, ChatInv, TableInv, TypeOK
  <1>2. ASSUME NEW d \in Clients \ {c} PROVE Reached(d)' = Reached(d)
    BY <1>1 DEF Reached
  <1>3. ASSUME NEW d \in Clients, ~rst'[d] PROVE Ordered(wrote'[d], d, Reached(d)')
    BY <1>1, <1>2, <1>3 DEF OrderInv
  <1>. QED BY <1>1, <1>3 DEF OrderInv

LEMMA OrderInvStep ==
  ASSUME ChatInv, OrderInv, [ChatNext]_allVars
  PROVE  OrderInv'
  <1>1. CASE \/ Poll \/ Skip \/ EndScan \/ realloc_fails \/ PollFails \/ accept_logged
             \/ \E c \in Clients : accept_conn(c) \/ HandlerClose(c)
    <2>1. pc # "send" /\ pc' # "send" /\ UNCHANGED <<wrote, taken, rst>>
      BY <1>1 DEF Poll, Skip, EndScan, realloc_fails, PollFails, accept_logged, accept_conn,
                  HandlerClose, At, peerVars
    <2>. QED BY <2>1, StillOrdered
  <1>2. ASSUME NEW c \in Clients, ClientStep(c) /\ UNCHANGED chatVars
        PROVE  OrderInv'
    <2>1. taken' = taken /\ wrote' = wrote
      BY <1>2, PeerStepFacts DEF ClientStep, ChatInv, TableInv, TypeOK
    <2>2. \A d \in Clients : rst[d] => rst'[d]
      BY <1>2 DEF ClientStep, PeerStep, Connect, Write, Read, HangUp, Reset, Abort, DropAborted,
                  ChatInv, TableInv, Accounting, TypeOK, PeersTypeOK
    <2>3. UNCHANGED <<pc, pfds, i, buf, j, rest>>
      BY <1>2 DEF ClientStep, serverVars, chatVars
    <2>. QED BY <2>1, <2>2, <2>3, StillOrdered
  <1>3. CASE UNCHANGED allVars
    <2>1. UNCHANGED <<wrote, taken, rst, pfds, i, pc, buf, j, rest>>
      BY <1>3 DEF allVars, vars, peerVars, serverVars, chatVars
    <2>. QED BY <2>1, StillOrdered
  <1>4. ASSUME NEW c \in Clients, ChatRecv(c) \/ ChatSend(c) \/ ChatSendFails(c)
        PROVE  OrderInv'
    BY <1>4, RecvOrdered, SendOrdered, FailOrdered
  <1>. QED BY <1>1, <1>2, <1>3, <1>4 DEF ChatNext, ChatServe

(* The copies a client is sent come one after the other, each in the order *)
(* of its stream, whatever short sends cut them into.                      *)
THEOREM CopiesInOrderCorrect == ChatSpec => []CopiesInOrder
  <1>1. ChatInit => ChatInv /\ OrderInv
    <2> SUFFICES ASSUME ChatInit PROVE OrderInv
      BY ChatInvInit
    <2>1. pc = "poll" /\ \A c \in Clients : wrote[c] = <<>> /\ taken[c] = 0
      BY DEF ChatInit, Init, PeersInit
    <2>2. \A c \in Clients : Reached(c) = 0
      BY <2>1 DEF Reached
    <2>3. \A c \in Clients : Ordered(<<>>, c, 0)
      <3>1. Len(<<>>) = 0 /\ 1 .. Len(<<>>) - 1 = {}
        OBVIOUS
      <3>. QED BY <3>1 DEF Ordered
    <2>. QED BY <2>1, <2>2, <2>3 DEF OrderInv
  <1>2. ChatInv /\ OrderInv /\ [ChatNext]_allVars => ChatInv' /\ OrderInv'
    BY ChatInvStep, OrderInvStep
  <1>3. OrderInv => CopiesInOrder
    BY DEF OrderInv, Ordered, CopiesInOrder
  <1>. QED BY <1>1, <1>2, <1>3, PTL DEF ChatSpec
=============================================================================
