-------------------------- MODULE PollServerProofs --------------------------
(***************************************************************************)
(* Proofs about PollServer.  Three invariants, each inductive by itself,   *)
(* join the type invariant, the properties to be proved and the facts that *)
(* make them inductive: TableInv, ScanInv and EchoInv.  The facts are      *)
(*   Accounting     what the peers' counters say of each other;            *)
(*   HandHasClient  while handler() sends, slot i holds its client;        *)
(*   ScanKnows      what poll() reported still holds of every slot the     *)
(*                  scan has yet to visit and that poll() was given;       *)
(*   QueueKnows     the same for the listener.                             *)
(* With IndexInv, how far its index can be, each step of a scan leaves it  *)
(* less to do.                                                             *)
(***************************************************************************)
EXTENDS PollServer, FiniteSetTheorems, SequenceTheorems, TLAPS

Accounting ==
  \A c \in Clients :
    /\ taken[c] <= sent[c]
    /\ got[c] <= Len(wrote[c])
    /\ rst[c] => fin[c] /\ got[c] < Len(wrote[c])
    /\ link[c] = "aborted" => ~fin[c]

HandHasClient ==
  pc = "send" => /\ i \in 1 .. fd_count - 1
                 /\ pfds[i].fd \in Clients

ScanKnows ==
  /\ pc = "scan" /\ i = 0 => fd_count = polled
  /\ \A k \in Slots(fd_count), c \in Clients :
       /\ \/ pc = "scan" /\ i <= k
          \/ pc = "send" /\ i < k
       /\ k < polled
       /\ pfds[k].revents
       /\ pfds[k].fd = c
       => Readable(c)

QueueKnows ==
  pc = "scan" /\ i = 0 /\ pfds[0].revents
    => \/ Ready(Listener)
       \/ \E c \in Clients : link[c] = "closed" /\ ~fin[c]

TableInv == TypeOK /\ TableMatchesDescriptors /\ Accounting /\ HandHasClient

-----------------------------------------------------------------------------
(* The environment keeps its types, and never lowers a counter, takes back *)
(* a FIN or a RST, or opens or closes a connection the server holds.       *)
LEMMA PeerStepFacts ==
  ASSUME NEW c \in Clients, PeersTypeOK, Accounting, PeerStep(c)
  PROVE  /\ PeersTypeOK'
         /\ Accounting'
         /\ Open' = Open
         /\ taken' = taken
         /\ wrote' = wrote
         /\ \A d \in Clients : Readable(d) => Readable(d)'
  <1> USE PeersAssumption DEF PeersTypeOK, Accounting, Links, Open, Readable,
                              Unread, Unacked
  <1>1. CASE Connect(c)      BY <1>1 DEF Connect
  <1>2. CASE Write(c)        BY <1>2 DEF Write
  <1>3. CASE Read(c)         BY <1>3 DEF Read
  <1>4. CASE HangUp(c)       BY <1>4 DEF HangUp
  <1>5. CASE Reset(c)        BY <1>5 DEF Reset
  <1>6. CASE Abort(c)        BY <1>6 DEF Abort
  <1>7. CASE DropAborted(c)  BY <1>7 DEF DropAborted
  <1> QED  BY <1>1, <1>2, <1>3, <1>4, <1>5, <1>6, <1>7 DEF PeerStep

-----------------------------------------------------------------------------
(* Types, the array and the peers' accounting.                             *)
LEMMA TableInvInit ==
  ASSUME Init
  PROVE  TableInv
  <1> USE PeersAssumption, PollAssumption DEF Init, PeersInit, Slots
  <1>1. PICK garbage \in [Slots(InitSize) -> BOOLEAN] :
          pfds = [k \in Slots(InitSize) |->
                    [fd |-> IF k = 0 THEN Listener ELSE NoFd, revents |-> garbage[k]]]
    OBVIOUS
  <1>2. pfds \in [Slots(InitSize) -> PollFd]
    BY <1>1 DEF PollFd
  <1>3. TypeOK
    BY <1>2 DEF TypeOK, PeersTypeOK, Links, Pcs
  <1>4. TableMatchesDescriptors
    BY <1>1 DEF TableMatchesDescriptors, Open
  <1> QED
    BY <1>3, <1>4 DEF TableInv, Accounting, HandHasClient

(* At(d) names one slot, and the slot of a client is not the listener's.   *)
LEMMA AtClient ==
  ASSUME TypeOK, TableMatchesDescriptors, NEW c \in Clients, At(c)
  PROVE  /\ i \in 1 .. fd_count - 1
         /\ fd_count > 1
         /\ link[c] = "open"
  BY PollAssumption DEF At, TypeOK, TableMatchesDescriptors, Open, Slots

LEMMA AtListener ==
  ASSUME TypeOK, TableMatchesDescriptors, At(Listener)
  PROVE  i = 0
  BY DEF At, TypeOK, TableMatchesDescriptors, Slots

LEMMA AcceptTable ==
  ASSUME TableInv, NEW c \in Clients, accept_conn(c)
  PROVE  TableInv'
  <1> DEFINE size == IF fd_count = fd_size THEN 2 * fd_size ELSE fd_size
  <1> USE PollAssumption
  <1>1. PICK garbage \in [fd_size .. size - 1 -> BOOLEAN] :
          pfds' = [k \in Slots(size) |->
                     [fd      |-> IF k = fd_count THEN c
                                  ELSE IF k < fd_size THEN pfds[k].fd ELSE NoFd,
                      revents |-> IF k < fd_size THEN pfds[k].revents
                                  ELSE garbage[k]]]
    BY DEF accept_conn, add_to_pfds
  <1>2. /\ fd_size' = size
        /\ fd_count' = fd_count + 1
        /\ pc' = pc /\ pc = "scan" /\ i' = i + 1 /\ i < fd_count
        /\ link' = [link EXCEPT ![c] = "open"] /\ link[c] = "pending"
        /\ UNCHANGED <<sent, taken, wrote, got, fin, rst, buf, polled>>
    BY DEF accept_conn, add_to_pfds, At
  <1>3. /\ size \in Nat \ {0} /\ size >= fd_size /\ fd_count + 1 \in 1 .. size
        /\ fd_count \in Nat \ {0}
    BY DEF TableInv, TypeOK
  <1>4. pfds' \in [Slots(size) -> PollFd]
    <2> SUFFICES ASSUME NEW k \in Slots(size)
                 PROVE  pfds'[k] \in PollFd
      BY <1>1
    <2>1. k < fd_size => pfds[k] \in PollFd
      BY <1>3 DEF TableInv, TypeOK, Slots
    <2>2. k >= fd_size => garbage[k] \in BOOLEAN
      BY <1>3 DEF Slots
    <2> QED  BY <1>1, <1>3, <2>1, <2>2 DEF PollFd, TableInv, TypeOK, Slots
  <1>5. TypeOK'
    BY <1>2, <1>3, <1>4 DEF TableInv, TypeOK, PeersTypeOK, Links
  <1>6. /\ pfds'[fd_count].fd = c
        /\ \A k \in Slots(fd_count) : pfds'[k].fd = pfds[k].fd
    BY <1>1, <1>3 DEF Slots, TableInv, TypeOK
  <1>7. Open' = Open \cup {c} /\ c \notin Open
    BY <1>2 DEF Open, TableInv, TypeOK, PeersTypeOK
  <1>8. TableMatchesDescriptors'
    <2> USE <1>2, <1>3, <1>6, <1>7 DEF TableInv, TableMatchesDescriptors, Slots
    <2>1. fd_count' <= fd_size' /\ pfds'[0].fd = Listener
      OBVIOUS
    <2>2. \A k \in 1 .. fd_count - 1 : pfds[k].fd \in Open
      OBVIOUS
    <2>3. ASSUME NEW j \in Slots(fd_count'), NEW k \in Slots(fd_count'),
                 pfds'[j].fd = pfds'[k].fd
          PROVE  j = k
      <3>1. CASE j = fd_count /\ k < fd_count
        BY <2>2, <2>3, <3>1
      <3>2. CASE j < fd_count /\ k = fd_count
        BY <2>2, <2>3, <3>2
      <3>3. CASE j < fd_count /\ k < fd_count
        <4>1. j \in Slots(fd_count) /\ k \in Slots(fd_count)
          BY <2>3, <3>3
        <4>2. pfds[j].fd = pfds[k].fd
          BY ONLY <4>1, <1>6, <2>3
        <4> QED  BY ONLY <4>1, <4>2, TableMatchesDescriptors
                    DEF TableMatchesDescriptors
      <3> QED  BY <3>1, <3>2, <3>3
    <2>4. ASSUME NEW k \in 1 .. fd_count' - 1
          PROVE  pfds'[k].fd \in Open'
      <3>1. CASE k = fd_count
        BY ONLY <1>6, <1>7, <3>1
      <3>2. CASE k # fd_count
        <4>1. k \in 1 .. fd_count - 1 /\ k \in Slots(fd_count)
          BY ONLY <2>4, <3>2, <1>2, <1>3 DEF Slots
        <4>2. pfds[k].fd \in Open /\ pfds'[k].fd = pfds[k].fd
          BY ONLY <4>1, <2>2, <1>6
        <4> QED  BY ONLY <4>2, <1>7
      <3> QED  BY <3>1, <3>2
    <2>5. ASSUME NEW d \in Open'
          PROVE  \E k \in 1 .. fd_count' - 1 : pfds'[k].fd = d
      <3>1. CASE d = c
        BY <3>1
      <3>2. CASE d \in Open
        BY <3>2
      <3> QED  BY <3>1, <3>2
    <2>6. {pfds'[k].fd : k \in 1 .. fd_count' - 1} = Open'
      BY ONLY <2>4, <2>5, Zenon
    <2> QED  BY <2>1, <2>3, <2>6
  <1>9. Accounting' /\ HandHasClient'
    BY <1>2 DEF Accounting, HandHasClient, TableInv, TypeOK, PeersTypeOK
  <1> QED  BY <1>5, <1>8, <1>9 DEF TableInv

LEMMA CloseTable ==
  ASSUME TableInv, NEW c \in Clients, HandlerClose(c)
  PROVE  TableInv'
  <1> USE PollAssumption
  <1>1. /\ pfds' = [pfds EXCEPT ![i] = pfds[fd_count - 1]]
        /\ fd_count' = fd_count - 1 /\ fd_size' = fd_size
        /\ pc' = pc /\ pc = "scan" /\ i' = i + 1
        /\ link' = [link EXCEPT ![c] = "closed"] /\ pfds[i].fd = c
        /\ UNCHANGED <<sent, taken, wrote, got, fin, rst, buf, polled>>
    BY DEF HandlerClose, del_from_pfds, At
  <1>2. i \in 1 .. fd_count - 1 /\ fd_count > 1 /\ link[c] = "open"
    BY AtClient DEF HandlerClose, TableInv
  <1>3. TypeOK'
    BY <1>1, <1>2 DEF TableInv, TypeOK, PeersTypeOK, Links, Slots
  <1>4. Open' = Open \ {c}
    BY <1>1 DEF Open, TableInv, TypeOK, PeersTypeOK
  <1>5. \A k \in Slots(fd_count - 1) :
          pfds'[k] = IF k = i THEN pfds[fd_count - 1] ELSE pfds[k]
    BY <1>1, <1>2 DEF TableInv, TypeOK, Slots
  <1>6. TableMatchesDescriptors'
    <2> USE <1>1, <1>2, <1>4, <1>5 DEF TableInv, TypeOK, TableMatchesDescriptors, Slots
    <2>1. fd_count' <= fd_size' /\ pfds'[0].fd = Listener
      OBVIOUS
    <2>2. ASSUME NEW j \in Slots(fd_count'), NEW k \in Slots(fd_count'),
                 pfds'[j].fd = pfds'[k].fd
          PROVE  j = k
      BY <2>2
    <2>3. ASSUME NEW k \in 1 .. fd_count' - 1
          PROVE  pfds'[k].fd \in Open'
      OBVIOUS
    <2>4. ASSUME NEW d \in Open'
          PROVE  \E k \in 1 .. fd_count' - 1 : pfds'[k].fd = d
      <3>1. PICK k \in 1 .. fd_count - 1 : pfds[k].fd = d
        BY <2>4
      <3>2. k # i
        BY <3>1, <2>4
      <3>3. CASE k = fd_count - 1
        BY <3>1, <3>2, <3>3
      <3>4. CASE k # fd_count - 1
        BY <3>1, <3>2, <3>4
      <3> QED  BY <3>3, <3>4
    <2>5. {pfds'[k].fd : k \in 1 .. fd_count' - 1} = Open'
      BY ONLY <2>3, <2>4, Zenon
    <2> QED  BY <2>1, <2>2, <2>5
  <1>7. Accounting' /\ HandHasClient'
    BY <1>1 DEF Accounting, HandHasClient, TableInv, TypeOK, PeersTypeOK
  <1> QED  BY <1>3, <1>6, <1>7 DEF TableInv

LEMMA PollTable ==
  ASSUME TableInv, Poll
  PROVE  TableInv'
  <1> USE DEF TableInv
  <1>1. pfds' \in [Slots(fd_size) -> PollFd]
    <2> SUFFICES ASSUME NEW k \in Slots(fd_size)
                 PROVE  [pfds[k] EXCEPT !.revents = Ready(pfds[k].fd)] \in PollFd
      BY DEF Poll, TypeOK
    <2>1. Ready(pfds[k].fd) \in BOOLEAN
      BY DEF Ready, Readable, TypeOK, PeersTypeOK
    <2> QED  BY <2>1 DEF TypeOK, PollFd
  <1>2. TypeOK'
    BY <1>1 DEF Poll, TypeOK, PeersTypeOK, peerVars, Pcs
  <1>3. \A k \in Slots(fd_size) : pfds'[k].fd = pfds[k].fd
    BY DEF Poll, TypeOK, PollFd
  <1>4. TableMatchesDescriptors'
    <2>1. Open' = Open /\ fd_count' = fd_count /\ fd_size' = fd_size
      BY DEF Poll, Open, peerVars
    <2>2. \A k \in Slots(fd_count) : pfds'[k].fd = pfds[k].fd
      BY <1>3 DEF TypeOK, Slots
    <2>3. {pfds'[k].fd : k \in 1 .. fd_count - 1} = {pfds[k].fd : k \in 1 .. fd_count - 1}
      <3>1. \A k \in 1 .. fd_count - 1 : pfds'[k].fd = pfds[k].fd
        BY <2>2 DEF TypeOK, Slots
      <3> QED  BY ONLY <3>1, Zenon
    <2>4. pfds'[0].fd = pfds[0].fd
      BY <2>2 DEF TypeOK, Slots
    <2> QED  BY <2>1, <2>2, <2>3, <2>4 DEF TableMatchesDescriptors
  <1>5. Accounting' /\ HandHasClient'
    BY DEF Poll, Accounting, HandHasClient, peerVars
  <1> QED  BY <1>2, <1>4, <1>5

LEMMA RecvTable ==
  ASSUME TableInv, NEW c \in Clients, HandlerRecv(c)
  PROVE  TableInv'
  <1> DEFINE n == Lesser(BufSize, Unread(c))
  <1> USE PollAssumption, PeersAssumption DEF TableInv
  <1>1. n \in Nat /\ n > 0 /\ taken[c] + n <= sent[c]
    BY DEF HandlerRecv, Lesser, Unread, TypeOK, PeersTypeOK
  <1>2. buf' \in Seq(Byte)
    <2>1. buf' = [k \in 1 .. n |-> <<c, taken[c] + k>>]
      BY DEF HandlerRecv
    <2>2. \A k \in 1 .. n : <<c, taken[c] + k>> \in Byte
      BY <1>1 DEF Byte, TypeOK, PeersTypeOK
    <2>3. buf' \in [1 .. n -> Byte]
      BY <2>1, <2>2
    <2> QED  BY ONLY <1>1, <2>3, SeqDef
  <1>3. taken' = [taken EXCEPT ![c] = taken[c] + n] /\ taken[c] + n \in 0 .. MaxBytes
    BY <1>1 DEF HandlerRecv, TypeOK, PeersTypeOK
  <1>4. TypeOK'
    BY <1>2, <1>3 DEF HandlerRecv, TypeOK, PeersTypeOK, Pcs
  <1>5. TableMatchesDescriptors'
    BY DEF HandlerRecv, TableMatchesDescriptors, Open
  <1>6. Accounting'
    BY <1>1, <1>3 DEF HandlerRecv, Accounting, TypeOK, PeersTypeOK
  <1>7. HandHasClient'
    BY AtClient DEF HandlerRecv, HandHasClient, At
  <1> QED  BY <1>4, <1>5, <1>6, <1>7

(* Counting the bytes a send() moves.                                      *)
LEMMA SendCounts ==
  ASSUME TypeOK, NEW c \in Clients, Room(c) > 0
  PROVE  LET n == Lesser(Len(buf), Room(c))
         IN  /\ n \in 0 .. Len(buf)
             /\ SubSeq(buf, 1, n) \in Seq(Byte)
             /\ SubSeq(buf, n + 1, Len(buf)) \in Seq(Byte)
             /\ wrote[c] \o SubSeq(buf, 1, n) \in Seq(Byte)
             /\ Len(wrote[c] \o SubSeq(buf, 1, n)) = Len(wrote[c]) + n
  <1> DEFINE n == Lesser(Len(buf), Room(c))
  <1> USE PeersAssumption DEF TypeOK, PeersTypeOK
  <1>1. Room(c) \in Nat
    BY DEF Room, Unacked
  <1>2. n \in 0 .. Len(buf)
    BY <1>1 DEF Lesser
  <1>3. SubSeq(buf, 1, n) \in Seq(Byte) /\ Len(SubSeq(buf, 1, n)) = n
    BY <1>2, SubSeqProperties
  <1>4. SubSeq(buf, n + 1, Len(buf)) \in Seq(Byte)
    BY <1>2, SubSeqProperties
  <1> QED  BY <1>2, <1>3, <1>4, ConcatProperties

LEMMA SendTable ==
  ASSUME TableInv, NEW c \in Clients, HandlerSend(c)
  PROVE  TableInv'
  <1> DEFINE n == Lesser(Len(buf), Room(c))
             w == wrote[c] \o SubSeq(buf, 1, n)
  <1> USE PollAssumption, PeersAssumption DEF TableInv
  <1>1. /\ wrote' = [wrote EXCEPT ![c] = w]
        /\ buf' = SubSeq(buf, n + 1, Len(buf))
        /\ Room(c) > 0
        /\ i' \in {i, i + 1} /\ pc' \in {pc, "scan"}
        /\ UNCHANGED <<link, sent, taken, got, fin, rst, pfds, fd_count, fd_size, polled>>
    BY DEF HandlerSend
  <1>2. /\ n \in 0 .. Len(buf)
        /\ w \in Seq(Byte) /\ Len(w) = Len(wrote[c]) + n
        /\ buf' \in Seq(Byte)
    BY <1>1, SendCounts
  <1>3. Len(w) \in Nat /\ Len(w) >= Len(wrote[c])
    <2>1. Len(wrote[c]) \in Nat /\ Len(buf) \in Nat
      BY DEF TypeOK, PeersTypeOK
    <2> QED  BY <1>2, <2>1
  <1> HIDE DEF w, n
  <1>4. TypeOK'
    BY <1>1, <1>2 DEF TypeOK, PeersTypeOK, Pcs
  <1>5. TableMatchesDescriptors'
    BY <1>1 DEF TableMatchesDescriptors, Open
  <1>6. Accounting'
    BY <1>1, <1>3 DEF Accounting, TypeOK, PeersTypeOK
  <1>7. HandHasClient'
    BY DEF HandlerSend, HandHasClient
  <1> QED  BY <1>4, <1>5, <1>6, <1>7

LEMMA TableInvStep ==
  ASSUME TableInv, [Next]_vars
  PROVE  TableInv'
  <1> USE DEF TableInv
  <1>1. CASE Poll  BY <1>1, PollTable
  <1>2. ASSUME NEW c \in Clients, accept_conn(c)  PROVE TableInv'
    BY <1>2, AcceptTable
  <1>3. ASSUME NEW c \in Clients, HandlerRecv(c)  PROVE TableInv'
    BY <1>3, RecvTable
  <1>4. ASSUME NEW c \in Clients, HandlerClose(c)  PROVE TableInv'
    BY <1>4, CloseTable
  <1>5. ASSUME NEW c \in Clients, HandlerSend(c)  PROVE TableInv'
    BY <1>5, SendTable
  <1>6. CASE \/ PollFails \/ Skip \/ EndScan \/ accept_fails \/ realloc_fails
             \/ \E c \in Clients : HandlerSendFails(c)
    <2>1. /\ UNCHANGED <<peerVars, pfds, fd_count, fd_size, polled>>
          /\ (i' = i \/ i' = i + 1) /\ (buf' = buf \/ buf' = <<>>)
          /\ pc' \in Pcs /\ (pc' = "send" => pc = "send" /\ i' = i)
      BY <1>6 DEF PollFails, Skip, EndScan, accept_fails, realloc_fails, HandlerSendFails, Pcs, TypeOK
    <2>2. TypeOK'
      <3>1. i' \in Nat
        BY <2>1 DEF TypeOK
      <3>2. buf' \in Seq(Byte)
        <4>1. buf' = buf \/ buf' = <<>>
          BY <2>1
        <4> QED  BY <4>1, EmptySeq DEF TypeOK
      <3> QED  BY <2>1, <3>1, <3>2 DEF TypeOK, PeersTypeOK, peerVars
    <2>3. TableMatchesDescriptors' /\ HandHasClient'
      BY <2>1 DEF TableMatchesDescriptors, Open, HandHasClient, peerVars
    <2>4. Accounting'
      BY <2>1 DEF Accounting, peerVars
    <2> QED  BY <2>2, <2>3, <2>4
  <1>7. ASSUME NEW c \in Clients, ClientStep(c)  PROVE TableInv'
    <2>1. PeersTypeOK' /\ Accounting' /\ Open' = Open /\ UNCHANGED serverVars
      BY <1>7, PeerStepFacts DEF ClientStep, TypeOK
    <2>2. TypeOK'
      BY <2>1 DEF TypeOK, serverVars
    <2>3. TableMatchesDescriptors' /\ HandHasClient'
      BY <2>1 DEF TableMatchesDescriptors, HandHasClient, serverVars
    <2> QED  BY <2>1, <2>2, <2>3
  <1>8. CASE UNCHANGED vars
    <2>1. TypeOK'
      BY <1>8 DEF vars, peerVars, serverVars, TypeOK, PeersTypeOK
    <2>2. TableMatchesDescriptors' /\ HandHasClient'
      BY <1>8 DEF vars, peerVars, serverVars, TableMatchesDescriptors, Open,
                  HandHasClient
    <2>3. Accounting'
      BY <1>8 DEF vars, peerVars, Accounting
    <2> QED  BY <2>1, <2>2, <2>3
  <1> QED
    BY <1>1, <1>2, <1>3, <1>4, <1>5, <1>6, <1>7, <1>8 DEF Next, ServerStep, Serve

(* The variables keep their types.                                         *)
THEOREM TypeCorrect == Spec => []TypeOK
  <1>1. Init => TableInv
    BY TableInvInit
  <1>2. TableInv /\ [Next]_vars => TableInv'
    BY TableInvStep
  <1>3. TableInv => TypeOK
    BY DEF TableInv
  <1> QED  BY <1>1, <1>2, <1>3, PTL DEF Spec

(* After every step the array of poll_server2.c lists the listener and     *)
(* exactly the open connections, each once, and fits its memory, for any   *)
(* number of clients, any first size and any descriptor limit.             *)
THEOREM TableCorrect == Spec => []TableMatchesDescriptors
  <1>1. Init => TableInv
    BY TableInvInit
  <1>2. TableInv /\ [Next]_vars => TableInv'
    BY TableInvStep
  <1>3. TableInv => TableMatchesDescriptors
    BY DEF TableInv
  <1> QED  BY <1>1, <1>2, <1>3, PTL DEF Spec

-----------------------------------------------------------------------------
(* What the scan knows.                                                    *)
ScanInv == TableInv /\ ScanKnows /\ QueueKnows

(* Only a dropped connection empties the queue without an accept().        *)
LEMMA QueueKept ==
  ASSUME NEW c \in Clients, PeersTypeOK, Accounting, PeerStep(c),
         \/ Waiting \cup Aborted # {}
         \/ \E d \in Clients : link[d] = "closed" /\ ~fin[d]
  PROVE  \/ (Waiting \cup Aborted # {})'
         \/ \E d \in Clients : link'[d] = "closed" /\ ~fin'[d]
  <1> USE DEF PeersTypeOK, Accounting, Waiting, Aborted
  <1>1. PICK d \in Clients : \/ link[d] \in {"pending", "aborted"}
                             \/ link[d] = "closed" /\ ~fin[d]
    OBVIOUS
  <1>2. \/ link'[d] \in {"pending", "aborted"}
        \/ link'[d] = "closed" /\ ~fin'[d]
    BY <1>1 DEF PeerStep, Connect, Write, Read, HangUp, Reset, Abort, DropAborted
  <1> QED  BY <1>2

LEMMA PollScan ==
  ASSUME ScanInv, Poll
  PROVE  ScanKnows' /\ QueueKnows'
  <1> USE PollAssumption DEF ScanInv, TableInv
  <1>1. \A k \in Slots(fd_count) : /\ pfds'[k].revents = Ready(pfds[k].fd)
                                    /\ pfds'[k].fd = pfds[k].fd
    BY DEF Poll, TypeOK, PollFd, Slots
  <1>2. /\ UNCHANGED <<fd_count, sent, taken, fin, rst, link>>
        /\ i' = 0 /\ pc' = "scan" /\ polled' = fd_count
    BY DEF Poll, peerVars
  <1>3. ScanKnows'
    BY <1>1, <1>2 DEF ScanKnows, Ready, Readable, Unread
  <1>4. QueueKnows'
    <2>1. pfds'[0].revents = Ready(Listener)
      BY <1>1 DEF TableMatchesDescriptors, TypeOK, Slots
    <2>2. Ready(Listener)' = Ready(Listener)
      BY <1>2 DEF Ready, Waiting, Aborted
    <2> QED  BY <2>1, <2>2 DEF QueueKnows
  <1> QED  BY <1>3, <1>4

(* A step that moves the scan on, and leaves the slots still to be visited *)
(* and what their connections have for recv() alone, keeps ScanKnows.      *)
LEMMA ScanMovesOn ==
  ASSUME ScanInv,
         pc \in {"scan", "send"},
         \/ pc' = "scan" /\ i' = i + 1
         \/ pc' = "send" /\ i' = i,
         polled' = polled,
         \A k \in Slots(fd_count') : k > i /\ k < polled
            => k < fd_count /\ pfds'[k] = pfds[k],
         \A k \in Slots(fd_count), d \in Clients :
            k > i /\ pfds[k].fd = d /\ Readable(d) => Readable(d)'
  PROVE  ScanKnows' /\ QueueKnows'
  <1>1. i \in Nat /\ fd_count \in Nat
    BY DEF ScanInv, TableInv, TypeOK
  <1>2. QueueKnows'
    <2>1. pc' = "scan" => i' # 0
      BY <1>1
    <2> QED  BY <2>1 DEF QueueKnows
  <1>3. ASSUME NEW k \in Slots(fd_count'), k < polled', pfds'[k].revents,
               NEW d \in Clients, pfds'[k].fd = d,
               \/ pc' = "scan" /\ i' <= k
               \/ pc' = "send" /\ i' < k
        PROVE  Readable(d)'
    <2>1. k > i /\ k < polled /\ k \in Nat
      BY <1>1, <1>3 DEF Slots
    <2>2. k \in Slots(fd_count) /\ pfds'[k] = pfds[k]
      BY <1>1, <1>3, <2>1 DEF Slots
    <2>3. Readable(d)
      BY <1>1, <1>3, <2>1, <2>2 DEF ScanInv, ScanKnows
    <2> QED  BY <1>3, <2>1, <2>2, <2>3
  <1>4. pc' = "scan" /\ i' = 0 => fd_count' = polled'
    BY <1>1
  <1> QED  BY <1>2, <1>3, <1>4 DEF ScanKnows

LEMMA ScanInvStep ==
  ASSUME ScanInv, [Next]_vars
  PROVE  ScanInv'
  <1> USE PollAssumption
  <1>0. TableInv /\ TableInv'
    BY TableInvStep DEF ScanInv
  <1>1. CASE Poll
    BY <1>0, <1>1, PollScan DEF ScanInv
  <1>2. CASE PollFails \/ EndScan \/ accept_fails \/ realloc_fails
    <2>1. pc' \notin {"scan", "send"}
      BY <1>2 DEF PollFails, EndScan, accept_fails, realloc_fails
    <2> QED  BY <1>0, <2>1 DEF ScanInv, ScanKnows, QueueKnows
  <1>3. CASE Skip
    <2>1. /\ pc = "scan" /\ pc' = "scan" /\ i' = i + 1 /\ polled' = polled
          /\ UNCHANGED <<sent, taken, fin, rst, pfds, fd_count>>
      BY <1>3 DEF Skip, peerVars
    <2>2. \A k \in Slots(fd_count') : k < fd_count /\ pfds'[k] = pfds[k]
      BY <1>0, <2>1 DEF TableInv, TypeOK, Slots
    <2>3. \A d \in Clients : Readable(d)' = Readable(d)
      BY <2>1 DEF Readable, Unread
    <2> QED  BY <1>0, <2>1, <2>2, <2>3, ScanMovesOn DEF ScanInv
  <1>4. ASSUME NEW c \in Clients, accept_conn(c)  PROVE ScanInv'
    <2>1. i = 0 /\ pc = "scan" /\ fd_count = polled
      BY <1>0, <1>4, AtListener DEF accept_conn, At, TableInv, ScanInv, ScanKnows
    <2>2. /\ pc' = pc /\ i' = i + 1 /\ polled' = polled /\ fd_count' = fd_count + 1
          /\ UNCHANGED <<sent, taken, fin, rst>>
      BY <1>4 DEF accept_conn, add_to_pfds
    <2>3. \A k \in Slots(fd_count) : pfds'[k] = pfds[k]
      <3> SUFFICES ASSUME NEW k \in Slots(fd_count)
                   PROVE  pfds'[k] = pfds[k]
        OBVIOUS
      <3>1. /\ k < fd_size /\ k # fd_count
            /\ k \in Slots(fd_size) /\ k \in Slots(2 * fd_size)
        BY <1>0 DEF TableInv, TypeOK, Slots
      <3>2. pfds'[k] = [fd |-> pfds[k].fd, revents |-> pfds[k].revents]
        BY <1>4, <3>1 DEF accept_conn, add_to_pfds
      <3> QED  BY <1>0, <3>1, <3>2 DEF TableInv, TypeOK, PollFd
    <2>4. \A k \in Slots(fd_count') : k < polled => k < fd_count /\ pfds'[k] = pfds[k]
      BY <1>0, <2>1, <2>2, <2>3 DEF TableInv, TypeOK, Slots
    <2>5. \A d \in Clients : Readable(d)' = Readable(d)
      BY <2>2 DEF Readable, Unread
    <2> QED  BY <1>0, <2>1, <2>2, <2>4, <2>5, ScanMovesOn DEF ScanInv
  <1>5. ASSUME NEW c \in Clients, HandlerRecv(c)  PROVE ScanInv'
    <2>1. /\ pc = "scan" /\ pc' = "send" /\ i < fd_count /\ pfds[i].fd = c
          /\ UNCHANGED <<sent, fin, rst, pfds, fd_count, i, polled>>
      BY <1>5 DEF HandlerRecv, At
    <2>2. ASSUME NEW d \in Clients, d # c
          PROVE  taken'[d] = taken[d]
      BY <1>0, <1>5, <2>2 DEF HandlerRecv, TableInv, TypeOK, PeersTypeOK
    <2>3. ASSUME NEW k \in Slots(fd_count), k > i
          PROVE  pfds[k].fd # c
      <3>1. i \in Slots(fd_count) /\ i # k
        BY <1>0, <2>1, <2>3 DEF TableInv, TypeOK, Slots
      <3> QED  BY <1>0, <2>1, <2>3, <3>1 DEF TableInv, TableMatchesDescriptors
    <2>4. \A k \in Slots(fd_count), d \in Clients :
             k > i /\ pfds[k].fd = d /\ Readable(d) => Readable(d)'
      BY <2>1, <2>2, <2>3 DEF Readable, Unread
    <2>5. \A k \in Slots(fd_count') : k < fd_count /\ pfds'[k] = pfds[k]
      BY <1>0, <2>1 DEF TableInv, TypeOK, Slots
    <2> QED  BY <1>0, <2>1, <2>4, <2>5, ScanMovesOn DEF ScanInv
  <1>6. ASSUME NEW c \in Clients, HandlerClose(c)  PROVE ScanInv'
    <2>1. /\ pc = "scan" /\ pc' = "scan" /\ i' = i + 1 /\ polled' = polled
          /\ pfds' = [pfds EXCEPT ![i] = pfds[fd_count - 1]]
          /\ fd_count' = fd_count - 1
          /\ UNCHANGED <<sent, taken, fin, rst>>
      BY <1>6 DEF HandlerClose, del_from_pfds, At
    <2>2. \A k \in Slots(fd_count') : k > i => k < fd_count /\ pfds'[k] = pfds[k]
      BY <1>0, <2>1 DEF TableInv, TypeOK, Slots
    <2>3. \A d \in Clients : Readable(d)' = Readable(d)
      BY <2>1 DEF Readable, Unread
    <2> QED  BY <1>0, <2>1, <2>2, <2>3, ScanMovesOn DEF ScanInv
  <1>7. ASSUME NEW c \in Clients, HandlerSend(c) \/ HandlerSendFails(c)
        PROVE  ScanInv'
    <2>1. /\ pc = "send"
          /\ \/ pc' = "scan" /\ i' = i + 1
             \/ pc' = "send" /\ i' = i
             \/ pc' = "killed"
          /\ UNCHANGED <<sent, taken, fin, rst, pfds, fd_count, polled>>
      BY <1>7 DEF HandlerSend, HandlerSendFails, peerVars
    <2>2. CASE pc' = "killed"
      BY <1>0, <2>2 DEF ScanInv, ScanKnows, QueueKnows
    <2>3. CASE pc' # "killed"
      <3>1. \A k \in Slots(fd_count') : k < fd_count /\ pfds'[k] = pfds[k]
        BY <1>0, <2>1 DEF TableInv, TypeOK, Slots
      <3>2. \A d \in Clients : Readable(d)' = Readable(d)
        BY <2>1 DEF Readable, Unread
      <3> QED  BY <1>0, <2>1, <2>3, <3>1, <3>2, ScanMovesOn DEF ScanInv
    <2> QED  BY <2>2, <2>3
  <1>8. ASSUME NEW c \in Clients, ClientStep(c)  PROVE ScanInv'
    <2>1. /\ \A d \in Clients : Readable(d) => Readable(d)'
          /\ UNCHANGED serverVars
      BY <1>0, <1>8, PeerStepFacts DEF ClientStep, TableInv, TypeOK
    <2>2. ScanKnows'
      BY <2>1 DEF ScanInv, ScanKnows, serverVars
    <2>3. QueueKnows'
      BY <1>0, <1>8, <2>1, QueueKept
      DEF ScanInv, QueueKnows, serverVars, Ready, ClientStep, TableInv, TypeOK
    <2> QED  BY <1>0, <2>2, <2>3 DEF ScanInv
  <1>9. CASE UNCHANGED vars
    BY <1>0, <1>9 DEF vars, peerVars, serverVars, ScanInv, ScanKnows, QueueKnows,
                 Ready, Readable, Unread, Waiting, Aborted
  <1> QED  BY <1>1, <1>2, <1>3, <1>4, <1>5, <1>6, <1>7, <1>8, <1>9 DEF Next, ServerStep, Serve

(* In every scan of poll_server2.c, for every number of clients: recv()    *)
(* waits only on the connection that scan accepted, accept() only when the *)
(* queued connection was dropped.                                          *)
THEOREM StallsCorrect == Spec => []StallsAreExplained
  <1>1. Init => ScanInv
    BY TableInvInit DEF Init, ScanInv, ScanKnows, QueueKnows
  <1>2. ScanInv /\ [Next]_vars => ScanInv'
    BY ScanInvStep
  <1>3. ScanInv => StallsAreExplained
    <2> SUFFICES ASSUME ScanInv  PROVE StallsAreExplained
      OBVIOUS
    <2>1. ASSUME NEW c \in Clients, At(c), ~Readable(c), i < polled
          PROVE  FALSE
      BY <2>1 DEF ScanInv, ScanKnows, At, TableInv, TypeOK, Slots
    <2>2. ASSUME At(Listener), ~Ready(Listener)
          PROVE  \E c \in Clients : link[c] = "closed" /\ ~fin[c]
      BY <2>2, AtListener DEF ScanInv, QueueKnows, At, TableInv
    <2>3. i \in Nat /\ polled \in Nat
      BY DEF ScanInv, TableInv, TypeOK
    <2> QED  BY <2>1, <2>2, <2>3 DEF StallsAreExplained
  <1> QED  BY <1>1, <1>2, <1>3, PTL DEF Spec

-----------------------------------------------------------------------------
(* The bytes.                                                              *)
LEMMA StreamAppend ==
  ASSUME NEW c, NEW m \in Nat, NEW n \in Nat
  PROVE  Stream(c, m) \o [k \in 1 .. n |-> <<c, m + k>>] = Stream(c, m + n)
  <1> DEFINE S == {<<c, k>> : k \in Nat}
             t == [k \in 1 .. n |-> <<c, m + k>>]
  <1>1. Stream(c, m) \in Seq(S) /\ Len(Stream(c, m)) = m
    BY DEF Stream
  <1>2. t \in Seq(S) /\ Len(t) = n
    OBVIOUS
  <1>3. Stream(c, m + n) \in Seq(S) /\ Len(Stream(c, m + n)) = m + n
    BY DEF Stream
  <1>4. /\ Stream(c, m) \o t \in Seq(S) /\ Len(Stream(c, m) \o t) = m + n
        /\ \A k \in 1 .. m + n : (Stream(c, m) \o t)[k] =
              IF k <= m THEN Stream(c, m)[k] ELSE t[k - m]
    <2> HIDE DEF t, S
    <2> DEFINE u == Stream(c, m)
    <2>1. u \in Seq(S) /\ Len(u) = m
      BY <1>1
    <2> HIDE DEF u
    <2>2. /\ u \o t \in Seq(S) /\ Len(u \o t) = m + n
          /\ \A k \in 1 .. m + n : (u \o t)[k] = IF k <= m THEN u[k] ELSE t[k - m]
      BY <2>1, <1>2, ConcatProperties
    <2> QED  BY <2>2 DEF u
  <1>5. \A k \in 1 .. m + n : (Stream(c, m) \o t)[k] = Stream(c, m + n)[k]
    BY <1>4 DEF Stream
  <1> QED  BY <1>3, <1>4, <1>5, SeqEqual

LEMMA PrefixOfStream ==
  ASSUME NEW c, NEW n \in Nat, NEW s \in Seq(Byte), NEW t \in Seq(Byte),
         s \o t = Stream(c, n)
  PROVE  Len(s) <= n /\ s = Stream(c, Len(s))
  <1>1. /\ Len(s) \in Nat /\ Len(t) \in Nat /\ Len(s \o t) = Len(s) + Len(t)
        /\ \A k \in 1 .. Len(s) : (s \o t)[k] = s[k]
    BY ConcatProperties
  <1>2. Len(Stream(c, n)) = n
    BY DEF Stream
  <1>3. Len(s) <= n
    BY <1>1, <1>2
  <1>4. \A k \in 1 .. Len(s) : s[k] = <<c, k>>
    <2>1. \A k \in 1 .. Len(s) : s[k] = Stream(c, n)[k]
      BY <1>1
    <2>2. \A k \in 1 .. Len(s) : Stream(c, n)[k] = <<c, k>>
      BY <1>1, <1>3 DEF Stream
    <2> QED  BY <2>1, <2>2
  <1>5. s = [k \in 1 .. Len(s) |-> s[k]]
    OBVIOUS
  <1> QED  BY <1>3, <1>4, <1>5 DEF Stream

LEMMA SplitConcat ==
  ASSUME NEW s \in Seq(Byte), NEW b \in Seq(Byte), NEW n \in 0 .. Len(b)
  PROVE  (s \o SubSeq(b, 1, n)) \o SubSeq(b, n + 1, Len(b)) = s \o b
  <1> DEFINE h == SubSeq(b, 1, n)
             t == SubSeq(b, n + 1, Len(b))
  <1>1. h \in Seq(Byte) /\ Len(h) = n /\ \A k \in 1 .. n : h[k] = b[k]
    BY SubSeqProperties
  <1>2. /\ t \in Seq(Byte) /\ Len(t) = Len(b) - n
        /\ \A k \in 1 .. Len(b) - n : t[k] = b[n + k]
    BY SubSeqProperties
  <1>3. h \o t = b
    <2> HIDE DEF h, t
    <2>1. /\ h \o t \in Seq(Byte) /\ Len(h \o t) = Len(b)
          /\ \A k \in 1 .. Len(b) : (h \o t)[k] = IF k <= n THEN h[k] ELSE t[k - n]
      BY <1>1, <1>2, ConcatProperties
    <2>2. \A k \in 1 .. Len(b) : (h \o t)[k] = b[k]
      BY <1>1, <1>2, <2>1
    <2> QED  BY <2>1, <2>2, SeqEqual
  <1> HIDE DEF h, t
  <1>4. (s \o h) \o t = s \o (h \o t)
    BY <1>1, <1>2, ConcatAssociative
  <1> QED  BY <1>3, <1>4 DEF h, t

EchoInv ==
  /\ TableInv
  /\ NoEchoLost
  /\ pc = "killed" => \E c \in Clients : rst[c]

(* A step that leaves the bytes alone, or drops what it has in hand for a  *)
(* reset connection.                                                       *)
LEMMA EchoKept ==
  ASSUME NoEchoLost,
         taken' = taken, wrote' = wrote,
         \A c \in Clients : ~rst'[c] => ~rst[c] /\ InHand(c)' = InHand(c)
  PROVE  NoEchoLost'
  <1> SUFFICES ASSUME NEW c \in Clients
               PROVE  /\ ~rst'[c] => wrote[c] \o InHand(c)' = Stream(c, taken[c])
                      /\ Len(wrote[c]) <= taken[c]
                      /\ wrote[c] = Stream(c, Len(wrote[c]))
    BY DEF NoEchoLost, Stream
  <1> QED  BY DEF NoEchoLost

LEMMA RecvEcho ==
  ASSUME TableInv, NoEchoLost, NEW c \in Clients, HandlerRecv(c)
  PROVE  NoEchoLost'
  <1> DEFINE n == Lesser(BufSize, Unread(c))
             m == taken[c]
             b == [k \in 1 .. n |-> <<c, m + k>>]
  <1> USE PollAssumption, PeersAssumption
  <1>1. /\ pc = "scan" /\ pc' = "send" /\ pfds[i].fd = c /\ buf' = b
        /\ taken' = [taken EXCEPT ![c] = m + n]
        /\ UNCHANGED <<wrote, rst, pfds, i>>
    BY DEF HandlerRecv, At
  <1>2. m \in Nat /\ n \in Nat /\ wrote[c] \in Seq(Byte)
    BY DEF HandlerRecv, Lesser, Unread, TableInv, TypeOK, PeersTypeOK
  <1>3. taken'[c] = m + n /\ \A d \in Clients \ {c} : taken'[d] = taken[d]
    BY <1>1 DEF TableInv, TypeOK, PeersTypeOK
  <1>4. \A d \in Clients : InHand(d) = <<>> /\ InHand(d)' = IF d = c THEN b ELSE <<>>
    BY <1>1 DEF InHand
  <1>5. ASSUME ~rst[c]
        PROVE  wrote[c] \o b = Stream(c, m + n)
    <2>1. wrote[c] \o <<>> = Stream(c, m)
      BY <1>4, <1>5 DEF NoEchoLost
    <2>2. wrote[c] = Stream(c, m)
      BY <1>2, <2>1, ConcatEmptySeq
    <2> HIDE DEF n, m
    <2>3. Stream(c, m) \o b = Stream(c, m + n)
      BY <1>2, StreamAppend
    <2> QED  BY <2>2, <2>3
  <1> HIDE DEF n, m, b
  <1>6. ASSUME NEW d \in Clients
        PROVE  /\ ~rst'[d] => wrote'[d] \o InHand(d)' = Stream(d, taken'[d])
               /\ Len(wrote'[d]) <= taken'[d]
               /\ wrote'[d] = Stream(d, Len(wrote'[d]))
    <2>1. CASE d = c
      <3>1. Len(wrote[c]) <= taken[c] /\ Len(wrote[c]) \in Nat
        BY <1>2 DEF NoEchoLost
      <3>2. Len(wrote[c]) <= m + n
        BY <1>2, <3>1 DEF m
      <3> QED  BY <1>1, <1>3, <1>4, <1>5, <2>1, <3>2 DEF NoEchoLost
    <2>2. CASE d # c
      BY <1>1, <1>3, <1>4, <2>2 DEF NoEchoLost
    <2> QED  BY <2>1, <2>2
  <1> QED  BY <1>6 DEF NoEchoLost, Stream

LEMMA SendEcho ==
  ASSUME TableInv, NoEchoLost, NEW c \in Clients, HandlerSend(c)
  PROVE  /\ NoEchoLost'
         /\ Len(wrote'[c]) >= Len(wrote[c])
         /\ wrote' = [wrote EXCEPT ![c] = wrote'[c]]
  <1> DEFINE n == Lesser(Len(buf), Room(c))
             w == wrote[c] \o SubSeq(buf, 1, n)
             b == SubSeq(buf, n + 1, Len(buf))
  <1> USE PollAssumption, PeersAssumption
  <1>1. /\ pc = "send" /\ pfds[i].fd = c /\ buf' = b /\ ~rst[c] /\ Room(c) > 0
        /\ wrote' = [wrote EXCEPT ![c] = w]
        /\ \/ b = <<>> /\ pc' = "scan"
           \/ pc' = "send" /\ i' = i
        /\ UNCHANGED <<taken, rst, pfds>>
    BY DEF HandlerSend
  <1>2. /\ n \in 0 .. Len(buf) /\ w \in Seq(Byte) /\ b \in Seq(Byte)
        /\ Len(w) = Len(wrote[c]) + n
    BY <1>1, SendCounts DEF TableInv
  <1>3. w \o b = Stream(c, taken[c])
    <2>1. wrote[c] \o buf = Stream(c, taken[c])
      BY <1>1 DEF NoEchoLost, InHand
    <2>2. wrote[c] \in Seq(Byte) /\ buf \in Seq(Byte)
      BY DEF TableInv, TypeOK, PeersTypeOK
    <2> QED  BY <1>2, <2>1, <2>2, SplitConcat
  <1>4. taken[c] \in Nat /\ Len(wrote[c]) \in Nat /\ Len(buf) \in Nat
    BY DEF TableInv, TypeOK, PeersTypeOK
  <1>5. Len(w) >= Len(wrote[c])
    BY <1>2, <1>4
  <1> HIDE DEF n, w, b
  <1>6. Len(w) <= taken[c] /\ w = Stream(c, Len(w))
    BY <1>2, <1>3, <1>4, PrefixOfStream
  <1>7. /\ wrote'[c] = w
        /\ \A d \in Clients \ {c} : wrote'[d] = wrote[d]
    BY <1>1 DEF TableInv, TypeOK, PeersTypeOK
  <1>8. ASSUME NEW d \in Clients
        PROVE  InHand(d)' = IF d = c THEN b ELSE <<>>
    BY <1>1 DEF InHand
  <1>9. ASSUME NEW d \in Clients, d # c
        PROVE  InHand(d) = <<>>
    BY <1>1, <1>9 DEF InHand
  <1>10. ASSUME NEW d \in Clients
         PROVE  /\ ~rst'[d] => wrote'[d] \o InHand(d)' = Stream(d, taken'[d])
                /\ Len(wrote'[d]) <= taken'[d]
                /\ wrote'[d] = Stream(d, Len(wrote'[d]))
    <2>1. CASE d = c
      BY <1>1, <1>3, <1>6, <1>7, <1>8, <2>1
    <2>2. CASE d # c
      BY <1>1, <1>7, <1>8, <1>9, <2>2 DEF NoEchoLost
    <2> QED  BY <2>1, <2>2
  <1>11. NoEchoLost'
    BY <1>10 DEF NoEchoLost, Stream
  <1> QED  BY <1>1, <1>5, <1>7, <1>11

LEMMA EchoInvStep ==
  ASSUME EchoInv, [Next]_vars
  PROVE  EchoInv'
  <1>0. TableInv /\ TableInv' /\ NoEchoLost
    BY TableInvStep DEF EchoInv
  <1>1. CASE \/ Poll \/ PollFails \/ Skip \/ EndScan \/ accept_fails \/ realloc_fails
             \/ \E c \in Clients : accept_conn(c) \/ HandlerClose(c)
    <2>1. /\ pc # "send" /\ pc # "killed" /\ pc' # "send" /\ pc' # "killed"
          /\ UNCHANGED <<taken, wrote, rst>>
      BY <1>1 DEF Poll, PollFails, Skip, EndScan, accept_fails, realloc_fails, accept_conn,
                  HandlerClose, At, peerVars
    <2> QED  BY <1>0, <2>1, EchoKept DEF EchoInv, InHand
  <1>2. ASSUME NEW c \in Clients, HandlerRecv(c)  PROVE EchoInv'
    <2>1. pc' # "killed"
      BY <1>2 DEF HandlerRecv
    <2> QED  BY <1>0, <1>2, <2>1, RecvEcho DEF EchoInv
  <1>3. ASSUME NEW c \in Clients, HandlerSend(c)  PROVE EchoInv'
    <2>1. pc' # "killed"
      BY <1>3 DEF HandlerSend
    <2> QED  BY <1>0, <1>3, <2>1, SendEcho DEF EchoInv
  <1>4. ASSUME NEW c \in Clients, HandlerSendFails(c)  PROVE EchoInv'
    <2>1. /\ rst[c] /\ pc = "send" /\ pfds[i].fd = c /\ pc' # "send"
          /\ UNCHANGED <<taken, wrote, rst>>
      BY <1>4 DEF HandlerSendFails, peerVars
    <2>2. \A d \in Clients : ~rst'[d] => ~rst[d] /\ InHand(d)' = InHand(d)
      BY <2>1 DEF InHand
    <2> QED  BY <1>0, <2>1, <2>2, EchoKept DEF EchoInv
  <1>5. ASSUME NEW c \in Clients, ClientStep(c)  PROVE EchoInv'
    <2>1. /\ UNCHANGED <<taken, wrote>> /\ UNCHANGED serverVars
          /\ \A d \in Clients : rst[d] => rst'[d]
      <3>1. UNCHANGED <<taken, wrote>> /\ UNCHANGED serverVars
        BY <1>0, <1>5, PeerStepFacts DEF ClientStep, TableInv, TypeOK
      <3>2. \A d \in Clients : rst[d] => rst'[d]
        <4>1. PeersTypeOK /\ Accounting
          BY <1>0 DEF TableInv, TypeOK
        <4> QED  BY <1>5, <4>1 DEF ClientStep, PeerStep, Connect, Write, Read, HangUp,
                   Reset, Abort, DropAborted, PeersTypeOK, Accounting
      <3> QED  BY <3>1, <3>2
    <2>2. \A d \in Clients : InHand(d)' = InHand(d)
      BY <2>1 DEF InHand, serverVars
    <2> QED  BY <1>0, <2>1, <2>2, EchoKept DEF EchoInv, serverVars
  <1>6. CASE UNCHANGED vars
    <2>1. UNCHANGED <<taken, wrote, rst, pc, buf, pfds, i>>
      BY <1>6 DEF vars, peerVars, serverVars
    <2> QED  BY <1>0, <2>1, EchoKept DEF EchoInv, InHand
  <1> QED  BY <1>1, <1>2, <1>3, <1>4, <1>5, <1>6 DEF Next, ServerStep, Serve

LEMMA EchoInvInit ==
  ASSUME Init
  PROVE  EchoInv
  <1>1. /\ TableInv /\ pc = "poll"
        /\ \A c \in Clients : taken[c] = 0 /\ wrote[c] = <<>>
    BY TableInvInit DEF Init, PeersInit
  <1>2. ASSUME NEW c \in Clients
        PROVE  /\ wrote[c] \o InHand(c) = Stream(c, taken[c])
               /\ Len(wrote[c]) <= taken[c]
               /\ wrote[c] = Stream(c, Len(wrote[c]))
    <2>1. InHand(c) = <<>> /\ <<>> \o <<>> = <<>> /\ Stream(c, 0) = <<>>
      BY <1>1 DEF InHand, Stream
    <2> QED  BY <1>1, <2>1
  <1> QED  BY <1>1, <1>2 DEF EchoInv, NoEchoLost

(* Every byte poll_server2.c takes from a sound connection is sent back or *)
(* in hand, in order; after a reset what was sent back is still a prefix.  *)
THEOREM EchoCorrect == Spec => []NoEchoLost
  <1>1. EchoInv /\ [Next]_vars => EchoInv'
    BY EchoInvStep
  <1>2. EchoInv => NoEchoLost
    BY DEF EchoInv
  <1> QED  BY EchoInvInit, <1>1, <1>2, PTL DEF Spec

(* SIGPIPE kills poll_server2.c only after some client closed before it    *)
(* had read the echo of all it sent.                                       *)
THEOREM DeathCorrect == Spec => []DeathNeedsEarlyClose
  <1>1. EchoInv /\ [Next]_vars => EchoInv'
    BY EchoInvStep
  <1>2. EchoInv => DeathNeedsEarlyClose
    <2> SUFFICES ASSUME EchoInv, NEW c \in Clients, rst[c]
                 PROVE  ClosedEarly(c)
      BY DEF EchoInv, DeathNeedsEarlyClose
    <2>1. /\ fin[c] /\ got[c] < Len(wrote[c])
          /\ Len(wrote[c]) <= taken[c] /\ taken[c] <= sent[c]
          /\ got[c] \in Nat /\ Len(wrote[c]) \in Nat
          /\ taken[c] \in Nat /\ sent[c] \in Nat
      BY PeersAssumption DEF EchoInv, NoEchoLost, TableInv, Accounting, TypeOK, PeersTypeOK
    <2> QED  BY <2>1 DEF ClosedEarly
  <1> QED  BY EchoInvInit, <1>1, <1>2, PTL DEF Spec

(* A send() is a Reply, a client's write a Submit, any other step a        *)
(* stutter of the echo service.                                            *)
LEMMA EchoStep ==
  ASSUME EchoInv, [Next]_vars
  PROVE  [Echo!Next]_<<sent, wrote>>
  <1>0. TableInv /\ EchoInv'
    BY EchoInvStep DEF EchoInv
  <1>1. ASSUME NEW c \in Clients, HandlerSend(c)
        PROVE  [Echo!Next]_<<sent, wrote>>
    <2> DEFINE n == Len(wrote'[c])
    <2>1. /\ wrote' = [wrote EXCEPT ![c] = wrote'[c]]
          /\ wrote'[c] = Stream(c, n)
          /\ Len(wrote[c]) <= n /\ n <= taken'[c] /\ taken'[c] <= sent'[c]
          /\ wrote[c] = Stream(c, Len(wrote[c]))
          /\ sent' = sent
      BY <1>0, <1>1, SendEcho DEF EchoInv, TableInv, Accounting, NoEchoLost, HandlerSend, Stream
    <2>2. /\ n \in Nat /\ Len(wrote[c]) \in Nat /\ sent[c] \in Nat /\ taken'[c] \in Nat
      BY <1>0, PeersAssumption DEF EchoInv, TableInv, TypeOK, PeersTypeOK
    <2>3. CASE n = Len(wrote[c])
      <3>1. wrote'[c] = wrote[c]
        BY <2>1, <2>3
      <3>2. wrote' = wrote
        BY <1>0, <2>1, <3>1 DEF TableInv, TypeOK, PeersTypeOK
      <3> QED  BY <2>1, <3>2
    <2>4. CASE n # Len(wrote[c])
      <3>1. n \in Len(wrote[c]) + 1 .. sent[c]
        BY <2>1, <2>2, <2>4
      <3>2. wrote' = [wrote EXCEPT ![c] = Echo!Prefix(c, n)]
        BY <2>1 DEF Echo!Prefix, Stream
      <3> QED  BY <2>1, <3>1, <3>2 DEF Echo!Next, Echo!Reply
    <2> QED  BY <2>3, <2>4
  <1>2. ASSUME NEW c \in Clients, ClientStep(c)
        PROVE  [Echo!Next]_<<sent, wrote>>
    BY <1>2 DEF ClientStep, PeerStep, Connect, Write, Read, HangUp, Reset, Abort,
                DropAborted, Echo!Next, Echo!Submit
  <1>3. CASE \/ Poll \/ PollFails \/ Skip \/ EndScan \/ accept_fails \/ realloc_fails
             \/ \E c \in Clients : \/ accept_conn(c) \/ HandlerClose(c)
                                   \/ HandlerRecv(c) \/ HandlerSendFails(c)
    BY <1>3 DEF Poll, PollFails, Skip, EndScan, accept_fails, realloc_fails, accept_conn,
                HandlerClose, HandlerRecv, HandlerSendFails, peerVars
  <1>4. CASE UNCHANGED vars
    BY <1>4 DEF vars, peerVars
  <1> QED  BY <1>1, <1>2, <1>3, <1>4 DEF Next, ServerStep, Serve

(* poll_server2.c implements the echo service: what it has sent back on a  *)
(* connection is always a prefix of what the client sent on it.            *)
THEOREM EchoRefinement == Spec => ImplementsEcho
  <1>1. Init => Echo!Init
    BY DEF Init, PeersInit, Echo!Init
  <1>2. EchoInv /\ [Next]_vars => EchoInv'
    BY EchoInvStep
  <1>3. EchoInv /\ [Next]_vars => [Echo!Next]_<<sent, wrote>>
    BY EchoStep
  <1> QED  BY EchoInvInit, <1>1, <1>2, <1>3, PTL DEF Spec, ImplementsEcho, Echo!Spec
-----------------------------------------------------------------------------
(* The scan's measure.  Its index never runs more than one entry past the  *)
(* end of the array, which a close() in the last entry moves back.         *)
IndexInv == Scanning => i <= fd_count + 1

(* The next slot: a step that moves the index on, and may add an entry in  *)
(* the listener's slot or take one away.                                   *)
NextSlot ==
  /\ i < fd_count /\ i' = i + 1
  /\ \/ fd_count' = fd_count
     \/ i = 0 /\ fd_count' = fd_count + 1
     \/ fd_count > 1 /\ fd_count' = fd_count - 1

LEMMA NextSlotLess ==
  ASSUME TypeOK, NextSlot
  PROVE  i' <= fd_count' + 1 /\ ToVisit \in Nat /\ ToVisit' \in Nat /\ ToVisit' < ToVisit
  <1>1. i \in Nat /\ fd_count \in Nat /\ fd_count >= 1
    BY DEF TypeOK
  <1>2. CASE fd_count' = fd_count
    BY <1>1, <1>2 DEF NextSlot, ToVisit
  <1>3. CASE i = 0 /\ fd_count' = fd_count + 1
    BY <1>1, <1>3 DEF NextSlot, ToVisit
  <1>4. CASE fd_count > 1 /\ fd_count' = fd_count - 1
    BY <1>1, <1>4 DEF NextSlot, ToVisit
  <1>. QED BY <1>2, <1>3, <1>4 DEF NextSlot

LEMMA MovesOnAreNext ==
  ASSUME TableInv, Skip \/ \E c \in Clients : accept_conn(c) \/ HandlerClose(c)
  PROVE  NextSlot /\ pc' = "scan"
  <1>1. CASE Skip
    BY <1>1 DEF Skip, NextSlot
  <1>2. ASSUME NEW c \in Clients, accept_conn(c) PROVE NextSlot /\ pc' = "scan"
    <2>1. At(Listener) /\ i' = i + 1 /\ fd_count' = fd_count + 1 /\ pc' = pc
      BY <1>2 DEF accept_conn, add_to_pfds
    <2>2. i = 0
      BY <2>1, AtListener DEF TableInv
    <2>. QED BY <2>1, <2>2 DEF At, NextSlot
  <1>3. ASSUME NEW c \in Clients, HandlerClose(c) PROVE NextSlot /\ pc' = "scan"
    <2>1. At(c) /\ i' = i + 1 /\ fd_count' = fd_count - 1 /\ pc' = pc
      BY <1>3 DEF HandlerClose, del_from_pfds
    <2>2. fd_count > 1
      BY <2>1, AtClient DEF TableInv
    <2>. QED BY <2>1, <2>2 DEF At, NextSlot
  <1>. QED BY <1>1, <1>2, <1>3

LEMMA LessThree ==
  ASSUME NEW a, NEW b, NEW c, NEW d, NEW e, NEW f,
         a < d \/ (a = d /\ b < e) \/ (a = d /\ b = e /\ c < f)
  PROVE  Less(<<a, b, c>>, <<d, e, f>>)
  <1> DEFINE s == <<a, b, c>>
             t == <<d, e, f>>
  <1>1. /\ DOMAIN s = 1 .. 3 /\ s[1] = a /\ s[2] = b /\ s[3] = c
        /\ t[1] = d /\ t[2] = e /\ t[3] = f
    OBVIOUS
  <1> HIDE DEF s, t
  <1>2. CASE a < d
    <2>1. 1 \in DOMAIN s /\ s[1] < t[1] /\ \A n \in 1 .. 1 - 1 : s[n] = t[n]
      BY <1>1, <1>2
    <2>. QED BY <2>1 DEF Less, s, t
  <1>3. CASE a = d /\ b < e
    <2>1. 2 \in DOMAIN s /\ s[2] < t[2] /\ \A n \in 1 .. 2 - 1 : s[n] = t[n]
      BY <1>1, <1>3
    <2>. QED BY <2>1 DEF Less, s, t
  <1>4. CASE a = d /\ b = e /\ c < f
    <2>1. 3 \in DOMAIN s /\ s[3] < t[3] /\ \A n \in 1 .. 3 - 1 : s[n] = t[n]
      BY <1>1, <1>4
    <2>. QED BY <2>1 DEF Less, s, t
  <1>. QED BY <1>2, <1>3, <1>4

(* One send(): the bytes in hand get fewer, or the scan goes on.           *)
LEMMA SendHand ==
  ASSUME TableInv, NEW c \in Clients, HandlerSend(c)
  PROVE  /\ fd_count' = fd_count /\ i < fd_count
         /\ \/ pc' = "scan" /\ i' = i + 1
            \/ pc' = "send" /\ i' = i /\ Len(buf') < Len(buf)
  <1>1. /\ pc = "send" /\ i < fd_count /\ fd_count' = fd_count
    BY DEF HandlerSend, TableInv, HandHasClient, TypeOK
  <1>2. CASE buf' = <<>>
    BY <1>1, <1>2 DEF HandlerSend
  <1>3. CASE buf' # <<>>
    <2>1. buf \in Seq(Byte) /\ Len(buf) \in Nat
      BY DEF TableInv, TypeOK
    <2> DEFINE n == Lesser(Len(buf), Room(c))
    <2>2. n \in Nat /\ (n > 0 \/ Len(buf) = 0) /\ n <= Len(buf)
      <3>1. Room(c) > 0
        BY DEF HandlerSend
      <3>2. Room(c) \in Nat
        BY PeersAssumption DEF Room, Unacked, TableInv, TypeOK, PeersTypeOK
      <3>. QED BY <2>1, <3>1, <3>2 DEF Lesser
    <2>3. buf' = SubSeq(buf, n + 1, Len(buf))
      BY DEF HandlerSend
    <2> HIDE DEF n
    <2>4. CASE n < Len(buf)
      <3>1. \A k \in n + 1 .. Len(buf) : buf[k] \in Byte
        BY <2>1, <2>2, ElementOfSeq
      <3>2. Len(buf') = Len(buf) - n
        BY <2>1, <2>2, <2>3, <2>4, <3>1, SubSeqProperties
      <3>3. pc' = pc /\ i' = i
        BY <1>3 DEF HandlerSend
      <3>. QED BY <1>1, <2>1, <2>2, <2>4, <3>2, <3>3
    <2>5. CASE n = Len(buf)
      BY <1>3, <2>1, <2>3, <2>5, SubSeqEmpty
    <2>. QED BY <2>1, <2>2, <2>4, <2>5
  <1>. QED BY <1>2, <1>3

LEMMA IndexInvStep ==
  ASSUME TableInv, IndexInv, [Next]_vars
  PROVE  IndexInv'
  <1>1. i \in Nat /\ fd_count \in Nat /\ fd_count >= 1
    BY DEF TableInv, TypeOK
  <1>2. CASE Skip \/ \E c \in Clients : accept_conn(c) \/ HandlerClose(c)
    BY <1>2, MovesOnAreNext, NextSlotLess DEF TableInv, IndexInv
  <1>3. ASSUME NEW c \in Clients, HandlerSend(c) PROVE IndexInv'
    BY <1>1, <1>3, SendHand DEF IndexInv
  <1>4. ASSUME NEW c \in Clients, HandlerSendFails(c) PROVE IndexInv'
    <2>1. i < fd_count /\ fd_count' = fd_count /\ (i' = i \/ i' = i + 1)
      BY <1>4 DEF HandlerSendFails, TableInv, HandHasClient, TypeOK
    <2>. QED BY <1>1, <2>1 DEF IndexInv
  <1>5. CASE Poll
    BY <1>1, <1>5 DEF Poll, IndexInv
  <1>6. ASSUME NEW c \in Clients, HandlerRecv(c) PROVE IndexInv'
    BY <1>6 DEF HandlerRecv, At, IndexInv, Scanning
  <1>7. CASE EndScan \/ PollFails \/ accept_fails \/ realloc_fails
    BY <1>7 DEF EndScan, PollFails, accept_fails, realloc_fails, IndexInv, Scanning
  <1>8. CASE UNCHANGED serverVars
    BY <1>8 DEF serverVars, IndexInv, Scanning
  <1>. QED BY <1>2, <1>3, <1>4, <1>5, <1>6, <1>7, <1>8
           DEF Next, ServerStep, Serve, ClientStep, vars

LEMMA ScanStep ==
  ASSUME TableInv, IndexInv, ServerStep, Scanning, Scanning'
  PROVE  Less(ScanWork', ScanWork) /\ ScanWork' \in Nat \X Nat \X Nat
  <1>1. /\ i \in Nat /\ fd_count \in Nat /\ fd_count >= 1 /\ i <= fd_count + 1
        /\ Len(buf) \in Nat
    BY DEF TableInv, TypeOK, IndexInv
  <1>2. Len(buf') \in Nat
    BY TableInvStep DEF Next, TableInv, TypeOK
  <1>3. ASSUME ToVisit' \in Nat, ToVisit' < ToVisit
        PROVE  Less(ScanWork', ScanWork) /\ ScanWork' \in Nat \X Nat \X Nat
    <2>1. ASSUME NEW b, NEW e, NEW c, NEW f
          PROVE  Less(<<ToVisit', b, c>>, <<ToVisit, e, f>>)
      BY ONLY <1>3, LessThree
    <2>. QED BY <1>2, <1>3, <2>1 DEF ScanWork
  <1>4. CASE Skip \/ \E c \in Clients : accept_conn(c) \/ HandlerClose(c)
    BY <1>3, <1>4, MovesOnAreNext, NextSlotLess DEF TableInv
  <1>5. ASSUME i < fd_count, i' = i + 1, fd_count' = fd_count
        PROVE  Less(ScanWork', ScanWork) /\ ScanWork' \in Nat \X Nat \X Nat
    BY <1>3, <1>5, NextSlotLess DEF NextSlot, TableInv
  <1>6. ASSUME NEW c \in Clients, HandlerSend(c)
        PROVE  Less(ScanWork', ScanWork) /\ ScanWork' \in Nat \X Nat \X Nat
    <2>1. CASE pc' = "scan" /\ i' = i + 1
      BY <1>5, <1>6, <2>1, SendHand
    <2>2. CASE pc' = "send" /\ i' = i /\ Len(buf') < Len(buf)
      <3>1. fd_count' = fd_count /\ i < fd_count /\ pc = "send"
        BY <1>6, SendHand DEF HandlerSend
      <3>2. ToVisit' = ToVisit /\ ToVisit \in Nat
        BY <1>1, <2>2, <3>1 DEF ToVisit
      <3>3. Less(<<ToVisit', 0, Len(buf')>>, <<ToVisit, 0, Len(buf)>>)
        BY <2>2, <3>2, LessThree
      <3>. QED BY <1>2, <2>2, <3>1, <3>2, <3>3 DEF ScanWork
    <2>. QED BY <1>6, <2>1, <2>2, SendHand
  <1>7. ASSUME NEW c \in Clients, HandlerSendFails(c)
        PROVE  Less(ScanWork', ScanWork) /\ ScanWork' \in Nat \X Nat \X Nat
    <2>1. i < fd_count /\ fd_count' = fd_count /\ i' = i + 1
      BY <1>7 DEF HandlerSendFails, TableInv, HandHasClient, TypeOK, Scanning
    <2>. QED BY <1>5, <2>1
  <1>8. ASSUME NEW c \in Clients, HandlerRecv(c)
        PROVE  Less(ScanWork', ScanWork) /\ ScanWork' \in Nat \X Nat \X Nat
    <2>1. /\ pc = "scan" /\ pc' = "send" /\ i < fd_count /\ UNCHANGED <<i, fd_count>>
      BY <1>8 DEF HandlerRecv, At
    <2>2. ToVisit' = ToVisit /\ ToVisit \in Nat
      BY <1>1, <2>1 DEF ToVisit
    <2>3. ASSUME NEW b, NEW e PROVE Less(<<ToVisit', 0, b>>, <<ToVisit, 1, e>>)
      <3>1. ToVisit' = ToVisit /\ 0 < 1
        BY <2>2
      <3>. QED BY ONLY <3>1, LessThree
    <2>. QED BY <1>2, <2>1, <2>2, <2>3 DEF ScanWork
  <1>9. ~ (Poll \/ EndScan \/ PollFails \/ accept_fails \/ realloc_fails)
    BY DEF Poll, EndScan, PollFails, accept_fails, realloc_fails, Scanning
  <1>. QED BY <1>4, <1>6, <1>7, <1>8, <1>9 DEF ServerStep, Serve

(* A scan comes to an end: whatever the clients do meanwhile, each step of *)
(* the server within it leaves less to do, down to nothing.                *)
THEOREM ScanEndsCorrect == Spec => ScanEnds
  <1>1. Init => TableInv /\ IndexInv
    BY TableInvInit DEF Init, IndexInv, Scanning
  <1>2. TableInv /\ IndexInv /\ [Next]_vars => TableInv' /\ IndexInv'
    BY TableInvStep, IndexInvStep
  <1>3. TableInv /\ IndexInv /\ [Next]_vars =>
          [Scanning /\ Scanning' => /\ Less(ScanWork', ScanWork)
                                    /\ ScanWork' \in Nat \X Nat \X Nat]_serverVars
    <2> SUFFICES ASSUME TableInv, IndexInv, [Next]_vars, Scanning, Scanning',
                        ~UNCHANGED serverVars
                 PROVE  Less(ScanWork', ScanWork) /\ ScanWork' \in Nat \X Nat \X Nat
      OBVIOUS
    <2>1. ServerStep
      BY DEF Next, ClientStep, vars
    <2>. QED BY <2>1, ScanStep
  <1>. QED BY <1>1, <1>2, <1>3, PTL DEF Spec, ScanEnds
=============================================================================
