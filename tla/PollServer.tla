----------------------------- MODULE PollServer -----------------------------
(***************************************************************************)
(* The poll()-driven echo server, Beej/ch07/poll_server2.c: one process,   *)
(* blocking sockets, a growing array of struct pollfd, and one scan of     *)
(* that array after each poll().                                           *)
(*                                                                         *)
(* An action is one system call with the code up to the next one.  The     *)
(* clients move between any two of them.  A call that would block is an    *)
(* action that is not enabled.  The descriptor accept() returns for client *)
(* c is named c: a client connects once, and the code never keeps a        *)
(* descriptor after close().                                               *)
(*                                                                         *)
(* add_to_pfds() writes fd and events, never revents: what the scan reads  *)
(* there before the next poll() is whatever malloc(), realloc() or a       *)
(* deleted entry left behind.  Fresh memory is any value; a slot that was  *)
(* used keeps its old one.                                                 *)
(*                                                                         *)
(* An operator Bug_X is X with a plausible mistake.  No specification uses *)
(* it; put in the place of X it shows that a property notices the mistake. *)
(***************************************************************************)
EXTENDS TcpPeers, FiniteSets

CONSTANTS
  Listener,   \* the listening descriptor
  NoFd,       \* the fd field of a slot nobody has written
  InitSize,   \* slots of the first array: INIT_FD_SIZE
  BufSize,    \* bytes one recv() can return: BUF_SIZE
  MaxOpen     \* descriptors the process may open for connections

ASSUME PollAssumption ==
  /\ Listener \notin Clients /\ NoFd \notin Clients /\ NoFd # Listener
  /\ IsFiniteSet(Clients)
  /\ InitSize \in Nat \ {0}
  /\ BufSize \in Nat \ {0}
  /\ MaxOpen \in Nat

VARIABLES
  pfds,      \* the array: slot -> its fd and whether POLLIN is set in revents
  fd_count,  \* slots in use
  fd_size,   \* slots allocated
  i,         \* the scan's index
  pc,        \* the call the server makes next, or how it ended
  buf,       \* what handler() has received and has still to send
  polled     \* history: fd_count at the last poll()

serverVars == <<pfds, fd_count, fd_size, i, pc, buf, polled>>
vars == <<peerVars, serverVars>>

Slots(n) == 0 .. n - 1
Pcs      == {"poll", "scan", "send", "exited", "killed", "crashed"}
PollFd   == [fd : Clients \cup {Listener, NoFd}, revents : BOOLEAN]
Running  == pc \in {"poll", "scan", "send"}
Open     == {c \in Clients : link[c] = "open"}

Lesser(a, b) == IF a < b THEN a ELSE b

TypeOK ==
  /\ PeersTypeOK
  /\ fd_size \in Nat \ {0}
  /\ fd_count \in 1 .. fd_size
  /\ pfds \in [Slots(fd_size) -> PollFd]
  /\ i \in Nat
  /\ pc \in Pcs
  /\ buf \in Seq(Byte)
  /\ polled \in Nat

(* malloc() and the listener's entry; revents is never initialised.        *)
Init ==
  /\ PeersInit
  /\ \E garbage \in [Slots(InitSize) -> BOOLEAN] :
       pfds = [k \in Slots(InitSize) |->
                 [fd      |-> IF k = 0 THEN Listener ELSE NoFd,
                  revents |-> garbage[k]]]
  /\ fd_count = 1
  /\ fd_size = InitSize
  /\ i = 0
  /\ pc = "poll"
  /\ buf = <<>>
  /\ polled = 0

-----------------------------------------------------------------------------
(* The array.                                                              *)

Bug_add_to_pfds(newfd) ==        \* the array is never grown
  /\ pfds' = [k \in Slots(IF fd_count < fd_size THEN fd_size ELSE fd_count + 1) |->
                [fd      |-> IF k = fd_count THEN newfd ELSE pfds[k].fd,
                 revents |-> k < fd_size /\ pfds[k].revents]]
  /\ fd_count' = fd_count + 1
  /\ UNCHANGED fd_size

add_to_pfds(newfd) ==
  LET size == IF fd_count = fd_size THEN 2 * fd_size ELSE fd_size
  IN  /\ \E garbage \in [fd_size .. size - 1 -> BOOLEAN] :
           pfds' = [k \in Slots(size) |->
                      [fd      |-> IF k = fd_count THEN newfd
                                   ELSE IF k < fd_size THEN pfds[k].fd ELSE NoFd,
                       revents |-> IF k < fd_size THEN pfds[k].revents
                                   ELSE garbage[k]]]
      /\ fd_size' = size
      /\ fd_count' = fd_count + 1

Bug_del_from_pfds(k) ==          \* the shift is off by one
  /\ pfds' = [pfds EXCEPT ![k] = pfds[fd_count - 2]]
  /\ fd_count' = fd_count - 1
  /\ UNCHANGED fd_size

del_from_pfds(k) ==
  /\ pfds' = [pfds EXCEPT ![k] = pfds[fd_count - 1]]
  /\ fd_count' = fd_count - 1
  /\ UNCHANGED fd_size

-----------------------------------------------------------------------------
(* poll(pfds, fd_count, -1)                                                *)

Ready(d) == IF d = Listener THEN Waiting \cup Aborted # {} ELSE Readable(d)

Bug_Poll ==                      \* the first size of the array is given for its count
  /\ pc = "poll"
  /\ \E k \in Slots(InitSize) : k < fd_count /\ Ready(pfds[k].fd)
  /\ pfds' = [k \in Slots(fd_size) |->
                IF k < fd_count /\ k < InitSize
                THEN [pfds[k] EXCEPT !.revents = Ready(pfds[k].fd)]
                ELSE pfds[k]]
  /\ polled' = fd_count
  /\ i' = 0
  /\ pc' = "scan"
  /\ UNCHANGED <<peerVars, fd_count, fd_size, buf>>

Bug_ScanFrom1 ==                 \* the scan leaves the listener out
  /\ pc = "poll"
  /\ \E k \in Slots(fd_count) : Ready(pfds[k].fd)
  /\ pfds' = [k \in Slots(fd_size) |->
                IF k < fd_count
                THEN [pfds[k] EXCEPT !.revents = Ready(pfds[k].fd)]
                ELSE pfds[k]]
  /\ polled' = fd_count
  /\ i' = 1
  /\ pc' = "scan"
  /\ UNCHANGED <<peerVars, fd_count, fd_size, buf>>

Poll ==
  /\ pc = "poll"
  /\ \E k \in Slots(fd_count) : Ready(pfds[k].fd)
  /\ pfds' = [k \in Slots(fd_size) |->
                IF k < fd_count
                THEN [pfds[k] EXCEPT !.revents = Ready(pfds[k].fd)]
                ELSE pfds[k]]
  /\ polled' = fd_count
  /\ i' = 0
  /\ pc' = "scan"
  /\ UNCHANGED <<peerVars, fd_count, fd_size, buf>>

PollFails ==
  /\ pc = "poll"
  /\ pc' = "exited"
  /\ UNCHANGED <<peerVars, pfds, fd_count, fd_size, i, buf, polled>>

-----------------------------------------------------------------------------
(* The scan: for (i = 0; i < fd_count; ++i), with fd_count read each time. *)

At(d) ==
  /\ pc = "scan"
  /\ i < fd_count
  /\ pfds[i].revents
  /\ pfds[i].fd = d

Skip ==
  /\ pc = "scan"
  /\ i < fd_count
  /\ ~pfds[i].revents
  /\ i' = i + 1
  /\ UNCHANGED <<peerVars, pfds, fd_count, fd_size, pc, buf, polled>>

EndScan ==
  /\ pc = "scan"
  /\ i >= fd_count
  /\ pc' = "poll"
  /\ UNCHANGED <<peerVars, pfds, fd_count, fd_size, i, buf, polled>>

Bug_accept_conn(c) ==            \* accept() is called again at once
  /\ At(Listener)
  /\ link[c] = "pending"
  /\ Cardinality(Open) < MaxOpen
  /\ link' = [link EXCEPT ![c] = "open"]
  /\ add_to_pfds(c)
  /\ UNCHANGED <<sent, taken, wrote, got, fin, rst, i, pc, buf, polled>>

accept_conn(c) ==
  /\ At(Listener)
  /\ link[c] = "pending"
  /\ Cardinality(Open) < MaxOpen
  /\ link' = [link EXCEPT ![c] = "open"]
  /\ add_to_pfds(c)
  /\ i' = i + 1
  /\ UNCHANGED <<sent, taken, wrote, got, fin, rst, pc, buf, polled>>

(* accept() fails on a connection aborted in the queue, or for want of a   *)
(* descriptor; either ends the process.                                    *)
accept_fails ==
  /\ At(Listener)
  /\ Aborted # {} \/ (Waiting # {} /\ Cardinality(Open) >= MaxOpen)
  /\ pc' = "exited"
  /\ UNCHANGED <<peerVars, pfds, fd_count, fd_size, i, buf, polled>>

(* realloc() fails in add_to_pfds(), which writes through the null pointer *)
(* it returned: the process is gone, with the connection just accepted.    *)
realloc_fails ==
  /\ At(Listener)
  /\ Waiting # {} /\ Cardinality(Open) < MaxOpen
  /\ fd_count = fd_size
  /\ pc' = "crashed"
  /\ UNCHANGED <<peerVars, pfds, fd_count, fd_size, i, buf, polled>>

-----------------------------------------------------------------------------
(* handler(): recv(), then either close() and del_from_pfds() or send().   *)

Bug_HandlerRecv(c) ==            \* the buffer is sent twice
  /\ At(c)
  /\ Unread(c) > 0
  /\ LET n == Lesser(BufSize, Unread(c))
         s == [k \in 1 .. n |-> <<c, taken[c] + k>>]
     IN  /\ buf' = s \o s
         /\ taken' = [taken EXCEPT ![c] = @ + n]
  /\ pc' = "send"
  /\ UNCHANGED <<link, sent, wrote, got, fin, rst,
                 pfds, fd_count, fd_size, i, polled>>

HandlerRecv(c) ==
  /\ At(c)
  /\ Unread(c) > 0
  /\ LET n == Lesser(BufSize, Unread(c))
     IN  /\ buf' = [k \in 1 .. n |-> <<c, taken[c] + k>>]
         /\ taken' = [taken EXCEPT ![c] = @ + n]
  /\ pc' = "send"
  /\ UNCHANGED <<link, sent, wrote, got, fin, rst,
                 pfds, fd_count, fd_size, i, polled>>

(* End of the stream after its last byte, or ECONNRESET at any time.       *)
HandlerClose(c) ==
  /\ At(c)
  /\ rst[c] \/ (fin[c] /\ Unread(c) = 0)
  /\ link' = [link EXCEPT ![c] = "closed"]
  /\ del_from_pfds(i)
  /\ i' = i + 1
  /\ UNCHANGED <<sent, taken, wrote, got, fin, rst, pc, buf, polled>>

(* send() takes what the kernel has room for and waits for the rest.       *)
Room(c) == IF Unacked(c) < SndCap THEN SndCap - Unacked(c) ELSE 0

Bug_HandlerSend(c) ==            \* a short send is taken for a whole one
  /\ pc = "send" /\ pfds[i].fd = c
  /\ ~rst[c] /\ Room(c) > 0
  /\ wrote' = [wrote EXCEPT ![c] = @ \o SubSeq(buf, 1, Lesser(Len(buf), Room(c)))]
  /\ buf' = <<>>
  /\ pc' = "scan" /\ i' = i + 1
  /\ UNCHANGED <<link, sent, taken, got, fin, rst,
                 pfds, fd_count, fd_size, polled>>

HandlerSend(c) ==
  /\ pc = "send" /\ pfds[i].fd = c
  /\ ~rst[c] /\ Room(c) > 0
  /\ LET n == Lesser(Len(buf), Room(c))
     IN  /\ wrote' = [wrote EXCEPT ![c] = @ \o SubSeq(buf, 1, n)]
         /\ buf' = SubSeq(buf, n + 1, Len(buf))
  /\ IF buf' = <<>> THEN pc' = "scan" /\ i' = i + 1
                    ELSE UNCHANGED <<pc, i>>
  /\ UNCHANGED <<link, sent, taken, got, fin, rst,
                 pfds, fd_count, fd_size, polled>>

(* On a reset connection send() reports the pending error, which the code  *)
(* logs, or raises SIGPIPE, which the code leaves at its default.          *)
HandlerSendFails(c) ==
  /\ pc = "send" /\ pfds[i].fd = c
  /\ rst[c]
  /\ \/ pc' = "scan" /\ i' = i + 1 /\ buf' = <<>>
     \/ pc' = "killed" /\ UNCHANGED <<i, buf>>
  /\ UNCHANGED <<peerVars, pfds, fd_count, fd_size, polled>>

-----------------------------------------------------------------------------
Serve ==
  \/ Poll \/ Skip \/ EndScan \/ accept_fails \/ realloc_fails
  \/ \E c \in Clients : \/ accept_conn(c)
                        \/ HandlerRecv(c) \/ HandlerClose(c)
                        \/ HandlerSend(c) \/ HandlerSendFails(c)

ServerStep == Serve \/ PollFails

ClientStep(c) == PeerStep(c) /\ UNCHANGED serverVars

Next == ServerStep \/ \E c \in Clients : ClientStep(c)

Spec == Init /\ [][Next]_vars

(* The server is one thread the scheduler runs again and again: it does    *)
(* the step it can do.  Clients owe nothing, and poll() need not fail.     *)
FairSpec == Spec /\ WF_vars(Serve)
-----------------------------------------------------------------------------
(* Properties.                                                             *)

(* The array lists the listener, in slot 0, and every open connection in   *)
(* exactly one slot; it never outgrows its memory.  add_to_pfds() and      *)
(* del_from_pfds() keep this while the scan that calls them walks over it. *)
TableMatchesDescriptors ==
  /\ fd_count <= fd_size
  /\ pfds[0].fd = Listener
  /\ \A j, k \in Slots(fd_count) : pfds[j].fd = pfds[k].fd => j = k
  /\ {pfds[k].fd : k \in 1 .. fd_count - 1} = Open

(* The blocking calls of the scan wait only where the code lets them: in   *)
(* recv() on the connection this very scan accepted, whose revents nobody  *)
(* has set (its slot lies beyond what poll() was given), and in accept()   *)
(* when the connection poll() announced was aborted and dropped meanwhile. *)
StallsAreExplained ==
  /\ \A c \in Clients : At(c) /\ ~Readable(c) => i >= polled
  /\ At(Listener) /\ ~Ready(Listener)
       => \E c \in Clients : link[c] = "closed" /\ ~fin[c]

(* What handler() has received and not yet sent to c.                      *)
InHand(c) == IF pc = "send" /\ pfds[i].fd = c THEN buf ELSE <<>>

(* Nothing recv() took from a connection is lost while the connection is   *)
(* sound: the bytes sent back and the bytes in hand are, in order, those   *)
(* received.  After a reset what was sent back is still a prefix.          *)
NoEchoLost ==
  \A c \in Clients :
    /\ ~rst[c] => wrote[c] \o InHand(c) = Stream(c, taken[c])
    /\ Len(wrote[c]) <= taken[c]
    /\ wrote[c] = Stream(c, Len(wrote[c]))

(* SIGPIPE ends the whole server only if some client closed its socket     *)
(* before it had read the echo of everything it sent.                      *)
DeathNeedsEarlyClose ==
  pc = "killed" => \E c \in Clients : ClosedEarly(c)

(* What a scan has before it, the most important first: the slots still to *)
(* be visited, counting the one a new connection may need, the call about  *)
(* to be made for a slot, and the bytes in hand.                           *)
ToVisit  == (IF i = 0 THEN fd_count + 2 ELSE fd_count + 1) - i
ScanWork == <<ToVisit, IF pc = "send" THEN 0 ELSE 1, Len(buf)>>

Less(s, t) == \E k \in DOMAIN s : s[k] < t[k] /\ \A n \in 1 .. k - 1 : s[n] = t[n]

(* The scan comes to an end, although connections are accepted and closed  *)
(* in the middle of it and its bound is read anew each time: every step of *)
(* the server leaves less before it, never less than nothing, or ends the  *)
(* scan.                                                                   *)
Scanning == pc \in {"scan", "send"}
ScanEnds ==
  [][Scanning /\ Scanning' => Less(ScanWork', ScanWork) /\ ScanWork' \in Nat \X Nat \X Nat]_serverVars

Stalled ==
  \/ \E c \in Clients : At(c) /\ ~Readable(c)
  \/ At(Listener) /\ ~Ready(Listener)
  \/ \E c \in Clients : pc = "send" /\ pfds[i].fd = c /\ ~rst[c] /\ Room(c) = 0

(* Unless a call blocks the server for ever, every byte that reaches it on *)
(* an open connection is echoed, or the connection is reset, or the whole  *)
(* server is gone: the entry del_from_pfds() moves under the scan's index  *)
(* is skipped by that scan, but not starved.                               *)
EveryByteAnswered ==
  []<>~Stalled =>
    \A c \in Clients : \A n \in 1 .. MaxBytes :
      (link[c] = "open" /\ sent[c] >= n)
        ~> (Len(wrote[c]) >= n \/ rst[c] \/ ~Running)

(* A connection that waits in the listen queue is accepted, or aborted, or *)
(* the server is gone, under the same proviso.                             *)
EveryClientServed ==
  []<>~Stalled =>
    \A c \in Clients : (link[c] = "pending") ~> (link[c] # "pending" \/ ~Running)

(* The server implements the echo service.                                 *)
Echo == INSTANCE EchoService WITH echo <- wrote
ImplementsEcho == Echo!Spec
=============================================================================
