------------------------------ MODULE PollChat ------------------------------
(***************************************************************************)
(* The other poll() server, Beej/ch07/poll_server.c.  Its array, poll()    *)
(* and scan are those of PollServer.  It differs in two places: a failing  *)
(* accept() is logged and the scan goes on, and what it receives it sends  *)
(* in a loop over the array.  That loop is written as a broadcast, but its *)
(* destination is pfds[i].fd, not pfds[j].fd: the sender gets one copy for *)
(* every entry of the array and nobody else gets any.                      *)
(***************************************************************************)
EXTENDS PollServer

VARIABLES
  j,     \* the index of the sending loop
  rest   \* what the current send() has still to queue

chatVars == <<j, rest>>
allVars  == <<vars, chatVars>>

ChatInit == Init /\ j = 0 /\ rest = <<>>

-----------------------------------------------------------------------------
(* accept() fails on an aborted connection, which leaves the queue, or for *)
(* want of a descriptor or of memory, at any time, which leaves the        *)
(* connection waiting there.                                               *)
Bug_accept_logged ==             \* the scan does not go on
  /\ At(Listener)
  /\ \/ \E c \in Aborted : link' = [link EXCEPT ![c] = "closed"]
     \/ Waiting # {} /\ UNCHANGED link
  /\ pc' = "poll"
  /\ UNCHANGED <<sent, taken, wrote, got, fin, rst,
                 pfds, fd_count, fd_size, i, buf, polled, chatVars>>

accept_logged ==
  /\ At(Listener)
  /\ \/ \E c \in Aborted : link' = [link EXCEPT ![c] = "closed"]
     \/ Waiting # {} /\ UNCHANGED link
  /\ i' = i + 1
  /\ UNCHANGED <<sent, taken, wrote, got, fin, rst,
                 pfds, fd_count, fd_size, pc, buf, polled, chatVars>>

ChatRecv(c) ==
  /\ HandlerRecv(c)
  /\ j' = 0
  /\ rest' = buf'

(* One copy is queued: the next one, or the next slot of the scan.         *)
Bug_NextCopy ==                  \* the last entry of the array is forgotten
  /\ j' = j + 1
  /\ rest' = buf
  /\ IF j' < fd_count - 1 THEN UNCHANGED <<pc, i>> ELSE pc' = "scan" /\ i' = i + 1

NextCopy ==
  /\ j' = j + 1
  /\ rest' = buf
  /\ IF j' < fd_count THEN UNCHANGED <<pc, i>> ELSE pc' = "scan" /\ i' = i + 1

Bug_ChatSend(c) ==               \* what did not go out is sent after the rest of the buffer
  /\ pc = "send" /\ pfds[i].fd = c
  /\ ~rst[c] /\ Room(c) > 0
  /\ LET n == Lesser(Len(rest), Room(c))
     IN  /\ wrote' = [wrote EXCEPT ![c] = @ \o SubSeq(rest, Len(rest) - n + 1, Len(rest))]
         /\ IF n = Len(rest)
            THEN NextCopy
            ELSE /\ rest' = SubSeq(rest, 1, Len(rest) - n)
                 /\ UNCHANGED <<j, pc, i>>
  /\ UNCHANGED <<link, sent, taken, got, fin, rst,
                 pfds, fd_count, fd_size, buf, polled>>

ChatSend(c) ==
  /\ pc = "send" /\ pfds[i].fd = c
  /\ ~rst[c] /\ Room(c) > 0
  /\ LET n == Lesser(Len(rest), Room(c))
     IN  /\ wrote' = [wrote EXCEPT ![c] = @ \o SubSeq(rest, 1, n)]
         /\ IF n = Len(rest)
            THEN NextCopy
            ELSE /\ rest' = SubSeq(rest, n + 1, Len(rest))
                 /\ UNCHANGED <<j, pc, i>>
  /\ UNCHANGED <<link, sent, taken, got, fin, rst,
                 pfds, fd_count, fd_size, buf, polled>>

ChatSendFails(c) ==
  /\ pc = "send" /\ pfds[i].fd = c
  /\ rst[c]
  /\ NextCopy \/ (pc' = "killed" /\ UNCHANGED <<i, chatVars>>)
  /\ UNCHANGED <<peerVars, pfds, fd_count, fd_size, buf, polled>>

-----------------------------------------------------------------------------
ChatServe ==
  \/ (Poll \/ Skip \/ EndScan \/ realloc_fails) /\ UNCHANGED chatVars
  \/ accept_logged
  \/ \E c \in Clients :
       \/ (accept_conn(c) \/ HandlerClose(c)) /\ UNCHANGED chatVars
       \/ ChatRecv(c) \/ ChatSend(c) \/ ChatSendFails(c)

ChatNext ==
  \/ ChatServe
  \/ PollFails /\ UNCHANGED chatVars
  \/ \E c \in Clients : ClientStep(c) /\ UNCHANGED chatVars

ChatSpec     == ChatInit /\ [][ChatNext]_allVars
ChatFairSpec == ChatSpec /\ WF_allVars(ChatServe)

-----------------------------------------------------------------------------
(* Properties.                                                             *)

Occurrences(c, k) == Cardinality({n \in DOMAIN wrote[c] : wrote[c][n] = <<c, k>>})

(* The loop of poll_server.c is no broadcast: a client is sent its own     *)
(* bytes only.  On a sound connection every byte the server has dealt with *)
(* was sent once for the listener's entry, once for the client's own and   *)
(* at most once for each other client; that of the read being sent, j      *)
(* times or once more.                                                     *)
SenderGetsEveryCopy ==
  \A c \in Clients : ~rst[c] =>
    /\ \A n \in DOMAIN wrote[c] : wrote[c][n] \in {<<c, k>> : k \in 1 .. taken[c]}
    /\ \A k \in 1 .. taken[c] :
         IF pc = "send" /\ \E n \in DOMAIN buf : buf[n] = <<c, k>>
         THEN Occurrences(c, k) \in {j, j + 1}
         ELSE Occurrences(c, k) \in 2 .. Cardinality(Clients) + 1

(* The copies come one after the other, each in order: on a sound          *)
(* connection the first byte comes first, and a byte is followed by the    *)
(* next one of the stream or, where a copy ends and the next begins, by    *)
(* one from the same read.                                                 *)
CopiesInOrder ==
  \A c \in Clients : ~rst[c] =>
    /\ wrote[c] # <<>> => wrote[c][1] = <<c, 1>>
    /\ \A n \in 1 .. Len(wrote[c]) - 1 :
         LET k == wrote[c][n][2]
             l == wrote[c][n + 1][2]
         IN  l = k + 1 \/ (l <= k /\ k < l + BufSize)

(* The scan of poll_server.c comes to an end too, whatever accept() and    *)
(* send() fail at: in a round of sending, the copies and the bytes of the  *)
(* current one get fewer.                                                  *)
ChatScanWork ==
  IF pc = "send" THEN <<ToVisit, 0, fd_count - j, Len(rest)>> ELSE <<ToVisit, 1, 0, 0>>

ChatScanEnds ==
  [][Scanning /\ Scanning' => /\ Less(ChatScanWork', ChatScanWork)
                             /\ ChatScanWork' \in Nat \X Nat \X Nat \X Nat]_<<serverVars, chatVars>>

(* A failing accept() costs nobody else the service: every byte on an open *)
(* connection is sent back, also while accept() fails again and again and  *)
(* poll() reports the same queued connection for ever.                     *)
AcceptFailureIsLocal ==
  []<>~Stalled =>
    \A c \in Clients : \A k \in 1 .. MaxBytes :
      (link[c] = "open" /\ sent[c] >= k)
        ~> (Occurrences(c, k) >= 1 \/ rst[c] \/ ~Running)
=============================================================================
