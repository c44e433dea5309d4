----------------------------- MODULE SigioEcho -----------------------------
(***************************************************************************)
(* The signal-driven UDP echo server,                                      *)
(* Sockets_in_C/ch06/UDPEchoServer-SIGIO.c: main() binds a socket, installs*)
(* a handler for SIGIO, asks for the signal with FASYNC and goes off to do *)
(* other work; the handler drains the socket.                              *)
(*                                                                         *)
(* A datagram is <<k, l>>: the k-th to reach the socket, l bytes long.     *)
(* SIGIO does not count: it is pending or not.  sigfillset() keeps it      *)
(* pending while the handler runs.  main() can be interrupted between any  *)
(* two of its calls, and datagrams arrive at any time after bind().        *)
(***************************************************************************)
EXTENDS Naturals, Sequences, SequencesExt

CONSTANTS
  MaxArrivals,  \* bound: datagrams that reach the socket
  MaxLen,       \* bound: their length
  QueueCap,     \* datagrams the socket's receive buffer holds
  BufLen        \* sizeof(buf) in SIGIOHandler()

ASSUME SigioAssumption ==
  /\ MaxArrivals \in Nat /\ MaxLen \in Nat
  /\ QueueCap \in Nat \ {0} /\ BufLen \in Nat \ {0}

VARIABLES
  mainPc,     \* the call main() makes next: "sigaction", "setown", "setfl", "idle"
  handlerPc,  \* "out", or the call the handler makes next: "recvfrom", "sendto"
  sigio,      \* SIGIO is pending
  alive,      \* the process has not called exit()
  queue,      \* datagrams in the socket's receive buffer
  arrivals,   \* datagrams that have reached the socket
  hand,       \* the datagram in the handler's buf
  echoed,     \* what sendto() has sent
  early,      \* history: how many arrived before FASYNC was set
  last        \* history: the length of the last datagram received, or None

vars == <<mainPc, handlerPc, sigio, alive, queue, arrivals, hand, echoed, early, last>>

Datagram == (1 .. MaxArrivals) \X (0 .. MaxLen)
Received == (1 .. MaxArrivals) \X (0 .. BufLen)
None     == BufLen + 1

TypeOK ==
  /\ mainPc \in {"sigaction", "setown", "setfl", "idle"}
  /\ handlerPc \in {"out", "recvfrom", "sendto"}
  /\ sigio \in BOOLEAN
  /\ alive \in BOOLEAN
  /\ queue \in Seq(Datagram) /\ Len(queue) <= QueueCap
  /\ arrivals \in 0 .. MaxArrivals
  /\ hand \in Seq(Received) /\ Len(hand) <= 1
  /\ echoed \in Seq(Received)
  /\ early \in 0 .. MaxArrivals
  /\ last \in 0 .. None

(* socket() and bind() have succeeded.                                     *)
Init ==
  /\ mainPc = "sigaction" /\ handlerPc = "out"
  /\ sigio = FALSE /\ alive = TRUE
  /\ queue = <<>> /\ arrivals = 0
  /\ hand = <<>> /\ echoed = <<>>
  /\ early = 0 /\ last = None

-----------------------------------------------------------------------------
(* The kernel: a datagram is queued, or dropped when the buffer is full;   *)
(* with FASYNC set one that is queued raises SIGIO.                        *)
Arrive(l) ==
  /\ arrivals < MaxArrivals
  /\ arrivals' = arrivals + 1
  /\ IF Len(queue) < QueueCap
     THEN /\ queue' = Append(queue, <<arrivals + 1, l>>)
          /\ sigio' = (sigio \/ mainPc = "idle")
     ELSE UNCHANGED <<queue, sigio>>
  /\ early' = IF mainPc = "idle" THEN early ELSE arrivals + 1
  /\ UNCHANGED <<mainPc, handlerPc, alive, hand, echoed, last>>

-----------------------------------------------------------------------------
(* main(), from sigaction() on.  It runs only while no handler does.  The  *)
(* idle loop prints and sleeps: it changes nothing the server keeps.       *)
MainRuns == alive /\ handlerPc = "out"

Sigaction ==
  /\ MainRuns /\ mainPc = "sigaction"
  /\ mainPc' = "setown"
  /\ UNCHANGED <<handlerPc, sigio, alive, queue, arrivals, hand, echoed, early, last>>

SetOwn ==
  /\ MainRuns /\ mainPc = "setown"
  /\ mainPc' = "setfl"
  /\ UNCHANGED <<handlerPc, sigio, alive, queue, arrivals, hand, echoed, early, last>>

SetAsync ==
  /\ MainRuns /\ mainPc = "setfl"
  /\ mainPc' = "idle"
  /\ UNCHANGED <<handlerPc, sigio, alive, queue, arrivals, hand, echoed, early, last>>

(* Any of the three calls may fail, and then main() exits.                 *)
SetupFails ==
  /\ MainRuns /\ mainPc # "idle"
  /\ alive' = FALSE
  /\ UNCHANGED <<mainPc, handlerPc, sigio, queue, arrivals, hand, echoed, early, last>>

-----------------------------------------------------------------------------
(* SIGIOHandler().                                                         *)
DeliverSignal ==
  /\ MainRuns /\ mainPc = "idle" /\ sigio
  /\ sigio' = FALSE
  /\ handlerPc' = "recvfrom"
  /\ UNCHANGED <<mainPc, alive, queue, arrivals, hand, echoed, early, last>>

(* recvfrom() cuts a datagram to the buffer.                               *)
Cut(d) == IF d[2] <= BufLen THEN d ELSE <<d[1], BufLen>>

RecvFrom ==
  /\ alive /\ handlerPc = "recvfrom"
  /\ queue # <<>>
  /\ hand' = <<Cut(Head(queue))>>
  /\ last' = hand'[1][2]
  /\ queue' = Tail(queue)
  /\ handlerPc' = "sendto"
  /\ UNCHANGED <<mainPc, sigio, alive, arrivals, echoed, early>>

(* EWOULDBLOCK: numBytesRcvd is -1, which ends the loop.                   *)
RecvFromEmpty ==
  /\ alive /\ handlerPc = "recvfrom"
  /\ queue = <<>>
  /\ handlerPc' = "out"
  /\ last' = None
  /\ UNCHANGED <<mainPc, sigio, alive, queue, arrivals, hand, echoed, early>>

(* Any other error of recvfrom(), and any error of sendto(), is fatal;     *)
(* a full send buffer is one, since the socket does not block.             *)
Bug_CallFails ==                 \* the datagram at hand is given up, the server goes on
  /\ alive /\ handlerPc = "sendto"
  /\ hand' = <<>>
  /\ handlerPc' = "recvfrom"
  /\ UNCHANGED <<mainPc, sigio, alive, queue, arrivals, echoed, early, last>>

CallFails ==
  /\ alive /\ handlerPc # "out"
  /\ alive' = FALSE
  /\ UNCHANGED <<mainPc, handlerPc, sigio, queue, arrivals, hand, echoed, early, last>>

(* The echo; while (numBytesRcvd > 0) goes on only after a datagram that   *)
(* was not empty.                                                          *)
Bug_SendTo ==                    \* one datagram for one signal
  /\ alive /\ handlerPc = "sendto"
  /\ echoed' = echoed \o hand
  /\ hand' = <<>>
  /\ handlerPc' = "out"
  /\ UNCHANGED <<mainPc, sigio, alive, queue, arrivals, early, last>>

SendTo ==
  /\ alive /\ handlerPc = "sendto"
  /\ echoed' = echoed \o hand
  /\ hand' = <<>>
  /\ handlerPc' = IF hand[1][2] > 0 THEN "recvfrom" ELSE "out"
  /\ UNCHANGED <<mainPc, sigio, alive, queue, arrivals, early, last>>

-----------------------------------------------------------------------------
Setup   == Sigaction \/ SetOwn \/ SetAsync
Handler == DeliverSignal \/ RecvFrom \/ RecvFromEmpty \/ SendTo

Next ==
  \/ \E l \in 0 .. MaxLen : Arrive(l)
  \/ Setup \/ SetupFails
  \/ Handler \/ CallFails

Spec == Init /\ [][Next]_vars

(* The kernel runs the process, delivers a pending signal and the handler  *)
(* is a loop without a wait.  Nothing has to arrive.                       *)
FairSpec == Spec /\ WF_vars(Setup) /\ WF_vars(Handler)

-----------------------------------------------------------------------------
(* Properties.                                                             *)

Number(d) == d[1]
Numbers(s) == {Number(s[n]) : n \in DOMAIN s}

(* Every datagram the socket has accepted and not lost since, in order.    *)
Accepted == [n \in 1 .. Len(echoed \o hand \o queue) |->
               Number((echoed \o hand \o queue)[n])]

(* Once accepted by the socket a datagram is neither lost nor duplicated   *)
(* nor overtaken on its way through the handler: what is accepted grows at *)
(* its end alone.                                                          *)
AcceptedOnlyGrows == [][IsPrefix(Accepted, Accepted')]_vars

(* When the program is back at its real work with no signal pending, a     *)
(* datagram that still waits in the socket was either there before FASYNC  *)
(* was set, or the last drain ended at an empty datagram.                  *)
StrandedIsExplained ==
  (MainRuns /\ mainPc = "idle" /\ ~sigio /\ queue # <<>>)
    => last = 0 \/ \A n \in DOMAIN queue : Number(queue[n]) <= early

(* Signals that coalesce lose nothing: if no empty datagram is received,   *)
(* every datagram accepted after FASYNC was set is echoed, or the process  *)
(* exits on an error.                                                      *)
LateDatagramsEchoed ==
  [](last # 0) =>
    \A k \in 1 .. MaxArrivals :
      (mainPc = "idle" /\ k > early /\ k \in Numbers(queue))
        ~> (k \in Numbers(echoed) \/ ~alive)

(* "Go off and do real work; echoing happens in the background": once      *)
(* main() is at its real work, what waits in the socket gets echoed.       *)
EchoingHappensInBackground ==
  \A k \in 1 .. MaxArrivals :
    (mainPc = "idle" /\ k \in Numbers(queue)) ~> (k \in Numbers(echoed) \/ ~alive)
=============================================================================
