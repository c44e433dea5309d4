------------------------------ MODULE TcpPeers ------------------------------
(***************************************************************************)
(* The world around a TCP server of this repository: the clients and the   *)
(* two byte streams the kernel keeps for each connection.  None of it is   *)
(* code of the repository; it is modelled from the calls the servers make  *)
(* (accept, recv, send, close) and from what those calls can return.       *)
(*                                                                         *)
(* A byte is named by its sender and its position, <<c, k>>, so a byte     *)
(* that is lost, repeated, reordered or sent to somebody else shows.       *)
(* The stream from client c to the server is Stream(c, sent[c]); the       *)
(* server has consumed its first taken[c] bytes.  The stream from the      *)
(* server to c is wrote[c]; c has read its first got[c] bytes.             *)
(***************************************************************************)
EXTENDS Naturals, Sequences

CONSTANTS
  Clients,   \* the client processes; each opens one connection
  MaxBytes,  \* bound: the number of bytes a client sends on its connection
  SndCap     \* the number of unread bytes the kernel holds for a client

ASSUME PeersAssumption ==
  /\ MaxBytes \in Nat
  /\ SndCap \in Nat \ {0}

VARIABLES
  link,   \* the connection of a client as the server's kernel sees it
  sent,   \* bytes the client has written
  taken,  \* bytes recv() has returned to the server
  wrote,  \* the bytes the server's send() calls have queued
  got,    \* how many of them the client has read
  fin,    \* the client has closed its socket
  rst     \* a reset has reached the server's end of the connection

peerVars == <<link, sent, taken, wrote, got, fin, rst>>

Links == {"new", "pending", "aborted", "open", "closed"}
Byte  == Clients \X (1 .. MaxBytes)

(* The first n bytes of the stream of client c.                            *)
Stream(c, n) == [k \in 1 .. n |-> <<c, k>>]

PeersTypeOK ==
  /\ link  \in [Clients -> Links]
  /\ sent  \in [Clients -> 0 .. MaxBytes]
  /\ taken \in [Clients -> 0 .. MaxBytes]
  /\ wrote \in [Clients -> Seq(Byte)]
  /\ got   \in [Clients -> Nat]
  /\ fin   \in [Clients -> BOOLEAN]
  /\ rst   \in [Clients -> BOOLEAN]

PeersInit ==
  /\ link  = [c \in Clients |-> "new"]
  /\ sent  = [c \in Clients |-> 0]
  /\ taken = [c \in Clients |-> 0]
  /\ wrote = [c \in Clients |-> <<>>]
  /\ got   = [c \in Clients |-> 0]
  /\ fin   = [c \in Clients |-> FALSE]
  /\ rst   = [c \in Clients |-> FALSE]

-----------------------------------------------------------------------------
(* What a server can ask the kernel about a connection.                    *)

Unread(c)   == sent[c] - taken[c]          \* bytes recv() could return
Unacked(c)  == Len(wrote[c]) - got[c]      \* bytes the client has not read
Readable(c) == Unread(c) > 0 \/ fin[c] \/ rst[c]
Waiting     == {c \in Clients : link[c] = "pending"}
Aborted     == {c \in Clients : link[c] = "aborted"}

(* A client that closed before it had read the echo of all it sent.        *)
ClosedEarly(c) == fin[c] /\ got[c] < sent[c]

-----------------------------------------------------------------------------
(* The clients.                                                            *)

(* connect() completes as soon as the connection is in the listen queue.   *)
Connect(c) ==
  /\ link[c] = "new"
  /\ link' = [link EXCEPT ![c] = "pending"]
  /\ UNCHANGED <<sent, taken, wrote, got, fin, rst>>

Write(c) ==
  /\ link[c] \in {"pending", "open"} /\ ~fin[c]
  /\ sent[c] < MaxBytes
  /\ sent' = [sent EXCEPT ![c] = @ + 1]
  /\ UNCHANGED <<link, taken, wrote, got, fin, rst>>

Read(c) ==
  /\ ~fin[c]
  /\ \E n \in got[c] + 1 .. Len(wrote[c]) : got' = [got EXCEPT ![c] = n]
  /\ UNCHANGED <<link, sent, taken, wrote, fin, rst>>

(* close(); bytes that arrived and were not read turn the FIN into a RST.  *)
HangUp(c) ==
  /\ link[c] \in {"pending", "open"} /\ ~fin[c]
  /\ fin' = [fin EXCEPT ![c] = TRUE]
  /\ rst' = [rst EXCEPT ![c] = Unacked(c) > 0]
  /\ UNCHANGED <<link, sent, taken, wrote, got>>

(* A byte reaches a client that has closed: its kernel answers with a RST. *)
Reset(c) ==
  /\ link[c] = "open"
  /\ fin[c] /\ ~rst[c] /\ Unacked(c) > 0
  /\ rst' = [rst EXCEPT ![c] = TRUE]
  /\ UNCHANGED <<link, sent, taken, wrote, got, fin>>

(* A client gives up while its connection waits in the listen queue; the   *)
(* kernel either hands the aborted connection to accept(), which fails, or *)
(* drops it from the queue.                                                *)
Abort(c) ==
  /\ link[c] = "pending" /\ ~fin[c]
  /\ link' = [link EXCEPT ![c] = "aborted"]
  /\ UNCHANGED <<sent, taken, wrote, got, fin, rst>>

DropAborted(c) ==
  /\ link[c] = "aborted"
  /\ link' = [link EXCEPT ![c] = "closed"]
  /\ UNCHANGED <<sent, taken, wrote, got, fin, rst>>

PeerStep(c) ==
  \/ Connect(c) \/ Write(c) \/ Read(c) \/ HangUp(c)
  \/ Reset(c) \/ Abort(c) \/ DropAborted(c)
=============================================================================
