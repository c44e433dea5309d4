---------------------------- MODULE SelectServer ----------------------------
(***************************************************************************)
(* Sockets_in_C/ch06/TCPEchoServer-Select.c: one listening socket per      *)
(* port, and standard input, watched with select().  The connection it     *)
(* accepts it serves to the end, as the servers of IterativeEcho do, while *)
(* the other ports and the keyboard wait; it never closes it.  A select()  *)
(* that fails (a stopped and continued process sees EINTR) is taken for    *)
(* one that found everything ready.                                        *)
(*                                                                         *)
(* The clients are those of IterativeEcho; the server sends no greeting.   *)
(***************************************************************************)
EXTENDS IterativeEcho

CONSTANTS
  NoPorts,   \* ports on the command line
  Port,      \* the port each client connects to
  MaxOpen    \* connections the descriptor limit leaves room for

ASSUME SelectAssumption ==
  /\ Greeting = 0
  /\ NoPorts \in Nat \ {0}
  /\ Port \in [Clients -> 1 .. NoPorts]
  /\ MaxOpen \in Nat

VARIABLES
  i,         \* the index of the loop over the ports
  sockSet,   \* the ports select() left in its set
  bRunning,
  stdin,     \* "empty", "typed" once Return has been hit, "read" by getchar()
  held,      \* the connections accepted: their descriptors are never closed
  ready      \* history: the connections that were waiting when select()
             \* reported; none after it has failed, or between two scans

selectVars == <<i, sockSet, bRunning, stdin, held, ready>>
allVars    == <<vars, selectVars>>

Ports      == 1 .. NoPorts
Waiting(p) == {c \in queue : Port[c] = p}
Pending    == {p \in Ports : Waiting(p) # {}}
Reported(p) == {c \in ready : Port[c] = p}

(* spc has the states of IterativeEcho, except "accept", and those of the  *)
(* main loop.                                                              *)
SelTypeOK ==
  /\ spc \in {"select", "getchar", "scan", "recv", "send"} \cup Down
  /\ i \in 1 .. NoPorts + 1
  /\ sockSet \subseteq Ports
  /\ bRunning \in BOOLEAN
  /\ stdin \in {"empty", "typed", "read"}
  /\ held \subseteq Clients /\ Cardinality(held) <= MaxOpen
  /\ conn \in held \cup {None}
  /\ ready \subseteq Clients

SelInit ==
  /\ InitAt("select")
  /\ i = 1 /\ sockSet = {} /\ bRunning = TRUE
  /\ stdin = "empty" /\ held = {} /\ ready = {}

-----------------------------------------------------------------------------
Bug_Zero ==                      \* no FD_ZERO(): the old set is kept
  /\ spc = "select"
  /\ Pending # {} \/ stdin = "typed"
  /\ sockSet' = sockSet \cup Pending
  /\ ready' = queue
  /\ i' = 1
  /\ spc' = IF stdin = "typed" THEN "getchar" ELSE "scan"
  /\ UNCHANGED <<clientVars, end, gone, queue, conn, taken, down, buf,
                 bRunning, stdin, held>>

Bug_MaxDesc ==                   \* select(maxDesc, ...): the last port is not watched
  /\ spc = "select"
  /\ Pending \ {NoPorts} # {} \/ stdin = "typed"
  /\ sockSet' = Pending \ {NoPorts}
  /\ ready' = queue
  /\ i' = 1
  /\ spc' = IF stdin = "typed" THEN "getchar" ELSE "scan"
  /\ UNCHANGED <<clientVars, end, gone, queue, conn, taken, down, buf,
                 bRunning, stdin, held>>

(* select() returns with what is ready; a timeout only prints.             *)
Select ==
  /\ spc = "select"
  /\ Pending # {} \/ stdin = "typed"
  /\ sockSet' = Pending
  /\ ready' = queue
  /\ i' = 1
  /\ spc' = IF stdin = "typed" THEN "getchar" ELSE "scan"
  /\ UNCHANGED <<clientVars, end, gone, queue, conn, taken, down, buf,
                 bRunning, stdin, held>>

(* It fails and leaves the set as it was filled: everything in it.         *)
SelectFails ==
  /\ spc = "select"
  /\ sockSet' = Ports
  /\ ready' = {}
  /\ i' = 1
  /\ spc' = "getchar"
  /\ UNCHANGED <<clientVars, end, gone, queue, conn, taken, down, buf,
                 bRunning, stdin, held>>

Bug_GetChar ==                   \* bRunning is left alone
  /\ spc = "getchar" /\ stdin = "typed"
  /\ stdin' = "read"
  /\ spc' = "scan"
  /\ UNCHANGED <<clientVars, end, gone, queue, conn, taken, down, buf,
                 i, sockSet, bRunning, held, ready>>

(* "Shutting down server"                                                  *)
GetChar ==
  /\ spc = "getchar" /\ stdin = "typed"
  /\ stdin' = "read"
  /\ bRunning' = FALSE
  /\ spc' = "scan"
  /\ UNCHANGED <<clientVars, end, gone, queue, conn, taken, down, buf,
                 i, sockSet, held, ready>>

At(p) == spc = "scan" /\ i = p /\ p \in Ports

SkipPort ==
  /\ \E p \in Ports \ sockSet : At(p)
  /\ i' = i + 1
  /\ UNCHANGED <<vars, sockSet, bRunning, stdin, held, ready>>

AcceptConnection(c) ==
  /\ At(Port[c]) /\ Port[c] \in sockSet
  /\ c \in queue
  /\ Cardinality(held) < MaxOpen
  /\ held' = held \cup {c}
  /\ Serving(c)
  /\ UNCHANGED <<i, sockSet, bRunning, stdin, ready>>

(* accept() fails, for whatever cause, and the process ends.  It may fail  *)
(* at any time; out of descriptors it has no choice.                       *)
AcceptConnectionFails ==
  /\ \E p \in sockSet : At(p)
  /\ Die("acceptFailed")
  /\ UNCHANGED selectVars

OutOfDescriptors == Cardinality(held) >= MaxOpen /\ AcceptConnectionFails

Bug_ClientDone(c) ==             \* 0 is taken for an error
  /\ StreamEnds(c)
  /\ Die("exited")
  /\ UNCHANGED selectVars

(* HandleClient() returns; nobody closes the socket.                       *)
ClientDone(c) ==
  /\ StreamEnds(c)
  /\ spc' = "scan" /\ conn' = None
  /\ i' = i + 1
  /\ UNCHANGED <<clientVars, end, gone, queue, taken, down, buf,
                 sockSet, bRunning, stdin, held, ready>>

HandleClient(c) ==
  \/ Handle(c) /\ UNCHANGED selectVars
  \/ ClientDone(c)

(* The end of the loop over the ports, and of main() when it has been      *)
(* told to stop.                                                           *)
EndScan ==
  /\ spc = "scan" /\ i = NoPorts + 1
  /\ bRunning
  /\ spc' = "select"
  /\ ready' = {}
  /\ UNCHANGED <<clientVars, end, gone, queue, conn, taken, down, buf,
                 i, sockSet, bRunning, stdin, held>>

Stop ==
  /\ spc = "scan" /\ i = NoPorts + 1
  /\ ~bRunning
  /\ Die("stopped")
  /\ UNCHANGED selectVars

Interrupt == KillServer /\ UNCHANGED selectVars

(* Someone hits Return.                                                    *)
HitReturn ==
  /\ stdin = "empty" /\ Up
  /\ stdin' = "typed"
  /\ UNCHANGED <<vars, i, sockSet, bRunning, held, ready>>

-----------------------------------------------------------------------------
SelServe ==
  \/ Select \/ GetChar \/ SkipPort \/ OutOfDescriptors \/ EndScan \/ Stop
  \/ \E c \in Clients : AcceptConnection(c) \/ HandleClient(c)

SelNext == \/ SelServe \/ SelectFails \/ AcceptConnectionFails
           \/ Interrupt \/ HitReturn
           \/ World /\ UNCHANGED selectVars

SelSpec     == SelInit /\ [][SelNext]_allVars
SelFairSpec == SelSpec /\ WF_allVars(SelServe) /\ WorldFair
-----------------------------------------------------------------------------
(* Properties.                                                             *)

AcceptWaits == \E p \in sockSet : At(p) /\ Waiting(p) = {}

(* accept() waits for a client in two cases only.  select() failed, and    *)
(* then the server has been told to stop.  Or every connection select()    *)
(* reported at this port was reset while the server was busy with the      *)
(* ports before it, and dropped by the kernel: reported connections never  *)
(* go anywhere else, and no port is taken from an earlier report.          *)
WaitIsExplained ==
  AcceptWaits =>
    /\ Reported(i) = {} => ~bRunning
    /\ \A c \in Reported(i) : c \notin queue \cup held /\ end[c] = "rst"

(* recv() and send() end the server only through a client it has accepted, *)
(* that was killed and whose connection was reset.  (Its other ends are a  *)
(* failing accept(), Return and a signal.)                                 *)
ExitIsExplained ==
  spc = "exited" => \E c \in held : cpc[c] = "killed" /\ end[c] = "rst"

Stuck ==
  \/ AcceptWaits
  \/ spc = "getchar" /\ stdin # "typed"
  \/ \E c \in Clients : MutualBlock(c)

(* Unless the server hangs in one call, every client that has connected    *)
(* comes to an end, on every port, while others are served and while the   *)
(* server shuts down.                                                      *)
EveryClientEndsOnAnyPort ==
  []<>~Stuck =>
    \A c \in Clients :
      (cpc[c] \in Active) ~> (cpc[c] \in Ended \/ (Spins(c) /\ ~Up))

(* "Hit return to shutdown": under the same proviso the server then ends.  *)
ReturnShutsDown == []<>~Stuck => ((stdin = "typed") ~> ~Up)
=============================================================================
