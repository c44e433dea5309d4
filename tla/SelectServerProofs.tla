------------------------- MODULE SelectServerProofs -------------------------
(***************************************************************************)
(* Proofs about SelectServer.  What the server does with one client it     *)
(* shares with the sequential servers: every step of it is a Step of       *)
(* IterativeEchoProofs, whose invariant therefore holds.  Of the loop over *)
(* the ports there is more to say:                                         *)
(*   Loop          the types, and that a client is served at a port;       *)
(*   ScanFinds     of the ports the server has still to visit: what        *)
(*                 select() reported there still waits or was dropped.     *)
(***************************************************************************)
EXTENDS SelectServer, IterativeEchoProofs, FiniteSetTheorems

LoopStates == {"select", "getchar", "scan", "recv", "send"} \cup Down

Loop ==
  /\ spc \in LoopStates
  /\ i \in 1 .. NoPorts + 1
  /\ sockSet \subseteq Ports
  /\ bRunning \in BOOLEAN
  /\ stdin \in {"empty", "typed", "read"}
  /\ held \subseteq Clients
  /\ IsFiniteSet(held) /\ Cardinality(held) <= MaxOpen
  /\ conn \in held \cup {None}
  /\ spc \in {"recv", "send"} => i \in Ports
  /\ ready \subseteq Clients
  /\ \A c \in held : c \notin queue /\ cpc[c] # "connect"

(* The ports of the set still to be visited.                               *)
Ahead(p) == \/ spc \in {"getchar", "scan"} /\ i <= p
            \/ spc \in {"recv", "send"} /\ i < p

Dropped(c) == c \notin queue \cup held /\ end[c] = "rst"

ScanFinds ==
  \A p \in sockSet : Ahead(p) =>
    /\ Reported(p) = {} => ~bRunning \/ spc = "getchar"
    /\ \A c \in Reported(p) : c \in queue \/ Dropped(c)

SelInv == Inv /\ Loop /\ ScanFinds /\ ExitIsExplained

-----------------------------------------------------------------------------
(* Every step of the select() server is a step of the sequential ones.     *)
LEMMA SelNextIsStep ==
  ASSUME Inv, [SelNext]_allVars
  PROVE  Step
  <1> USE DEF Step, Down
  <1>1. CASE UNCHANGED vars
    BY <1>1
  <1>2. CASE World \/ KillServer
    BY <1>2 DEF KillServer
  <1>3. CASE OutOfDescriptors \/ AcceptConnectionFails \/ Stop
    BY <1>3 DEF OutOfDescriptors, AcceptConnectionFails, Stop
  <1>4. CASE Select \/ SelectFails \/ GetChar \/ EndScan
    <2>1. /\ Idle /\ Idle' /\ conn' = conn
          /\ UNCHANGED <<clientVars, end, gone, queue, taken, down, buf>>
      BY <1>4 DEF Select, SelectFails, GetChar, EndScan, Idle
    <2>. QED BY <2>1 DEF Pass, Inv, Hand
  <1>5. ASSUME NEW c \in Clients, AcceptConnection(c) PROVE Step
    BY <1>5 DEF AcceptConnection, At, Idle
  <1>6. ASSUME NEW c \in Clients, HandleClient(c) PROVE Step
    <2>1. CASE Handle(c)
      BY <2>1 DEF Handle, HandleFails
    <2>2. CASE ClientDone(c)
      BY <2>2 DEF ClientDone, Pass, Idle
    <2>. QED BY <1>6, <2>1, <2>2 DEF HandleClient
  <1>7. CASE SkipPort \/ HitReturn \/ UNCHANGED allVars
    BY <1>7, <1>1 DEF SkipPort, HitReturn, allVars
  <1>. QED BY <1>2, <1>3, <1>4, <1>5, <1>6, <1>7 DEF SelNext, SelServe, Interrupt

(* What the clients do leaves the server alone.                            *)
LEMMA WorldKeepsServer ==
  ASSUME World
  PROVE  UNCHANGED serverVars
  BY DEF World, ClientRuns, Connect, ConnectFails, Kill, Abort, Reset, DropAborted,
     ReceiveGreetings, SendString, SendNothing, ReceiveEcho, ClientFails

(* Its queue gains connections just made and loses those that were reset.  *)
LEMMA WorldQueue ==
  ASSUME Inv, World
  PROVE  \A c \in Clients :
           /\ c \in queue' \ queue => cpc[c] = "connect"
           /\ c \in queue \ queue' => end'[c] = "rst"
           /\ end[c] = "rst"       => end'[c] = "rst"
           /\ cpc[c] # "connect"   => cpc'[c] # "connect"
  <1>1. PICK d \in Clients : \/ Connect(d) \/ ConnectFails(d) \/ ClientRuns(d)
                             \/ Kill(d) \/ Abort(d) \/ Reset(d) \/ DropAborted(d)
    BY DEF World
  <1>2. CASE Connect(d) \/ ConnectFails(d)
    <2>1. /\ cpc[d] = "connect" /\ queue' \in {queue, queue \cup {d}} /\ end' = end
          /\ \A c \in Clients : c # d => cpc'[c] = cpc[c]
      BY <1>2 DEF Connect, ConnectFails, Inv, Types
    <2>. QED BY <2>1
  <1>3. CASE ClientRuns(d) \/ Kill(d) \/ Abort(d) \/ Reset(d)
    <2>1. /\ queue' = queue /\ cpc'[d] # "connect"
          /\ \A c \in Clients \ {d} : cpc'[c] = cpc[c] /\ end'[c] = end[c]
      BY <1>3, ClientKeeps, ClientGoesOn
    <2>2. end[d] = "rst" => end'[d] = "rst"
      <3>1. cpc[d] = "killed" /\ Step => (end[d] = "rst" => end'[d] = "rst")
        BY KilledStays
      <3>2. end[d] = "rst" => cpc[d] = "killed"
        BY ResetNeedsKilled
      <3>. QED BY <3>1, <3>2 DEF Step
    <2>. QED BY <2>1, <2>2
  <1>4. CASE DropAborted(d)
    <2>1. queue' = queue \ {d} /\ end' = end /\ cpc' = cpc /\ end[d] = "rst"
      BY <1>4, DropFacts DEF DropAborted
    <2>. QED BY <2>1
  <1>. QED BY <1>1, <1>2, <1>3, <1>4

-----------------------------------------------------------------------------
LEMMA SelInvInit ==
  ASSUME SelInit
  PROVE  SelInv
  <1>1. Inv
    BY InvInit DEF SelInit
  <1>2. Loop
    BY SelectAssumption, FS_EmptySet DEF SelInit, InitAt, Loop, LoopStates, Ports
  <1>3. ScanFinds /\ ExitIsExplained
    BY DEF SelInit, InitAt, ScanFinds, ExitIsExplained, Ahead
  <1>. QED BY <1>1, <1>2, <1>3 DEF SelInv

LEMMA LoopStep ==
  ASSUME Inv, Loop, [SelNext]_allVars
  PROVE  Loop'
  <1> USE SelectAssumption DEF LoopStates, Ports
  <1>1. CASE Select \/ SelectFails \/ GetChar \/ EndScan
    <2>1. CASE Select \/ SelectFails
      <3>1. /\ sockSet' \subseteq Ports /\ i' = 1 /\ spc' \in LoopStates
            /\ ready' \subseteq Clients /\ UNCHANGED <<queue, cpc>>
        BY <2>1 DEF Select, SelectFails, Pending, clientVars, Inv, Types
      <3>2. 1 \in 1 .. NoPorts + 1
        OBVIOUS
      <3>3. UNCHANGED <<bRunning, stdin, held, conn>> /\ spc' \notin {"recv", "send"}
        BY <2>1 DEF Select, SelectFails
      <3>. QED BY <3>1, <3>2, <3>3 DEF Loop
    <2>2. CASE GetChar
      BY <2>2 DEF Loop, GetChar, clientVars
    <2>3. CASE EndScan
      BY <2>3 DEF Loop, EndScan, clientVars
    <2>. QED BY <1>1, <2>1, <2>2, <2>3
  <1>2. CASE SkipPort \/ HitReturn
    <2>1. CASE SkipPort
      <3>1. i' \in 1 .. NoPorts + 1 /\ i \in Ports
        BY <2>1 DEF SkipPort, At
      <3>2. /\ UNCHANGED <<spc, conn, sockSet, bRunning, stdin, held, ready, queue, cpc>>
            /\ spc = "scan"
        BY <2>1 DEF SkipPort, At, vars, clientVars, serverVars
      <3>. QED BY <3>1, <3>2 DEF Loop
    <2>2. CASE HitReturn
      BY <2>2 DEF Loop, HitReturn, vars, clientVars, serverVars
    <2>. QED BY <1>2, <2>1, <2>2
  <1>3. CASE \E p \in Down : Die(p) /\ UNCHANGED selectVars
    BY <1>3 DEF Loop, Die, clientVars, selectVars, Down
  <1>4. ASSUME NEW c \in Clients, AcceptConnection(c) PROVE Loop'
    <2>1. /\ held' = held \cup {c} /\ conn' = c /\ i \in Ports
          /\ spc' \in {"recv", "send"}
          /\ UNCHANGED <<i, sockSet, bRunning, stdin, ready, cpc>>
          /\ Cardinality(held) < MaxOpen
          /\ queue' = queue \ {c} /\ cpc[c] # "connect"
      BY <1>4 DEF AcceptConnection, Serving, At, clientVars, Inv, Fresh
    <2>2. IsFiniteSet(held') /\ Cardinality(held') <= MaxOpen
      <3>1. IsFiniteSet(held) /\ Cardinality(held) \in Nat
        BY FS_CardinalityType DEF Loop
      <3>2. /\ IsFiniteSet(held \cup {c})
            /\ Cardinality(held \cup {c}) = Cardinality(held)
               \/ Cardinality(held \cup {c}) = Cardinality(held) + 1
        BY <3>1, FS_AddElement
      <3>. QED BY <2>1, <3>1, <3>2
    <2>. QED BY <1>4, <2>1, <2>2 DEF Loop
  <1>5. ASSUME NEW c \in Clients, HandleClient(c) PROVE Loop'
    <2>1. CASE Recv(c) /\ UNCHANGED selectVars
      BY <2>1 DEF Loop, Recv, selectVars, clientVars
    <2>2. CASE Send(c) /\ UNCHANGED selectVars
      BY <2>2 DEF Loop, Send, selectVars, clientVars
    <2>3. CASE HandleFails(c) /\ UNCHANGED selectVars
      BY <2>3, <1>3 DEF HandleFails, Down
    <2>4. CASE ClientDone(c)
      BY <2>4 DEF Loop, ClientDone, StreamEnds, clientVars
    <2>. QED BY <1>5, <2>1, <2>2, <2>3, <2>4 DEF HandleClient, Handle
  <1>6. CASE World /\ UNCHANGED selectVars
    <2>1. /\ UNCHANGED <<spc, conn, i, sockSet, bRunning, stdin, held, ready>>
      BY <1>6, WorldKeepsServer DEF serverVars, selectVars
    <2>2. \A c \in held : c \notin queue' /\ cpc'[c] # "connect"
      BY <1>6, WorldQueue DEF Loop
    <2>. QED BY <2>1, <2>2 DEF Loop
  <1>7. CASE UNCHANGED allVars
    BY <1>7 DEF Loop, allVars, vars, clientVars, serverVars, selectVars
  <1>8. AcceptConnectionFails \/ OutOfDescriptors \/ Stop \/ Interrupt =>
          \E p \in Down : Die(p) /\ UNCHANGED selectVars
    BY DEF AcceptConnectionFails, OutOfDescriptors, Stop, Interrupt, KillServer, Down
  <1>. QED BY <1>1, <1>2, <1>3, <1>4, <1>5, <1>6, <1>7, <1>8 DEF SelNext, SelServe

(* What the steps that change ScanFinds have to show of a port ahead.      *)
LEMMA StillReported ==
  ASSUME Inv, Loop, ScanFinds, NEW p \in sockSet, Ahead(p),
         UNCHANGED <<ready, bRunning>>, spc = "getchar" => spc' = "getchar",
         \A c \in Reported(p) :
           /\ c \in queue => c \in queue' \/ Dropped(c)'
           /\ Dropped(c)   => Dropped(c)'
  PROVE  /\ Reported(p)' = {} => ~bRunning' \/ spc' = "getchar"
         /\ \A c \in Reported(p)' : c \in queue' \/ Dropped(c)'
  <1>1. Reported(p)' = Reported(p)
    BY DEF Reported
  <1>. QED BY <1>1 DEF ScanFinds

(* The server takes a connection of a port only while the loop is there.   *)
LEMMA ScanFindsStep ==
  ASSUME Inv, Loop, ScanFinds, [SelNext]_allVars
  PROVE  ScanFinds'
  <1> USE SelectAssumption DEF Ports
  <1>0. i \in Nat /\ \A p \in sockSet : p \in Nat /\ p \in Ports
    BY DEF Loop
  <1>kept. ASSUME UNCHANGED <<sockSet, ready, bRunning, held, queue, end>>,
                  spc = "getchar" => spc' = "getchar",
                  \A p \in sockSet : Ahead(p)' => Ahead(p)
           PROVE  ScanFinds'
    BY <1>kept DEF ScanFinds, Reported, Dropped
  <1>1. CASE Select
    <2>1. sockSet' = Pending /\ ready' = queue /\ queue' = queue
      BY <1>1 DEF Select
    <2>2. ASSUME NEW p \in sockSet' PROVE Reported(p)' # {}
      BY <2>1, <2>2 DEF Pending, Waiting, Reported
    <2>3. \A p \in sockSet' : \A c \in Reported(p)' : c \in queue'
      BY <2>1 DEF Reported
    <2>. QED BY <2>2, <2>3 DEF ScanFinds
  <1>2. CASE SelectFails
    BY <1>2 DEF ScanFinds, SelectFails, Reported
  <1>3. CASE GetChar
    <2>1. /\ spc = "getchar" /\ bRunning' = FALSE
          /\ UNCHANGED <<sockSet, ready, held, queue, end, i>>
      BY <1>3 DEF GetChar
    <2>2. spc' = "scan"
      BY <1>3 DEF GetChar
    <2>3. \A p \in sockSet : Ahead(p)' => Ahead(p)
      BY <2>1, <2>2 DEF Ahead
    <2>. QED BY <2>1, <2>3 DEF ScanFinds, Reported, Dropped
  <1>4. CASE EndScan
    BY <1>4 DEF ScanFinds, EndScan, Ahead
  <1>5. CASE SkipPort
    <2>1. /\ spc = "scan" /\ spc' = "scan" /\ i' = i + 1
          /\ UNCHANGED <<sockSet, ready, bRunning, held, queue, end>>
      BY <1>5 DEF SkipPort, At, vars, serverVars
    <2>2. \A p \in sockSet : Ahead(p)' => Ahead(p)
      BY <1>0, <2>1 DEF Ahead
    <2>. QED BY <1>kept, <2>1, <2>2
  <1>6. CASE \E p \in Down : Die(p) /\ UNCHANGED selectVars
    BY <1>6 DEF ScanFinds, Die, Down, Ahead
  <1>7. ASSUME NEW c \in Clients, AcceptConnection(c) PROVE ScanFinds'
    <2>1. /\ spc = "scan" /\ i = Port[c] /\ spc' \in {"recv", "send"}
          /\ queue' = queue \ {c} /\ held' = held \cup {c}
          /\ UNCHANGED <<i, sockSet, bRunning, ready, end>>
      BY <1>7 DEF AcceptConnection, Serving, At
    <2>2. ASSUME NEW p \in sockSet, Ahead(p)'
          PROVE  /\ Reported(p)' = {} => ~bRunning' \/ spc' = "getchar"
                 /\ \A d \in Reported(p)' : d \in queue' \/ Dropped(d)'
      <3>1. i < p
        BY <2>1, <2>2 DEF Ahead
      <3>2. c \notin Reported(p)
        BY <1>0, <2>1, <3>1 DEF Reported
      <3>3. Ahead(p)
        BY <1>0, <2>1, <3>1 DEF Ahead
      <3>4. \A d \in Reported(p) : /\ d \in queue => d \in queue'
                                   /\ Dropped(d) => Dropped(d)'
        BY <2>1, <3>2 DEF Dropped
      <3>. QED BY <2>1, <3>3, <3>4, StillReported
    <2>. QED BY <2>1, <2>2 DEF ScanFinds
  <1>8. ASSUME NEW c \in Clients, HandleClient(c) PROVE ScanFinds'
    <2>1. CASE (Recv(c) \/ Send(c)) /\ UNCHANGED selectVars
      <3>1. /\ spc \in {"recv", "send"} /\ spc' \in {"recv", "send"}
            /\ UNCHANGED <<i, sockSet, ready, bRunning, held, queue, end>>
        BY <2>1 DEF Recv, Send, selectVars
      <3>2. \A p \in sockSet : Ahead(p)' => Ahead(p)
        BY <3>1 DEF Ahead
      <3>. QED BY <1>kept, <3>1, <3>2
    <2>2. CASE HandleFails(c) /\ UNCHANGED selectVars
      BY <2>2, <1>6 DEF HandleFails, Down
    <2>3. CASE ClientDone(c)
      <3>1. /\ spc = "recv" /\ spc' = "scan" /\ i' = i + 1
            /\ UNCHANGED <<sockSet, ready, bRunning, held, queue, end>>
        BY <2>3 DEF ClientDone, StreamEnds
      <3>2. \A p \in sockSet : Ahead(p)' => Ahead(p)
        BY <1>0, <3>1 DEF Ahead
      <3>. QED BY <1>kept, <3>1, <3>2
    <2>. QED BY <1>8, <2>1, <2>2, <2>3 DEF HandleClient, Handle
  <1>9. CASE World /\ UNCHANGED selectVars
    <2>1. UNCHANGED <<spc, i, sockSet, ready, bRunning, held>>
      BY <1>9, WorldKeepsServer DEF serverVars, selectVars
    <2>2. ASSUME NEW p \in sockSet, Ahead(p)'
          PROVE  /\ Reported(p)' = {} => ~bRunning' \/ spc' = "getchar"
                 /\ \A d \in Reported(p)' : d \in queue' \/ Dropped(d)'
      <3>1. Ahead(p)
        BY <2>1, <2>2 DEF Ahead
      <3>2. ASSUME NEW d \in Reported(p)
            PROVE  /\ d \in queue => d \in queue' \/ Dropped(d)'
                   /\ Dropped(d)   => Dropped(d)'
        <4>1. d \in Clients /\ held' = held
          BY <2>1 DEF Reported, Loop
        <4>2. /\ d \in queue' \ queue => cpc[d] = "connect"
              /\ d \in queue \ queue' => end'[d] = "rst"
              /\ end[d] = "rst" => end'[d] = "rst" /\ cpc[d] = "killed"
          BY <1>9, <4>1, WorldQueue, ResetNeedsKilled
        <4>3. d \in queue => d \notin held
          BY DEF Loop
        <4>. QED BY <4>1, <4>2, <4>3 DEF Dropped
      <3>. QED BY <2>1, <3>1, <3>2, StillReported
    <2>. QED BY <2>1, <2>2 DEF ScanFinds
  <1>10. CASE HitReturn \/ UNCHANGED allVars
    <2>1. UNCHANGED <<spc, i, sockSet, ready, bRunning, held, queue, end>>
      BY <1>10 DEF HitReturn, selectVars, allVars, vars, serverVars
    <2>2. \A p \in sockSet : Ahead(p)' => Ahead(p)
      BY <2>1 DEF Ahead
    <2>. QED BY <1>kept, <2>1, <2>2
  <1>11. AcceptConnectionFails \/ OutOfDescriptors \/ Stop \/ Interrupt =>
           \E p \in Down : Die(p) /\ UNCHANGED selectVars
    BY DEF AcceptConnectionFails, OutOfDescriptors, Stop, Interrupt, KillServer, Down
  <1>. QED BY <1>1, <1>2, <1>3, <1>4, <1>5, <1>6, <1>7, <1>8, <1>9, <1>10, <1>11
           DEF SelNext, SelServe

LEMMA SelExitStep ==
  ASSUME Inv, Loop, ExitIsExplained, [SelNext]_allVars
  PROVE  ExitIsExplained'
  <1> SUFFICES ASSUME spc' = "exited"
               PROVE  \E c \in held' : cpc'[c] = "killed" /\ end'[c] = "rst"
    BY DEF ExitIsExplained
  <1>1. CASE spc = "exited"
    <2>1. held' = held
      BY <1>1 DEF SelNext, SelServe, Select, SelectFails, GetChar, SkipPort, OutOfDescriptors,
         AcceptConnectionFails, EndScan, Stop, AcceptConnection, At, HandleClient, ClientDone,
         StreamEnds, Interrupt, HitReturn, selectVars, allVars
    <2>2. \A c \in held : cpc[c] = "killed" /\ end[c] = "rst"
                           => cpc'[c] = "killed" /\ end'[c] = "rst"
      BY SelNextIsStep, KilledStays DEF Loop
    <2>. QED BY <1>1, <2>1, <2>2 DEF ExitIsExplained
  <1>2. ASSUME NEW c \in Clients, HandleFails(c), UNCHANGED selectVars
        PROVE  \E d \in held' : cpc'[d] = "killed" /\ end'[d] = "rst"
    <2>1. held' = held /\ c \in held /\ UNCHANGED <<cpc, end>> /\ end[c] = "rst"
      BY <1>2, IterativeAssumption DEF HandleFails, Die, selectVars, clientVars, Loop
    <2>. QED BY <2>1, ResetNeedsKilled
  <1>3. CASE spc # "exited" /\ ~ \E c \in Clients : HandleFails(c) /\ UNCHANGED selectVars
    <2>1. \/ \E c \in Clients : AcceptConnection(c) \/ Recv(c) \/ Send(c) \/ ClientDone(c)
          \/ Select \/ SelectFails \/ GetChar \/ EndScan \/ Stop \/ Interrupt
          \/ AcceptConnectionFails
          \/ UNCHANGED serverVars
      BY <1>3, WorldKeepsServer DEF SelNext, SelServe, HandleClient, Handle, SkipPort, HitReturn,
         OutOfDescriptors, vars, allVars
    <2>2. spc' # "exited"
      BY <1>3, <2>1 DEF AcceptConnection, Serving, Recv, Send, ClientDone, Select, SelectFails,
         GetChar, EndScan, Stop, Interrupt, AcceptConnectionFails, KillServer, Die, serverVars
    <2>. QED BY <2>2
  <1>. QED BY <1>1, <1>2, <1>3

LEMMA SelInvAlways == SelSpec => []SelInv
  <1>1. SelInit => SelInv
    BY SelInvInit
  <1>2. SelInv /\ [SelNext]_allVars => SelInv'
    BY SelNextIsStep, StepInv, LoopStep, ScanFindsStep, SelExitStep DEF SelInv
  <1>. QED BY <1>1, <1>2, PTL DEF SelSpec

LEMMA SelWaitsAlways == SelSpec => []Waits
  <1>1. SelInit => Waits
    BY WaitsInit DEF SelInit
  <1>2. SelInv /\ Waits /\ [SelNext]_allVars => Waits'
    BY SelNextIsStep, WaitsStep DEF SelInv
  <1>. QED BY <1>1, <1>2, SelInvAlways, PTL DEF SelSpec

-----------------------------------------------------------------------------
(* The main loop's variables keep their types, and the server never holds  *)
(* more connections than its descriptors allow.                            *)
THEOREM SelTypeCorrect == SelSpec => []SelTypeOK
  <1>1. SelInv => SelTypeOK
    BY DEF SelInv, Loop, LoopStates, SelTypeOK
  <1>. QED BY <1>1, SelInvAlways, PTL

(* The loop over the ports calls accept() where nobody waits only after a  *)
(* failed select() and Return, or where every connection that select()     *)
(* reported was reset and dropped while the ports before were served.      *)
THEOREM WaitCorrect == SelSpec => []WaitIsExplained
  <1>1. SelInv => WaitIsExplained
    <2> SUFFICES ASSUME SelInv, AcceptWaits
                 PROVE  /\ Reported(i) = {} => ~bRunning
                        /\ \A c \in Reported(i) : c \notin queue \cup held /\ end[c] = "rst"
      BY DEF WaitIsExplained
    <2>1. PICK p \in sockSet : At(p) /\ Waiting(p) = {}
      BY DEF AcceptWaits
    <2>2. spc = "scan" /\ i = p /\ p \in Nat
      BY <2>1, SelectAssumption DEF At, Ports
    <2>3. Ahead(p)
      BY <2>2 DEF Ahead
    <2>4. \A c \in Reported(p) : c \notin queue
      BY <2>1 DEF Reported, Waiting, SelInv, Inv, Types
    <2>. QED BY <2>2, <2>3, <2>4 DEF SelInv, ScanFinds, Dropped
  <1>. QED BY <1>1, SelInvAlways, PTL

(* While it serves, the server calls exit() or dies of SIGPIPE only because*)
(* of a client it has accepted, that was killed and whose connection was   *)
(* reset.  A failing accept() is another end, and not meant here.          *)
THEOREM SelExitCorrect == SelSpec => []ExitIsExplained
  <1>1. SelInv => ExitIsExplained
    BY DEF SelInv
  <1>. QED BY <1>1, SelInvAlways, PTL

(* The select() server implements EchoService on every port.               *)
THEOREM SelImplementsEchoService == SelSpec => ImplementsEcho
  <1>1. SelInit => Echo!Init
    BY EchoInit DEF SelInit
  <1>2. SelInv /\ [SelNext]_allVars => [Echo!Next]_<<sent, EchoOf>>
    BY SelNextIsStep, EchoStep DEF SelInv
  <1>. QED BY <1>1, <1>2, SelInvAlways, PTL DEF SelSpec, ImplementsEcho, Echo!Spec, EchoOf

(* Its clients, too, finish with their own string, and are blocked with    *)
(* the server only by a string too long for the room there is.             *)
THEOREM SelClientsCorrect == SelSpec => [](DoneMeansEchoed /\ MutualBlockNeedsLongString)
  <1>1. SelInv => DoneMeansEchoed /\ MutualBlockNeedsLongString
    BY InvDone, InvMutualBlock DEF SelInv
  <1>. QED BY <1>1, SelInvAlways, PTL

(* The loop over the ports forgets no connection either, wherever it was   *)
(* made, and waits for a client that could not go on only in the block of  *)
(* two send()s.                                                            *)
THEOREM SelNobodyWaitsInVain == SelSpec => []NobodyWaitsInVain
  <1>1. SelInv /\ Waits => NobodyWaitsInVain
    BY WaitsNobodyForgotten, WaitsOnlyMutualBlock DEF SelInv, NobodyWaitsInVain
  <1>. QED BY <1>1, SelInvAlways, SelWaitsAlways, PTL
=============================================================================
