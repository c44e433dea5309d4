--------------------------- MODULE IterativeEcho ---------------------------
(***************************************************************************)
(* The sequential TCP echo servers of Sockets_in_C/ch02, ch02-2 and ch03   *)
(* and their clients.  A server accepts a connection, in one program sends *)
(* a greeting, and echoes until the client closes; only then it accepts    *)
(* the next one.  A client sends its whole string with one send() and      *)
(* reads only after that.  Some clients do not look for the end of the     *)
(* stream: they are Heedless.                                              *)
(*                                                                         *)
(* The k-th byte of the string of client c is <<c, k>>, a byte of the      *)
(* greeting <<c, 0>>.  The kernel keeps what a client has sent and the     *)
(* server has not received, up to UpCap bytes, and what the server has     *)
(* sent and the client has not received, up to DownCap.                    *)
(***************************************************************************)
EXTENDS Naturals, Sequences, FiniteSets

CONSTANTS
  Clients,   \* each makes one connection
  Heedless,  \* those whose loops do not test recv() for 0
  None,      \* no client
  StrLen,    \* the lengths of their strings
  MaxLen,    \* the largest of them
  Greeting,  \* bytes of the greeting; 0 in the servers that send none
  BufSize,   \* BUF_SIZE of the server
  Backlog,   \* MAX_PENDING
  UpCap,     \* room in the kernel towards the server
  DownCap    \* and towards the client

ASSUME IterativeAssumption ==
  /\ None \notin Clients
  /\ Heedless \subseteq Clients
  /\ MaxLen \in Nat
  /\ StrLen \in [Clients -> 0 .. MaxLen]
  /\ Greeting \in Nat
  /\ {BufSize, Backlog, UpCap, DownCap} \subseteq Nat \ {0}

VARIABLES
  cpc,    \* a client: "connect", "greeting", "send", "recv", then its end
  sent,   \* bytes its send() has handed to the kernel
  got,    \* bytes its recv() has returned
  end,    \* what the server's kernel has heard of its end
  gone,   \* what its kernel has heard of the server's end
  queue,  \* connections in the listen queue
  spc,    \* the server: where it waits, or how it ended
  conn,   \* the client it serves
  taken,  \* bytes its recv() has returned
  down,   \* bytes its send() has handed to the kernel
  buf     \* what the current send() has still to hand over

clientVars == <<cpc, sent, got>>
serverVars == <<spc, conn, taken, down, buf>>
vars       == <<clientVars, end, gone, queue, serverVars>>

Byte      == Clients \X (0 .. MaxLen)
Hello(c)  == [k \in 1 .. Greeting |-> <<c, 0>>]
String(c) == [k \in 1 .. StrLen[c] |-> <<c, k>>]

Active == {"greeting", "send", "recv"}
Ended  == {"done", "failed", "killed"}
Down   == {"exited", "acceptFailed", "killed", "stopped"}
Signal == {"open", "fin", "rst"}

Lesser(m, n) == IF m < n THEN m ELSE n
Up           == spc \notin Down
ToTake(c)    == sent[c] - taken[c]
ToGet(c)     == Len(down[c]) - got[c]

(* The server sends no more than it received at a time, or its greeting.   *)
TypeOK ==
  /\ cpc \in [Clients -> {"connect"} \cup Active \cup Ended]
  /\ sent \in [Clients -> 0 .. MaxLen]
  /\ got \in [Clients -> 0 .. MaxLen + Greeting]
  /\ end \in [Clients -> Signal] /\ gone \in [Clients -> Signal]
  /\ queue \subseteq Clients
  /\ spc \in {"accept", "recv", "send"} \cup Down
  /\ conn \in Clients \cup {None}
  /\ taken \in [Clients -> 0 .. MaxLen]
  /\ down \in [Clients -> Seq(Byte)]
  /\ buf \in Seq(Byte) /\ (Len(buf) <= BufSize \/ Len(buf) <= Greeting)

InitAt(p) ==
  /\ cpc = [c \in Clients |-> "connect"]
  /\ sent = [c \in Clients |-> 0] /\ got = [c \in Clients |-> 0]
  /\ end = [c \in Clients |-> "open"] /\ gone = [c \in Clients |-> "open"]
  /\ queue = {}
  /\ spc = p /\ conn = None
  /\ taken = [c \in Clients |-> 0]
  /\ down = [c \in Clients |-> <<>>]
  /\ buf = <<>>

Init == InitAt("accept")

-----------------------------------------------------------------------------
(* The server.                                                             *)

(* The process ends.  Its kernel closes every connection: with a reset     *)
(* where bytes are left unread, or nobody had accepted it.                 *)
Die(p) ==
  /\ spc' = p /\ conn' = None /\ buf' = <<>> /\ queue' = {}
  /\ gone' = [c \in Clients |->
                CASE c \in queue -> "rst"
                  [] c = conn    -> IF ToTake(c) > 0 THEN "rst" ELSE "fin"
                  [] OTHER       -> gone[c]]
  /\ UNCHANGED <<clientVars, end, taken, down>>

Serving(c) == /\ conn' = c
              /\ queue' = queue \ {c}
              /\ buf' = Hello(c)
              /\ spc' = IF buf' = <<>> THEN "recv" ELSE "send"
              /\ UNCHANGED <<clientVars, end, gone, taken, down>>

Accept(c) == spc = "accept" /\ c \in queue /\ Serving(c)

Bug_Recv(c) ==                   \* the buffer is sent from where the last read began
  /\ spc = "recv" /\ conn = c
  /\ \E n \in 1 .. Lesser(ToTake(c), BufSize) :
       /\ taken' = [taken EXCEPT ![c] = @ + n]
       /\ buf' = SubSeq(String(c), 1, n)
  /\ spc' = "send"
  /\ UNCHANGED <<clientVars, end, gone, queue, conn, down>>

Recv(c) ==
  /\ spc = "recv" /\ conn = c
  /\ \E n \in 1 .. Lesser(ToTake(c), BufSize) :
       /\ taken' = [taken EXCEPT ![c] = @ + n]
       /\ buf' = SubSeq(String(c), taken[c] + 1, taken[c] + n)
  /\ spc' = "send"
  /\ UNCHANGED <<clientVars, end, gone, queue, conn, down>>

(* recv() returns 0 once the client has closed and everything is read.     *)
StreamEnds(c) == spc = "recv" /\ conn = c /\ ToTake(c) = 0 /\ end[c] = "fin"

Bug_CloseClient(c) ==            \* the loop goes on at 0
  StreamEnds(c) /\ UNCHANGED vars

CloseClient(c) ==
  /\ StreamEnds(c)
  /\ spc' = "accept" /\ conn' = None
  /\ UNCHANGED <<clientVars, end, gone, queue, taken, down, buf>>

(* send() hands over what there is room for and waits with the rest.       *)
Send(c) ==
  /\ spc = "send" /\ conn = c /\ end[c] # "rst"
  /\ \E n \in 1 .. Lesser(Len(buf), DownCap - Lesser(ToGet(c), DownCap)) :
       /\ down' = [down EXCEPT ![c] = @ \o SubSeq(buf, 1, n)]
       /\ buf' = SubSeq(buf, n + 1, Len(buf))
  /\ spc' = IF buf' = <<>> THEN "recv" ELSE "send"
  /\ UNCHANGED <<clientVars, end, gone, queue, conn, taken>>

(* recv() or send() fails, or SIGPIPE strikes: the process ends.           *)
HandleFails(c) ==
  /\ spc \in {"recv", "send"} /\ conn = c /\ end[c] = "rst"
  /\ Die("exited")

(* accept() may fail at any time, whoever waits: the process has no        *)
(* descriptor left, a signal interrupts it, the connection it was to       *)
(* return is gone.  A server that asks for the connection's addresses      *)
(* before it serves it ends where these calls fail.                        *)
AcceptFails == spc = "accept" /\ Die("acceptFailed")

(* A signal ends it wherever it is.                                        *)
KillServer == Up /\ Die("killed")

Handle(c) == Recv(c) \/ Send(c) \/ HandleFails(c)
Serve     == \E c \in Clients : Accept(c) \/ Handle(c) \/ CloseClient(c)

-----------------------------------------------------------------------------
(* The clients.                                                            *)

Bug_FirstStep == "send"          \* the greeting is read after the string is sent

FirstStep == IF Greeting > 0 THEN "greeting" ELSE "send"

(* connect() returns when the connection is in the listen queue.           *)
Connect(c) ==
  /\ cpc[c] = "connect" /\ Up /\ Cardinality(queue) < Backlog
  /\ cpc' = [cpc EXCEPT ![c] = FirstStep]
  /\ queue' = queue \cup {c}
  /\ UNCHANGED <<sent, got, end, gone, serverVars>>

(* It is refused when there is no server, or gives up on a full queue.     *)
ConnectFails(c) ==
  /\ cpc[c] = "connect"
  /\ ~Up \/ Cardinality(queue) >= Backlog
  /\ cpc' = [cpc EXCEPT ![c] = "failed"]
  /\ UNCHANGED <<sent, got, end, gone, queue, serverVars>>

(* The program ends and its kernel closes the socket; bytes nobody reads   *)
(* turn the FIN into a reset.                                              *)
Leave(c, how) ==
  /\ cpc' = [cpc EXCEPT ![c] = how]
  /\ end' = [end EXCEPT ![c] = IF got'[c] < Len(down[c]) THEN "rst" ELSE "fin"]

Get(c) == \E n \in 1 .. ToGet(c) : got' = [got EXCEPT ![c] = @ + n]

(* recv() until the greeting is complete, then the comparison.             *)
ReceiveGreetings(c) ==
  /\ cpc[c] = "greeting" /\ Get(c)
  /\ CASE got'[c] < Greeting                          -> UNCHANGED <<cpc, end>>
       [] SubSeq(down[c], 1, got'[c]) = Hello(c)      ->
            cpc' = [cpc EXCEPT ![c] = "send"] /\ UNCHANGED end
       [] OTHER                                       -> Leave(c, "failed")
  /\ UNCHANGED <<sent, gone, queue, serverVars>>

(* One send() for the whole string: the kernel takes it as it has room.    *)
(* Bytes that meet no process are answered with a reset.                   *)
SendString(c) ==
  /\ cpc[c] = "send" /\ gone[c] # "rst" /\ StrLen[c] > 0
  /\ ToTake(c) < UpCap
  /\ sent' = [sent EXCEPT ![c] = @ + 1]
  /\ cpc' = [cpc EXCEPT ![c] = IF sent'[c] = StrLen[c] THEN "recv" ELSE "send"]
  /\ gone' = [gone EXCEPT ![c] = IF @ = "fin" THEN "rst" ELSE @]
  /\ UNCHANGED <<got, end, queue, serverVars>>

(* An empty string: no byte is sent and none waited for.                   *)
SendNothing(c) ==
  /\ cpc[c] = "send" /\ gone[c] # "rst" /\ StrLen[c] = 0
  /\ UNCHANGED got /\ Leave(c, "done")
  /\ UNCHANGED <<sent, gone, queue, serverVars>>

Bug_ReceiveEcho(c) ==            \* the terminator is counted with each recv()
  /\ cpc[c] = "recv" /\ Get(c)
  /\ IF got'[c] + 1 < Greeting + StrLen[c] THEN UNCHANGED <<cpc, end>>
                                           ELSE Leave(c, "done")
  /\ UNCHANGED <<sent, gone, queue, serverVars>>

Bug_Terminator(c) ==             \* a terminator is waited for too
  /\ cpc[c] = "recv" /\ Get(c)
  /\ IF got'[c] <= Greeting + StrLen[c] THEN UNCHANGED <<cpc, end>>
                                        ELSE Leave(c, "done")
  /\ UNCHANGED <<sent, gone, queue, serverVars>>

(* recv() until as many bytes have come as were sent, then close().        *)
ReceiveEcho(c) ==
  /\ cpc[c] = "recv" /\ Get(c)
  /\ IF got'[c] < Greeting + StrLen[c] THEN UNCHANGED <<cpc, end>>
                                       ELSE Leave(c, "done")
  /\ UNCHANGED <<sent, gone, queue, serverVars>>

(* After the server's end has gone recv() returns what is left, then 0;    *)
(* a reset makes it fail, and send() too.                                  *)
AtEndOfStream(c) == cpc[c] \in {"greeting", "recv"} /\ gone[c] = "fin" /\ ToGet(c) = 0

Bug_Retry(c) ==                  \* a client that fails starts again
  /\ cpc[c] \in Active
  /\ gone[c] = "rst" \/ (AtEndOfStream(c) /\ c \notin Heedless)
  /\ cpc' = [cpc EXCEPT ![c] = "connect"]
  /\ UNCHANGED <<sent, got, end, gone, queue, serverVars>>

ClientFails(c) ==
  /\ cpc[c] \in Active
  /\ gone[c] = "rst" \/ (AtEndOfStream(c) /\ c \notin Heedless)
  /\ cpc' = [cpc EXCEPT ![c] = "failed"]
  /\ UNCHANGED <<sent, got, end, gone, queue, serverVars>>

(* A client leaves early: the user interrupts it, or, in the client of     *)
(* ch02-2/IPv4, its bind() fails, which comes after connect().             *)
Kill(c) ==
  /\ cpc[c] \in Active
  /\ UNCHANGED got /\ Leave(c, "killed")
  /\ UNCHANGED <<sent, gone, queue, serverVars>>

(* A connection is reset while it waits to be accepted.  The kernel keeps  *)
(* it for accept() or drops it from the queue.                             *)
Abort(c) ==
  /\ c \in queue /\ cpc[c] \in Active
  /\ cpc' = [cpc EXCEPT ![c] = "killed"]
  /\ end' = [end EXCEPT ![c] = "rst"]
  /\ UNCHANGED <<sent, got, gone, queue, serverVars>>

DropAborted(c) ==
  /\ c \in queue /\ end[c] = "rst"
  /\ queue' = queue \ {c}
  /\ UNCHANGED <<clientVars, end, gone, serverVars>>

(* Bytes that reach a client that has closed are answered with a reset.    *)
Reset(c) ==
  /\ end[c] = "fin" /\ conn = c /\ ToGet(c) > 0
  /\ end' = [end EXCEPT ![c] = "rst"]
  /\ UNCHANGED <<clientVars, gone, queue, serverVars>>

ClientRuns(c) == \/ ReceiveGreetings(c) \/ SendString(c) \/ SendNothing(c)
                 \/ ReceiveEcho(c) \/ ClientFails(c)

-----------------------------------------------------------------------------
World == \E c \in Clients : \/ Connect(c) \/ ConnectFails(c) \/ ClientRuns(c)
                           \/ Kill(c) \/ Abort(c) \/ Reset(c) \/ DropAborted(c)

Next == Serve \/ AcceptFails \/ KillServer \/ World

Spec == Init /\ [][Next]_vars

(* The server and a connected client are processes that run when they can, *)
(* and resets arrive.  Nobody has to start or to be killed, and nothing    *)
(* has to fail.                                                            *)
WorldFair == \A c \in Clients : WF_vars(ClientRuns(c)) /\ WF_vars(Reset(c))
FairSpec  == Spec /\ WF_vars(Serve) /\ WorldFair

-----------------------------------------------------------------------------
(* Properties.                                                             *)

(* A client that finishes has read the greeting and then its own string,   *)
(* whole: it counts bytes and never compares them.                         *)
DoneMeansEchoed ==
  \A c \in Clients : cpc[c] = "done" =>
    SubSeq(down[c], 1, got[c]) = Hello(c) \o String(c)

(* recv() and send() end the server, by exit() or SIGPIPE, only through a  *)
(* client that was killed and whose connection was reset: no client that   *)
(* runs to its end, finished or failed, takes the server with it.  (The    *)
(* server has one other end of its own, a failing accept().)               *)
ExitNeedsKilledClient ==
  spc = "exited" => \E c \in Clients : cpc[c] = "killed" /\ end[c] = "rst"

(* The client's send() waits for the server to read, and the server's for  *)
(* the client to read: neither will.                                       *)
MutualBlock(c) ==
  /\ cpc[c] = "send" /\ ToTake(c) = UpCap
  /\ conn = c /\ spc = "send" /\ ToGet(c) = DownCap

(* It takes a string that fills both directions, and one byte in the       *)
(* server's hand and one in the client's.                                  *)
MutualBlockNeedsLongString ==
  \A c \in Clients : MutualBlock(c) => StrLen[c] >= UpCap + DownCap + 2

(* The server is in a call that returns only after something has happened  *)
(* at client c, and client c in none that waits for the server.            *)
WaitsFor(c) ==
  /\ conn = c
  /\ \/ spc = "recv" /\ ToTake(c) = 0 /\ end[c] = "open"
     \/ spc = "send" /\ ToGet(c) >= DownCap /\ end[c] # "rst"

CanMove(c) ==
  \/ cpc[c] \in {"greeting", "recv"} /\ ToGet(c) > 0
  \/ cpc[c] = "send" /\ (StrLen[c] = 0 \/ ToTake(c) < UpCap)

(* Apart from that block server and client never wait for each other: when *)
(* a call of the server waits, its client has a step to make, or has left  *)
(* and bytes are on their way that its kernel will refuse.                 *)
OnlyMutualBlock ==
  \A c \in Clients : WaitsFor(c) =>
    MutualBlock(c) \/ CanMove(c) \/ (end[c] = "fin" /\ ToGet(c) > 0)

(* No connection is forgotten: a client that has connected and not ended   *)
(* is in the listen queue or is the one served, until the server ends and  *)
(* its kernel says so.                                                     *)
NobodyForgotten ==
  \A c \in Clients :
    cpc[c] \in Active => c \in queue \/ conn = c \/ gone[c] # "open"

(* Nobody waits for something that cannot come: who waits for the server   *)
(* is known to it, and whom the server waits for can go on, but for the    *)
(* block of two send()s.                                                   *)
NobodyWaitsInVain == NobodyForgotten /\ OnlyMutualBlock

(* How far a client has come, as numbers that have a largest value: in the *)
(* server's hands, in its own program, and on its streams.                 *)
Stage(c) == CASE cpc[c] = "connect" -> 0
              [] c \in queue        -> 1
              [] conn = c           -> 2
              [] OTHER              -> 3
Place(c) == CASE cpc[c] = "connect"  -> 0
              [] cpc[c] = "greeting" -> 1
              [] cpc[c] = "send"     -> 2
              [] cpc[c] = "recv"     -> 3
              [] OTHER               -> 4
Ending(c) == CASE end[c] = "open" -> 0 [] end[c] = "fin" -> 1 [] OTHER -> 2
Course(c) == <<Stage(c), Place(c), sent[c], got[c], taken[c], Len(down[c]), Ending(c)>>

(* Whoever moves, in whatever order, nothing goes back and something goes  *)
(* on, or the server ends: no two processes can keep each other busy for   *)
(* ever, and nobody is served twice.                                       *)
NotBehind(m, n) == \A k \in DOMAIN m : n[k] <= m[k]

EveryStepGoesOn ==
  [][ /\ \A c \in Clients : NotBehind(Course(c)', Course(c))
      /\ (\E c \in Clients : Course(c)' # Course(c)) \/ (Up /\ ~Up') ]_vars

(* A heedless client reads 0 for ever.                                     *)
Spins(c) == c \in Heedless /\ AtEndOfStream(c)

(* Unless somebody is blocked so for ever, every client that has connected *)
(* comes to an end, whatever becomes of the others and of the server; only *)
(* a heedless client may spin, once the server is gone.                    *)
EveryClientEnds ==
  []<>(\A c \in Clients : ~MutualBlock(c)) =>
    \A c \in Clients :
      (cpc[c] \in Active) ~> (cpc[c] \in Ended \/ (Spins(c) /\ ~Up))

(* Behind the greeting a server implements the echo service.               *)
Echoed(c) == SubSeq(down[c], Greeting + 1, Len(down[c]))
Echo == INSTANCE EchoService WITH MaxBytes <- MaxLen,
                                  echo <- [c \in Clients |-> Echoed(c)]
ImplementsEcho == Echo!Spec
=============================================================================
