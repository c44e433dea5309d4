------------------------- MODULE SocketSetupProofs -------------------------
(***************************************************************************)
(* What the set-ups hand to their programs, proved for an address list of  *)
(* any length and any pattern of refused calls.  The properties are not    *)
(* inductive: what a program may call next depends on what it has called   *)
(* before on the same socket.  Before gives the state a sequence of calls  *)
(* leads to, ScriptOK collects what every program obeys, and Inv ties the  *)
(* kernel's state to the place in the program.                             *)
(***************************************************************************)
EXTENDS SocketSetup, TLAPS

(* One of the first i - 1 calls of s is c.                                 *)
Made(s, i, c) == \E j \in 1 .. i - 1 : s[j] = c

(* The state of a socket after the first i - 1 calls of s.                 *)
Before(s, i) ==
  CASE Made(s, i, "connect") -> "connected"
    [] ~Made(s, i, "connect") /\ Made(s, i, "listen") -> "listening"
    [] ~Made(s, i, "connect") /\ ~Made(s, i, "listen") /\ Made(s, i, "bind") -> "bound"
    [] ~Made(s, i, "connect") /\ ~Made(s, i, "listen") /\ ~Made(s, i, "bind")
       /\ Made(s, i, "socket") -> "fresh"
    [] OTHER -> "closed"

Typed(p) ==
  /\ p.calls \in Seq(Calls) /\ Len(p.calls) \in Nat \ {0}
  /\ p.retried \in 0 .. Len(p.calls)
  /\ p.stale \in BOOLEAN /\ p.test \in {"sock", "list", "none"}
  /\ p.ignored \subseteq {"socket", "setsockopt", "getpeername"}

SocketFirst(p) ==
  /\ p.calls[1] = "socket"
  /\ \A i \in 2 .. Len(p.calls) : p.calls[i] # "socket"
  /\ p.retried > 0 => "socket" \notin p.ignored

(* The calls of the loop fit the state of the socket, the others too       *)
(* unless nobody looks, or the program is the one of exercise 2-9.         *)
InOrder(p) ==
  \A i \in 1 .. Len(p.calls) :
    \/ Permitted(p.calls[i], Before(p.calls, i))
    \/ i > p.retried /\ (p.calls[i] \in p.ignored \/ p = ch02_IPv4_Client)

(* What follows when there is no socket.                                   *)
Notices(p) ==
  /\ p.test = "none" => p.kind = "server" /\ ~p.stale /\ p.retried = Len(p.calls)
  /\ p.stale /\ p.test # "list" =>
       /\ p.retried < Len(p.calls)
       /\ p.calls[p.retried + 1] \in {"fdopen", "getpeername"} \ p.ignored
  /\ "socket" \in p.ignored =>
       /\ p.calls[Len(p.calls)] \in {"listen", "getsockname"} \ p.ignored
       /\ \A i \in 1 .. Len(p.calls) : p.calls[i] # "inet_pton"

Purpose(p) ==
  /\ p.kind = "client" => \E i \in 1 .. Len(p.calls) : p.calls[i] = "connect"
  /\ p.kind = "server" => /\ \E i \in 1 .. Len(p.calls) : p.calls[i] = "listen"
                          /\ \A i \in 1 .. Len(p.calls) : p.calls[i] # "connect"
  /\ p.kind = "datagram" =>
       /\ \E i \in 1 .. Len(p.calls) : p.calls[i] = "bind"
       /\ \A i \in 1 .. Len(p.calls) : p.calls[i] \notin {"connect", "listen"}

ScriptOK(p) == Typed(p) /\ SocketFirst(p) /\ InOrder(p) /\ Notices(p) /\ Purpose(p)

(* Every program of the repository obeys ScriptOK.                         *)
LEMMA Scripts == \A p \in Programs : ScriptOK(p)
<1> USE DEF ScriptOK, Typed, SocketFirst, Notices, Purpose, Calls
<1> USE DEF InLoop, Straight, print_connection_info, get_remote_addr,
            get_local_addr, print_local_addr, exercise9
<1>1. ScriptOK(VoteClient)
  <2> DEFINE s == VoteClient.calls
  <2>1. /\ Len(s) = 3 /\ s[1] = "socket" /\ s[2] = "connect"
        /\ s[3] = "fdopen"
    BY DEF VoteClient, InLoop
  <2> HIDE DEF s
  <2>2. /\ Before(s, 1) = "closed" /\ Before(s, 2) = "fresh"
        /\ Before(s, 3) = "connected"
    BY <2>1 DEF Before, Made
  <2>3. InOrder(VoteClient)
    BY <2>1, <2>2 DEF InOrder, Permitted, s, VoteClient, InLoop
  <2>. QED BY <2>3 DEF VoteClient, InLoop
<1>2. ScriptOK(EchoClient)
  <2> DEFINE s == EchoClient.calls
  <2>1. /\ Len(s) = 3 /\ s[1] = "socket" /\ s[2] = "connect"
        /\ s[3] = "getpeername"
    BY DEF EchoClient, InLoop, print_connection_info
  <2> HIDE DEF s
  <2>2. /\ Before(s, 1) = "closed" /\ Before(s, 2) = "fresh"
        /\ Before(s, 3) = "connected"
    BY <2>1 DEF Before, Made
  <2>3. InOrder(EchoClient)
    BY <2>1, <2>2 DEF InOrder, Permitted, s, EchoClient, InLoop, print_connection_info
  <2>. QED BY <2>3 DEF EchoClient, InLoop, print_connection_info
<1>3. ScriptOK(VoteServer)
  <2> DEFINE s == VoteServer.calls
  <2>1. /\ Len(s) = 3 /\ s[1] = "socket" /\ s[2] = "bind"
        /\ s[3] = "listen"
    BY DEF VoteServer, InLoop
  <2> HIDE DEF s
  <2>2. /\ Before(s, 1) = "closed" /\ Before(s, 2) = "fresh"
        /\ Before(s, 3) = "bound"
    BY <2>1 DEF Before, Made
  <2>3. InOrder(VoteServer)
    BY <2>1, <2>2 DEF InOrder, Permitted, s, VoteServer, InLoop
  <2>. QED BY <2>3 DEF VoteServer, InLoop
<1>4. ScriptOK(EchoServer)
  <2> DEFINE s == EchoServer.calls
  <2>1. /\ Len(s) = 4 /\ s[1] = "socket" /\ s[2] = "bind"
        /\ s[3] = "listen" /\ s[4] = "getsockname"
    BY DEF EchoServer, InLoop, print_local_addr
  <2> HIDE DEF s
  <2>2. /\ Before(s, 1) = "closed" /\ Before(s, 2) = "fresh"
        /\ Before(s, 3) = "bound" /\ Before(s, 4) = "listening"
    BY <2>1 DEF Before, Made
  <2>3. InOrder(EchoServer)
    BY <2>1, <2>2 DEF InOrder, Permitted, s, EchoServer, InLoop, print_local_addr
  <2>. QED BY <2>3 DEF EchoServer, InLoop, print_local_addr
<1>5. ScriptOK(EchoServer2)
  <2> DEFINE s == EchoServer2.calls
  <2>1. /\ Len(s) = 3 /\ s[1] = "socket" /\ s[2] = "bind"
        /\ s[3] = "listen"
    BY DEF EchoServer2, InLoop
  <2> HIDE DEF s
  <2>2. /\ Before(s, 1) = "closed" /\ Before(s, 2) = "fresh"
        /\ Before(s, 3) = "bound"
    BY <2>1 DEF Before, Made
  <2>3. InOrder(EchoServer2)
    BY <2>1, <2>2 DEF InOrder, Permitted, s, EchoServer2, InLoop
  <2>. QED BY <2>3 DEF EchoServer2, InLoop
<1>6. ScriptOK(poll_server2)
  <2> DEFINE s == poll_server2.calls
  <2>1. /\ Len(s) = 4 /\ s[1] = "socket" /\ s[2] = "setsockopt"
        /\ s[3] = "bind" /\ s[4] = "listen"
    BY DEF poll_server2, InLoop
  <2> HIDE DEF s
  <2>2. /\ Before(s, 1) = "closed" /\ Before(s, 2) = "fresh"
        /\ Before(s, 3) = "fresh" /\ Before(s, 4) = "bound"
    BY <2>1 DEF Before, Made
  <2>3. InOrder(poll_server2)
    BY <2>1, <2>2 DEF InOrder, Permitted, s, poll_server2, InLoop
  <2>. QED BY <2>3 DEF poll_server2, InLoop
<1>7. ScriptOK(TCP_Echo_Server)
  <2> DEFINE s == TCP_Echo_Server.calls
  <2>1. /\ Len(s) = 3 /\ s[1] = "socket" /\ s[2] = "bind"
        /\ s[3] = "listen"
    BY DEF TCP_Echo_Server, Straight
  <2> HIDE DEF s
  <2>2. /\ Before(s, 1) = "closed" /\ Before(s, 2) = "fresh"
        /\ Before(s, 3) = "bound"
    BY <2>1 DEF Before, Made
  <2>3. InOrder(TCP_Echo_Server)
    BY <2>1, <2>2 DEF InOrder, Permitted, s, TCP_Echo_Server, Straight
  <2>. QED BY <2>3 DEF TCP_Echo_Server, Straight
<1>8. ScriptOK(IPv6_V2_Server)
  <2> DEFINE s == IPv6_V2_Server.calls
  <2>1. /\ Len(s) = 5 /\ s[1] = "socket" /\ s[2] = "getsockname"
        /\ s[3] = "bind" /\ s[4] = "getsockname" /\ s[5] = "listen"
    BY DEF IPv6_V2_Server, Straight, get_local_addr
  <2> HIDE DEF s
  <2>2. /\ Before(s, 1) = "closed" /\ Before(s, 2) = "fresh"
        /\ Before(s, 3) = "fresh" /\ Before(s, 4) = "bound"
        /\ Before(s, 5) = "bound"
    BY <2>1 DEF Before, Made
  <2>3. InOrder(IPv6_V2_Server)
    BY <2>1, <2>2 DEF InOrder, Permitted, s, IPv6_V2_Server, Straight, get_local_addr
  <2>. QED BY <2>3 DEF IPv6_V2_Server, Straight, get_local_addr
<1>9. ScriptOK(ch02_main2)
  <2> DEFINE s == ch02_main2.calls
  <2>1. /\ Len(s) = 3 /\ s[1] = "socket" /\ s[2] = "bind"
        /\ s[3] = "listen"
    BY DEF ch02_main2, Straight
  <2> HIDE DEF s
  <2>2. /\ Before(s, 1) = "closed" /\ Before(s, 2) = "fresh"
        /\ Before(s, 3) = "bound"
    BY <2>1 DEF Before, Made
  <2>3. InOrder(ch02_main2)
    BY <2>1, <2>2 DEF InOrder, Permitted, s, ch02_main2, Straight
  <2>. QED BY <2>3 DEF ch02_main2, Straight
<1>10. ScriptOK(TCP_Echo_Client)
  <2> DEFINE s == TCP_Echo_Client.calls
  <2>1. /\ Len(s) = 3 /\ s[1] = "socket" /\ s[2] = "inet_pton"
        /\ s[3] = "connect"
    BY DEF TCP_Echo_Client, Straight
  <2> HIDE DEF s
  <2>2. /\ Before(s, 1) = "closed" /\ Before(s, 2) = "fresh"
        /\ Before(s, 3) = "fresh"
    BY <2>1 DEF Before, Made
  <2>3. InOrder(TCP_Echo_Client)
    BY <2>1, <2>2 DEF InOrder, Permitted, s, TCP_Echo_Client, Straight
  <2>. QED BY <2>3 DEF TCP_Echo_Client, Straight
<1>11. ScriptOK(IPv6_V2_Client)
  <2> DEFINE s == IPv6_V2_Client.calls
  <2>1. /\ Len(s) = 5 /\ s[1] = "socket" /\ s[2] = "inet_pton"
        /\ s[3] = "connect" /\ s[4] = "getpeername"
        /\ s[5] = "getsockname"
    BY DEF IPv6_V2_Client, Straight, get_remote_addr, get_local_addr
  <2> HIDE DEF s
  <2>2. /\ Before(s, 1) = "closed" /\ Before(s, 2) = "fresh"
        /\ Before(s, 3) = "fresh" /\ Before(s, 4) = "connected"
        /\ Before(s, 5) = "connected"
    BY <2>1 DEF Before, Made
  <2>3. InOrder(IPv6_V2_Client)
    BY <2>1, <2>2 DEF InOrder, Permitted, s, IPv6_V2_Client, Straight, get_remote_addr, get_local_addr
  <2>. QED BY <2>3 DEF IPv6_V2_Client, Straight, get_remote_addr, get_local_addr
<1>12. ScriptOK(ch02_IPv4_Client)
  <2> DEFINE s == ch02_IPv4_Client.calls
  <2>1. /\ Len(s) = 5 /\ s[1] = "socket" /\ s[2] = "inet_pton"
        /\ s[3] = "connect" /\ s[4] = "bind" /\ s[5] = "getpeername"
    BY DEF ch02_IPv4_Client, Straight, exercise9, print_connection_info
  <2> HIDE DEF s
  <2>2. /\ Before(s, 1) = "closed" /\ Before(s, 2) = "fresh"
        /\ Before(s, 3) = "fresh" /\ Before(s, 4) = "connected"
        /\ Before(s, 5) = "connected"
    BY <2>1 DEF Before, Made
  <2>3. InOrder(ch02_IPv4_Client)
    BY <2>1, <2>2 DEF InOrder, Permitted, s, ch02_IPv4_Client, Straight, exercise9, print_connection_info
  <2>. QED BY <2>3 DEF ch02_IPv4_Client, Straight, exercise9, print_connection_info
<1>13. ScriptOK(exercise_07)
  <2> DEFINE s == exercise_07.calls
  <2>1. /\ Len(s) = 3 /\ s[1] = "socket" /\ s[2] = "getpeername"
        /\ s[3] = "getsockname"
    BY DEF exercise_07, Straight
  <2> HIDE DEF s
  <2>2. /\ Before(s, 1) = "closed" /\ Before(s, 2) = "fresh"
        /\ Before(s, 3) = "fresh"
    BY <2>1 DEF Before, Made
  <2>3. InOrder(exercise_07)
    BY <2>1, <2>2 DEF InOrder, Permitted, s, exercise_07, Straight
  <2>. QED BY <2>3 DEF exercise_07, Straight
<1>14. ScriptOK(UDPEchoServer)
  <2> DEFINE s == UDPEchoServer.calls
  <2>1. Len(s) = 2 /\ s[1] = "socket" /\ s[2] = "bind"
    BY DEF UDPEchoServer, Straight
  <2> HIDE DEF s
  <2>2. Before(s, 1) = "closed" /\ Before(s, 2) = "fresh"
    BY <2>1 DEF Before, Made
  <2>3. InOrder(UDPEchoServer)
    BY <2>1, <2>2 DEF InOrder, Permitted, s, UDPEchoServer, Straight
  <2>. QED BY <2>3 DEF UDPEchoServer, Straight
<1> HIDE DEF ScriptOK, Typed, SocketFirst, Notices, Purpose
<1>. QED
  BY <1>1, <1>2, <1>3, <1>4, <1>5, <1>6, <1>7, <1>8, <1>9, <1>10, <1>11, <1>12, <1>13,
     <1>14
  DEF Programs, SelectServer, poll_server, IPv4_Server, IPv6_Server,
      ch02_IPv4_Server, ch02_IPv6_Server, IPv4_Client, IPv6_Client

-----------------------------------------------------------------------------
(* What one more call does to Before.                                      *)
LEMMA MadeStep ==
  ASSUME NEW s, NEW i \in Nat \ {0}, NEW c
  PROVE  Made(s, i + 1, c) <=> Made(s, i, c) \/ s[i] = c
<1>1. \A j : j \in 1 .. (i + 1) - 1 <=> j \in 1 .. i - 1 \/ j = i
  OBVIOUS
<1>. QED BY <1>1 DEF Made

LEMMA BeforeStep ==
  ASSUME NEW p, ScriptOK(p), NEW i \in 1 .. Len(p.calls)
  PROVE  /\ Permitted(p.calls[i], Before(p.calls, i)) =>
              Before(p.calls, i + 1) = Result(p.calls[i], Before(p.calls, i))
         /\ p.calls[i] \in {"setsockopt", "getpeername"} =>
              Before(p.calls, i + 1) = Before(p.calls, i)
         /\ Before(p.calls, i + 1) # "closed"
<1> DEFINE s == p.calls
<1>1. i \in Nat \ {0} /\ s[i] \in Calls
  BY DEF ScriptOK, Typed
<1>2. \A c : Made(s, i + 1, c) <=> Made(s, i, c) \/ s[i] = c
  BY <1>1, MadeStep
<1>3. i = 1 => s[i] = "socket" /\ \A c : ~Made(s, i, c)
  BY DEF ScriptOK, SocketFirst, Made
<1>4. i # 1 => s[i] # "socket" /\ Made(s, i, "socket")
  <2>1. i # 1 => 1 \in 1 .. i - 1 /\ i \in 2 .. Len(s)
    BY <1>1 DEF ScriptOK, Typed
  <2>. QED BY <2>1 DEF ScriptOK, SocketFirst, Made
<1> HIDE DEF s
<1>5. Permitted(s[i], Before(s, i)) => Before(s, i + 1) = Result(s[i], Before(s, i))
  BY <1>1, <1>2, <1>3, <1>4 DEF Before, Permitted, Result, Calls
<1>6. s[i] \in {"setsockopt", "getpeername"} => Before(s, i + 1) = Before(s, i)
  BY <1>1, <1>2, <1>3, <1>4 DEF Before
<1>7. Before(s, i + 1) # "closed"
  BY <1>1, <1>2, <1>3, <1>4 DEF Before
<1>. QED BY <1>5, <1>6, <1>7 DEF s

LEMMA BeforeFirst == \A s : Before(s, 1) = "closed"
  BY DEF Before, Made

(* All calls made: a server listens or, for datagrams, is bound, a client  *)
(* is connected.                                                           *)
LEMMA BeforeWork ==
  ASSUME NEW p, ScriptOK(p)
  PROVE  /\ p.kind = "server" => Before(p.calls, Len(p.calls) + 1) = "listening"
         /\ p.kind = "datagram" => Before(p.calls, Len(p.calls) + 1) = "bound"
         /\ p.kind = "client" => Before(p.calls, Len(p.calls) + 1) = "connected"
<1>1. (Len(p.calls) + 1) - 1 = Len(p.calls)
  BY DEF ScriptOK, Typed
<1>. QED BY <1>1 DEF ScriptOK, Purpose, Before, Made

-----------------------------------------------------------------------------
(* The inductive invariant.  At every place of the program either sock is  *)
(* the socket of the address looked at, in the state the calls made so far *)
(* lead to, and no call of the loop has failed on it; or there is no       *)
(* socket at all.                                                          *)
AllClosed == kernel = [a \in 1 .. N |-> "closed"]

Have ==
  /\ addr \in 1 .. N /\ sock = addr /\ at \in 2 .. Len(prog.calls) + 1
  /\ kernel = [a \in 1 .. N |-> IF a = addr THEN Before(prog.calls, at) ELSE "closed"]
  /\ \A i \in 1 .. at - 1 : i <= prog.retried =>
       hurdle[addr] # prog.calls[i] \/ prog.calls[i] \in prog.ignored

(* The loop is about to call socket() for addr.                            *)
Trying == at = 1 /\ AllClosed /\ (sock = 0 \/ (prog.stale /\ sock = addr - 1))

(* The list is exhausted.                                                  *)
Nothing ==
  /\ addr = N + 1 /\ prog.retried > 0 /\ at = prog.retried + 1
  /\ AllClosed /\ (sock = 0 \/ (prog.stale /\ sock = N))

(* A program without a loop, before socket() or after a failed one that it *)
(* has not noticed.                                                        *)
Start    == prog.retried = 0 /\ addr = 1 /\ at = 1 /\ sock = 0 /\ AllClosed
NoSocket ==
  /\ prog.retried = 0 /\ addr = 1 /\ sock = 0 /\ AllClosed
  /\ "socket" \in prog.ignored /\ hurdle[1] = "socket" /\ at \in 2 .. Len(prog.calls)

GaveUp ==
  \/ \A a \in 1 .. N : ~Passes(a)
  \/ \E a \in 1 .. N : First(a) /\ \E i \in prog.retried + 1 .. Len(prog.calls) :
                                      hurdle[a] = prog.calls[i]
  \/ prog = ch02_IPv4_Client

Place ==
  /\ pc = "loop"    => prog.retried > 0 /\ at <= prog.retried + 1 /\ (Trying \/ Have)
  /\ pc = "check"   => at = prog.retried + 1 /\ prog.retried > 0 /\ (Have \/ Nothing)
  /\ pc = "tail"    => at > prog.retried /\ (Have \/ Nothing \/ Start \/ NoSocket)
  /\ pc = "tail"    => (Nothing => prog.test # "list" /\ (prog.test = "sock" => sock # 0))
  /\ pc = "working" => /\ at = Len(prog.calls) + 1
                       /\ Have \/ (Nothing /\ sock = 0 /\ prog.test = "none")
  /\ pc = "exited"  => GaveUp /\ (Open \subseteq {sock})

Inv ==
  /\ prog \in Programs
  /\ hurdle \in [1 .. N -> Calls \cup {"none"}]
  /\ kernel \in [1 .. N -> States]
  /\ addr \in 1 .. N + 1 /\ at \in 1 .. Len(prog.calls) + 1 /\ sock \in 0 .. N
  /\ pc \in {"loop", "check", "tail", "working", "exited"}
  /\ \A b \in 1 .. addr - 1 : ~Passes(b)
  /\ Place

LEMMA InvInit == Init => Inv
<1> SUFFICES ASSUME Init PROVE Inv
  OBVIOUS
<1>1. prog \in Programs /\ ScriptOK(prog)
  BY Scripts DEF Init
<1>2. \A i \in 1 .. Len(prog.calls) : prog.calls[i] \in Calls
  BY <1>1 DEF ScriptOK, Typed
<1>3. hurdle \in [1 .. N -> Calls \cup {"none"}]
  BY <1>2 DEF Init, CallsOf
<1>4. kernel \in [1 .. N -> States] /\ AllClosed
  BY DEF Init, States, AllClosed
<1>5. addr \in 1 .. N + 1 /\ at \in 1 .. Len(prog.calls) + 1 /\ sock \in 0 .. N
  BY <1>1, SetupAssumption DEF Init, ScriptOK, Typed
<1>6. \A b \in 1 .. addr - 1 : ~Passes(b)
  BY DEF Init
<1>7. prog.retried \in Nat
  BY <1>1 DEF ScriptOK, Typed
<1>8. Place
  BY <1>4, <1>7, SetupAssumption DEF Init, Place, Trying, Start, Nothing
<1>. QED BY <1>1, <1>3, <1>4, <1>5, <1>6, <1>8 DEF Init, Inv

(* Where no descriptor is open but the program goes on, its next call is   *)
(* refused.                                                                *)
LEMMA NothingRefused ==
  ASSUME Inv, pc = "tail", Calling, Nothing
  PROVE  Refused /\ Call \notin prog.ignored
<1>1. ScriptOK(prog) /\ at = prog.retried + 1 /\ at \in 1 .. Len(prog.calls)
  BY Scripts DEF Inv, Calling, Nothing, ScriptOK, Typed
<1>2. prog.test = "sock"
  BY <1>1 DEF Inv, Place, ScriptOK, Typed, Notices
<1>3. prog.stale /\ sock = N
  BY <1>2 DEF Inv, Place, Nothing
<1>4. Call \in {"fdopen", "getpeername"} \ prog.ignored
  BY <1>1, <1>2, <1>3 DEF ScriptOK, Notices, Call
<1>5. kernel[sock] = "closed" /\ sock # 0
  BY <1>3, SetupAssumption DEF Nothing, AllClosed
<1>. QED BY <1>4, <1>5 DEF Refused, Permitted

LEMMA NoSocketRefused ==
  ASSUME Inv, pc = "tail", Calling, NoSocket
  PROVE  Refused /\ (Call \in prog.ignored => at # Len(prog.calls))
<1>1. ScriptOK(prog) /\ at \in 2 .. Len(prog.calls) /\ sock = 0
  BY Scripts DEF Inv, NoSocket
<1>2. Call # "socket" /\ Call # "inet_pton"
  BY <1>1 DEF ScriptOK, Typed, SocketFirst, Notices, Call, NoSocket
<1>3. ~Permitted(Call, "closed")
  BY <1>2 DEF Permitted
<1>. QED BY <1>1, <1>3 DEF Refused, Call, NoSocket, ScriptOK, Notices

(* The two ways in which a call adds to what has been done on the socket.  *)
LEMMA OpenStep ==
  ASSUME Inv, addr <= N, at = 1, AllClosed, CallWorks
  PROVE  Have' /\ at' = 2
<1>1. ScriptOK(prog) /\ 1 \in 1 .. Len(prog.calls) /\ Call = "socket"
  BY Scripts DEF Inv, ScriptOK, Typed, SocketFirst, Call
<1>2. sock' = addr /\ at' = 2 /\ addr' = addr /\ prog' = prog /\ hurdle' = hurdle
  BY <1>1 DEF CallWorks
<1>3. addr \in 1 .. N
  BY SetupAssumption DEF Inv
<1>4. Before(prog.calls, 1 + 1) = Result(Call, Before(prog.calls, 1))
  BY <1>1, BeforeStep, BeforeFirst DEF Permitted, Call
<1>5. Before(prog.calls, 2) = "fresh" /\ Result(Call, kernel[addr]) = "fresh"
  BY <1>1, <1>4 DEF Result
<1>6. kernel' = [a \in 1 .. N |-> IF a = addr THEN "fresh" ELSE "closed"]
  BY <1>2, <1>3, <1>5 DEF CallWorks, AllClosed
<1>7. ~Refused
  BY DEF CallWorks
<1>8. hurdle[addr] # prog.calls[1]
  BY <1>3, <1>7 DEF Refused, Call
<1>9. 2 \in 2 .. Len(prog.calls) + 1
  BY <1>1 DEF ScriptOK, Typed
<1>. QED BY <1>2, <1>3, <1>5, <1>6, <1>8, <1>9 DEF Have

LEMMA HaveStep ==
  ASSUME Inv, Have, Calling, CallWorks \/ CallIgnored
  PROVE  Have'
<1>1. ScriptOK(prog) /\ at \in 2 .. Len(prog.calls) /\ at \in 1 .. Len(prog.calls)
  BY Scripts DEF Inv, Have, Calling, ScriptOK, Typed
<1>2. Call # "socket" /\ Call = prog.calls[at]
  BY <1>1 DEF ScriptOK, SocketFirst, Call
<1>3. /\ sock' = addr /\ at' = at + 1 /\ addr' = addr /\ prog' = prog /\ hurdle' = hurdle
      /\ addr \in 1 .. N /\ sock = addr /\ kernel[addr] = Before(prog.calls, at)
  BY <1>2 DEF CallWorks, CallIgnored, Have
<1>4. kernel' = [a \in 1 .. N |-> IF a = addr THEN Before(prog.calls, at + 1) ELSE "closed"]
  <2>1. CASE CallWorks
    <3>1. Permitted(Call, Before(prog.calls, at))
      BY <1>3, <2>1 DEF CallWorks, Refused
    <3>2. Before(prog.calls, at + 1) = Result(Call, kernel[addr])
      BY <1>1, <1>2, <1>3, <3>1, BeforeStep
    <3>3. kernel' = [kernel EXCEPT ![addr] = Result(Call, kernel[addr])]
      BY <1>3, <2>1 DEF CallWorks
    <3>. QED BY <1>3, <3>2, <3>3 DEF Have
  <2>2. CASE CallIgnored
    <3>1. Call \in {"setsockopt", "getpeername"} /\ kernel' = kernel
      BY <1>1, <1>2, <2>2 DEF CallIgnored, ScriptOK, Typed
    <3>2. Before(prog.calls, at + 1) = Before(prog.calls, at)
      BY <1>1, <1>2, <3>1, BeforeStep
    <3>. QED BY <3>1, <3>2 DEF Have
  <2>. QED BY <2>1, <2>2
<1>5. hurdle[addr] # Call \/ Call \in prog.ignored
  BY <1>3 DEF CallWorks, CallIgnored, Refused, Inv
<1>6. \A i \in 1 .. (at + 1) - 1 : i \in 1 .. at - 1 \/ i = at
  BY <1>1
<1>7. at + 1 \in 2 .. Len(prog.calls) + 1
  BY <1>1 DEF ScriptOK, Typed
<1>. QED BY <1>2, <1>3, <1>4, <1>5, <1>6, <1>7 DEF Have

(* One step keeps the types of the variables.                              *)
LEMMA TypesStep ==
  ASSUME Inv, Next
  PROVE  /\ prog' \in Programs /\ hurdle' \in [1 .. N -> Calls \cup {"none"}]
         /\ kernel' \in [1 .. N -> States] /\ addr' \in 1 .. N + 1
         /\ at' \in 1 .. Len(prog'.calls) + 1 /\ sock' \in 0 .. N
         /\ pc' \in {"loop", "check", "tail", "working", "exited"}
         /\ prog' = prog /\ hurdle' = hurdle
<1>1. ScriptOK(prog)
  BY Scripts DEF Inv
<1>2. prog' = prog /\ hurdle' = hurdle
  BY DEF Next, CallWorks, CallIgnored, NextAddress, GiveUp, LoopEnds, Check, GoToWork
<1>3. CASE CallWorks
  <2>1. at \in 1 .. Len(prog.calls)
    BY <1>1, <1>3 DEF CallWorks, Calling, Inv, ScriptOK, Typed
  <2>2. pc = "loop" \/ Have \/ Nothing \/ Start \/ NoSocket
    BY <1>3 DEF CallWorks, Calling, Inv, Place
  <2>3. Call = "socket" => addr \in 1 .. N
    <3>1. CASE pc = "loop"
      BY <1>3, <3>1, SetupAssumption DEF CallWorks, Calling, Inv
    <3>2. CASE pc = "tail"
      BY <1>3, <3>2, NothingRefused, SetupAssumption
      DEF CallWorks, Calling, Inv, Place, Have, Start, NoSocket
    <3>. QED BY <1>3, <3>1, <3>2 DEF CallWorks, Calling
  <2>4. sock' \in 0 .. N
    BY <1>3, <2>3, SetupAssumption DEF CallWorks, Inv
  <2>5. \A a \in 1 .. N : Result(Call, kernel[a]) \in States
    BY DEF Result, States, Inv
  <2>6. kernel' \in [1 .. N -> States]
    BY <1>3, <2>5 DEF CallWorks, Inv
  <2>7. at' \in 1 .. Len(prog.calls) + 1 /\ addr' = addr /\ pc' = pc
    BY <1>1, <1>3, <2>1 DEF CallWorks, ScriptOK, Typed
  <2>. QED BY <1>2, <2>4, <2>6, <2>7 DEF Inv
<1>4. CASE CallIgnored
  BY <1>1, <1>2, <1>4 DEF CallIgnored, Calling, Inv, ScriptOK, Typed
<1>5. CASE NextAddress
  <2>1. kernel' \in [1 .. N -> States]
    BY <1>5 DEF NextAddress, Inv, States
  <2>2. sock' \in 0 .. N /\ addr' \in 1 .. N + 1 /\ at' \in 1 .. Len(prog.calls) + 1 /\ pc' = pc
    BY <1>1, <1>5, SetupAssumption DEF NextAddress, Calling, Inv, ScriptOK, Typed
  <2>. QED BY <1>2, <2>1, <2>2 DEF Inv
<1>6. CASE GiveUp
  BY <1>2, <1>6 DEF GiveUp, Inv
<1>7. CASE LoopEnds
  BY <1>1, <1>2, <1>7 DEF LoopEnds, Inv, ScriptOK, Typed
<1>8. CASE Check
  BY <1>2, <1>8 DEF Check, Inv
<1>9. CASE GoToWork
  BY <1>2, <1>9 DEF GoToWork, Inv
<1>. QED BY <1>3, <1>4, <1>5, <1>6, <1>7, <1>8, <1>9 DEF Next

(* A call that fails in the loop shows that the address does not pass.     *)
LEMMA NextAddressStep ==
  ASSUME Inv, NextAddress
  PROVE  /\ Trying' /\ pc' = "loop" /\ prog.retried > 0 /\ at' <= prog.retried + 1
         /\ ~Passes(addr)
<1>1. ScriptOK(prog) /\ addr \in 1 .. N /\ at \in 1 .. prog.retried /\ at \in 1 .. Len(prog.calls)
      /\ pc = "loop" /\ prog' = prog
  BY Scripts, SetupAssumption DEF NextAddress, Calling, Inv, ScriptOK, Typed
<1>2. Trying \/ Have
  BY <1>1 DEF Inv, Place
<1>3. Permitted(Call, Before(prog.calls, at))
  BY <1>1 DEF ScriptOK, Typed, InOrder, Call
<1>4. Trying => Call = "socket"
  BY <1>1 DEF Trying, Call, ScriptOK, SocketFirst
<1>5. Have => Call # "socket" /\ kernel[sock] = Before(prog.calls, at) /\ sock = addr /\ sock # 0
  BY <1>1 DEF Have, Call, ScriptOK, Typed, SocketFirst
<1>6. hurdle[addr] = Call
  <2>1. CASE Trying
    BY <1>1, <1>4, <2>1 DEF NextAddress, Refused, Permitted
  <2>2. CASE Have
    BY <1>3, <1>5, <2>2 DEF NextAddress, Refused
  <2>. QED BY <1>2, <2>1, <2>2
<1>7. ~Passes(addr)
  BY <1>1, <1>6 DEF Passes, NextAddress, Call
<1>8. AllClosed'
  <2>1. CASE Trying
    BY <1>4, <2>1 DEF NextAddress, Trying, AllClosed
  <2>2. CASE Have
    <3>1. kernel' = [kernel EXCEPT ![addr] = "closed"]
      BY <1>5, <2>2 DEF NextAddress
    <3>. QED BY <3>1, <2>2 DEF Have, AllClosed
  <2>. QED BY <1>2, <2>1, <2>2
<1>9. sock' = 0 \/ (prog'.stale /\ sock' = addr' - 1)
  BY <1>1, <1>2, <1>4, <1>5 DEF NextAddress
<1>. QED BY <1>1, <1>7, <1>8, <1>9 DEF NextAddress, Trying, ScriptOK, Typed

(* A program that exits behind the loop meets one of the three reasons.    *)
LEMMA GiveUpStep ==
  ASSUME Inv, GiveUp
  PROVE  GaveUp' /\ (Open \subseteq {sock})'
<1>1. /\ ScriptOK(prog) /\ pc = "tail" /\ at \in 1 .. Len(prog.calls) /\ at > prog.retried
      /\ at \in prog.retried + 1 .. Len(prog.calls) /\ Call = prog.calls[at]
  BY Scripts DEF GiveUp, Calling, Inv, Place, ScriptOK, Typed, Call
<1>2. UNCHANGED <<prog, hurdle, kernel, addr, at, sock>>
  BY DEF GiveUp
<1>3. GaveUp /\ Open \subseteq {sock}
  <2>1. CASE Have
    <3>1. Passes(addr)
      BY <1>1, <2>1 DEF Have, Passes, ScriptOK, Typed
    <3>2. First(addr) /\ addr \in 1 .. N
      BY <2>1, <3>1 DEF First, Inv, Have
    <3>3. kernel[sock] = Before(prog.calls, at) /\ sock = addr /\ sock # 0
      BY <2>1 DEF Have
    <3>4. hurdle[addr] = Call \/ prog = ch02_IPv4_Client
      BY <1>1, <3>3 DEF GiveUp, Refused, ScriptOK, InOrder
    <3>5. Open \subseteq {sock}
      BY <2>1 DEF Open, Have
    <3>. QED BY <1>1, <3>2, <3>4, <3>5 DEF GaveUp
  <2>2. CASE Nothing
    BY <2>2, SetupAssumption DEF Nothing, Inv, GaveUp, Open, AllClosed
  <2>3. CASE Start \/ NoSocket
    <3>1. First(1) /\ 1 \in 1 .. N /\ 1 \in prog.retried + 1 .. Len(prog.calls) /\ addr = 1
      BY <1>1, <2>3, SetupAssumption DEF First, Passes, Start, NoSocket, ScriptOK, Typed
    <3>2. prog.calls[1] = "socket"
      BY <1>1 DEF ScriptOK, SocketFirst
    <3>3. hurdle[1] = "socket"
      BY <1>1, <2>3, <3>2 DEF GiveUp, Refused, Permitted, Start, NoSocket
    <3>4. Open \subseteq {sock}
      BY <2>3 DEF Start, NoSocket, AllClosed, Open
    <3>. QED BY <3>1, <3>2, <3>3, <3>4 DEF GaveUp
  <2>. QED BY <1>1, <2>1, <2>2, <2>3 DEF Inv, Place
<1>. QED BY <1>2, <1>3 DEF GaveUp, Open, First, Passes

LEMMA PlaceStep ==
  ASSUME Inv, Next
  PROVE  Place' /\ (\A b \in 1 .. addr - 1 : ~Passes(b))'
<1>1. ScriptOK(prog) /\ prog' = prog /\ hurdle' = hurdle
  BY Scripts, TypesStep DEF Inv
<1>2. prog.retried \in Nat /\ Len(prog.calls) \in Nat \ {0} /\ prog.retried <= Len(prog.calls)
  BY <1>1 DEF ScriptOK, Typed
<1>3. CASE CallWorks
  <2>1. addr' = addr /\ pc' = pc /\ at' = at + 1 /\ pc \in {"loop", "tail"}
    BY <1>3 DEF CallWorks, Calling
  <2>2. CASE Have
    <3>1. Have'
      BY <1>3, <2>2, HaveStep DEF CallWorks
    <3>2. ~Nothing'
      BY <3>1, SetupAssumption DEF Have, Nothing
    <3>3. pc = "loop" => prog.retried > 0 /\ at <= prog.retried
      BY <1>3 DEF CallWorks, Calling, Inv, Place
    <3>4. pc = "tail" => at > prog.retried
      BY DEF Inv, Place
    <3>5. at \in Nat
      BY <2>2 DEF Have
    <3>6. (pc = "loop" => at + 1 <= prog.retried + 1) /\ (pc = "tail" => at + 1 > prog.retried)
      BY <1>2, <3>3, <3>4, <3>5
    <3>7. Place'
      BY <1>1, <2>1, <3>1, <3>2, <3>3, <3>6 DEF Place
    <3>. QED BY <1>1, <2>1, <3>7 DEF Inv, Passes
  <2>3. CASE Trying /\ pc = "loop"
    <3>1. Have' /\ at' = 2
      BY <1>3, <2>3, OpenStep DEF Trying, CallWorks, Calling
    <3>2. prog.retried > 0 /\ 2 <= prog.retried + 1
      BY <1>2, <2>3 DEF Inv, Place
    <3>3. Place'
      BY <1>1, <2>1, <2>3, <3>1, <3>2 DEF Place
    <3>. QED BY <1>1, <2>1, <3>3 DEF Inv, Passes
  <2>4. CASE Start /\ pc = "tail"
    <3>1. Have' /\ at' = 2
      BY <1>3, <2>4, OpenStep, SetupAssumption DEF Start
    <3>2. ~Nothing'
      BY <3>1, SetupAssumption DEF Have, Nothing
    <3>3. prog.retried = 0 /\ 2 > 0
      BY <2>4 DEF Start
    <3>4. Place'
      BY <1>1, <2>1, <2>4, <3>1, <3>2, <3>3 DEF Place
    <3>. QED BY <1>1, <2>1, <3>4 DEF Inv, Passes
  <2>5. CASE pc = "tail" /\ (Nothing \/ NoSocket)
    BY <1>3, <2>5, NothingRefused, NoSocketRefused DEF CallWorks
  <2>. QED BY <2>1, <2>2, <2>3, <2>4, <2>5 DEF Inv, Place
<1>4. CASE CallIgnored
  <2>1. /\ addr' = addr /\ pc' = pc /\ at' = at + 1 /\ pc \in {"loop", "tail"}
        /\ sock' = sock /\ kernel' = kernel /\ Call \in prog.ignored
    BY <1>4 DEF CallIgnored, Calling
  <2>2. CASE Have
    <3>1. Have'
      BY <1>4, <2>2, HaveStep DEF CallIgnored
    <3>2. ~Nothing'
      BY <3>1, SetupAssumption DEF Have, Nothing
    <3>. QED BY <1>1, <1>2, <1>4, <2>1, <3>1, <3>2 DEF Inv, Place, CallIgnored, Calling, Passes
  <2>3. CASE Trying /\ pc = "loop"
    BY <1>1, <1>2, <1>4, <2>1, <2>3
    DEF Trying, Call, ScriptOK, SocketFirst, CallIgnored, Calling, Inv, Place
  <2>4. CASE Start /\ pc = "tail"
    <3>1. Call = "socket" /\ Call = prog.calls[1]
      BY <1>1, <2>4 DEF Start, Call, ScriptOK, SocketFirst
    <3>2. hurdle[1] = "socket" /\ "socket" \in prog.ignored
      BY <1>4, <2>1, <2>4, <3>1 DEF CallIgnored, Refused, Permitted, Start
    <3>3. Len(prog.calls) # 1
      BY <1>1, <3>1, <3>2 DEF ScriptOK, Notices
    <3>4. NoSocket'
      <4>1. at' = 2
        BY <2>1, <2>4 DEF Start
      <4>2. \A n \in Nat \ {0} : n # 1 => 2 \in 2 .. n
        OBVIOUS
      <4>3. 2 \in 2 .. Len(prog.calls)
        BY <1>2, <3>3, <4>2
      <4>. QED BY <1>1, <2>1, <2>4, <3>2, <4>1, <4>3 DEF Start, NoSocket, AllClosed
    <3>5. ~Nothing'
      BY <1>1, <2>4 DEF Nothing, Start
    <3>. QED BY <1>1, <1>2, <2>1, <2>4, <3>4, <3>5 DEF Inv, Place, Passes, Start
  <2>5. CASE pc = "tail" /\ Nothing
    BY <1>4, <2>1, <2>5, NothingRefused DEF CallIgnored
  <2>6. CASE pc = "tail" /\ NoSocket
    <3>1. at # Len(prog.calls)
      BY <1>4, <2>1, <2>6, NoSocketRefused DEF CallIgnored
    <3>2. NoSocket'
      BY <1>1, <1>2, <2>1, <2>6, <3>1 DEF NoSocket, AllClosed
    <3>3. ~Nothing'
      BY <1>1, <2>6 DEF Nothing, NoSocket
    <3>. QED BY <1>1, <1>2, <2>1, <2>6, <3>2, <3>3 DEF Inv, Place, Passes, NoSocket
  <2>. QED BY <2>1, <2>2, <2>3, <2>4, <2>5, <2>6 DEF Inv, Place
<1>5. CASE NextAddress
  <2>1. Trying' /\ pc' = "loop" /\ prog.retried > 0 /\ at' <= prog.retried + 1 /\ ~Passes(addr)
    BY <1>5, NextAddressStep
  <2>2. addr' = addr + 1 /\ addr \in Nat
    BY <1>5, SetupAssumption DEF NextAddress, Inv
  <2>3. \A b \in 1 .. addr' - 1 : b \in 1 .. addr - 1 \/ b = addr
    BY <2>2
  <2>. QED BY <1>1, <2>1, <2>3 DEF Inv, Place, Passes
<1>6. CASE GiveUp
  <2>1. GaveUp' /\ (Open \subseteq {sock})' /\ pc' = "exited" /\ addr' = addr
    BY <1>6, GiveUpStep DEF GiveUp
  <2>. QED BY <1>1, <2>1 DEF Inv, Place, Passes
<1>7. CASE LoopEnds
  <2>1. /\ pc = "loop" /\ pc' = "check" /\ at' = prog.retried + 1 /\ prog.retried > 0
        /\ addr' = addr /\ sock' = sock /\ kernel' = kernel
    BY <1>7 DEF LoopEnds, Inv, Place
  <2>2. CASE Have
    <3>1. at = prog.retried + 1
      BY <1>2, <1>7, <2>1, <2>2, SetupAssumption DEF LoopEnds, Have, Inv, Place
    <3>2. Have'
      BY <1>1, <2>1, <2>2, <3>1 DEF Have
    <3>. QED BY <1>1, <2>1, <3>2 DEF Inv, Place, Passes
  <2>3. CASE Trying
    <3>1. addr = N + 1
      BY <1>2, <1>7, <2>1, <2>3, SetupAssumption DEF LoopEnds, Trying, Inv
    <3>2. Nothing'
      BY <1>1, <2>1, <2>3, <3>1, SetupAssumption DEF Trying, Nothing, AllClosed
    <3>. QED BY <1>1, <2>1, <3>2 DEF Inv, Place, Passes
  <2>. QED BY <2>1, <2>2, <2>3 DEF Inv, Place
<1>8. CASE Check
  <2>1. /\ pc = "check" /\ UNCHANGED <<prog, hurdle, kernel, addr, at, sock>>
        /\ pc' = (IF Missing THEN "exited" ELSE "tail")
        /\ at = prog.retried + 1 /\ (Have \/ Nothing)
    BY <1>8 DEF Check, Inv, Place
  <2>2. (Have \/ Nothing)' /\ (Nothing' => Nothing)
    BY <2>1 DEF Have, Nothing, AllClosed
  <2>3. Missing => GaveUp /\ Open \subseteq {sock}
    BY <2>1, SetupAssumption DEF Missing, Have, Nothing, GaveUp, Inv, AllClosed, Open
  <2>4. Missing => GaveUp' /\ (Open \subseteq {sock})'
    BY <2>1, <2>3 DEF GaveUp, Open, First, Passes
  <2>5. Place'
    <3>1. CASE Missing
      BY <2>1, <2>4, <3>1 DEF Place
    <3>2. CASE ~Missing
      <4>1. Nothing => prog.test # "list" /\ (prog.test = "sock" => sock # 0)
        BY <3>2, SetupAssumption DEF Missing, Nothing
      <4>. QED BY <1>2, <2>1, <2>2, <3>2, <4>1 DEF Place
    <3>. QED BY <3>1, <3>2
  <2>. QED BY <2>1, <2>5 DEF Inv, Passes
<1>9. CASE GoToWork
  <2>1. /\ pc = "tail" /\ pc' = "working" /\ UNCHANGED <<prog, hurdle, kernel, addr, at, sock>>
        /\ at = Len(prog.calls) + 1
    BY <1>2, <1>9 DEF GoToWork, Inv
  <2>2. ~Start /\ ~NoSocket
    BY <1>2, <2>1 DEF Start, NoSocket
  <2>3. CASE Have
    BY <2>1, <2>3 DEF Have, Place, Inv, Passes
  <2>4. CASE Nothing
    <3>1. ~prog.stale
      BY <1>1, <1>2, <2>1, <2>4 DEF Nothing, Inv, Place, ScriptOK, Notices
    <3>2. sock = 0 /\ prog.test = "none"
      BY <1>1, <2>1, <2>4, <3>1 DEF Nothing, Inv, Place, ScriptOK, Typed
    <3>. QED BY <2>1, <2>4, <3>2 DEF Nothing, AllClosed, Place, Inv, Passes
  <2>. QED BY <2>1, <2>2, <2>3, <2>4 DEF Inv, Place
<1>. QED BY <1>3, <1>4, <1>5, <1>6, <1>7, <1>8, <1>9 DEF Next

LEMMA InvStep == Inv /\ [Next]_vars => Inv'
<1>1. ASSUME Inv, Next PROVE Inv'
  BY <1>1, TypesStep, PlaceStep DEF Inv
<1>2. ASSUME Inv, UNCHANGED vars PROVE Inv'
  BY <1>2 DEF Inv, vars, Place, Have, Trying, Nothing, Start, NoSocket, AllClosed,
              GaveUp, First, Passes, Open
<1>. QED BY <1>1, <1>2

LEMMA InvAlways == Spec => []Inv
  BY InvInit, InvStep, PTL DEF Spec

-----------------------------------------------------------------------------
(* Every variable keeps its type, and no descriptor is open but the one in *)
(* sock, after any failures of any number of addresses.                    *)
THEOREM SetupTypes == Spec => []TypeOK
<1>1. ASSUME Inv PROVE TypeOK
  <2>1. Open \subseteq {sock}
    BY <1>1 DEF Inv, Place, Have, Trying, Nothing, Start, NoSocket, AllClosed, Open
  <2>. QED BY <1>1, <2>1 DEF Inv, TypeOK
<1>. QED BY <1>1, InvAlways, PTL

(* A server that goes to work listens, unless its caller ignored that it   *)
(* has no socket.                                                          *)
LEMMA ServerSetup == Spec => []ServerSetupSound
<1>1. ASSUME Inv, pc = "working", prog.kind = "server"
      PROVE  \/ sock # 0 /\ kernel[sock] = "listening"
             \/ prog.test = "none" /\ sock = 0 /\ Open = {}
  <2>1. at = Len(prog.calls) + 1 /\ ScriptOK(prog)
    BY <1>1, Scripts DEF Inv, Place
  <2>2. CASE Have
    BY <1>1, <2>1, <2>2, BeforeWork DEF Have
  <2>3. CASE Nothing /\ sock = 0 /\ prog.test = "none"
    BY <2>3 DEF Nothing, AllClosed, Open
  <2>. QED BY <1>1, <2>2, <2>3 DEF Inv, Place
<1>2. ASSUME Inv, pc = "working", prog.kind = "datagram"
      PROVE  sock # 0 /\ kernel[sock] = "bound"
  <2>1. at = Len(prog.calls) + 1 /\ ScriptOK(prog)
    BY <1>2, Scripts DEF Inv, Place
  <2>2. Have
    BY <1>2, <2>1 DEF Inv, Place, ScriptOK, Notices
  <2>. QED BY <1>2, <2>1, <2>2, BeforeWork DEF Have
<1>3. Inv => ServerSetupSound
  BY <1>1, <1>2 DEF ServerSetupSound
<1>. QED BY <1>3, InvAlways, PTL

(* A client that goes to work is connected, also where SetupClient() has   *)
(* returned the number of a closed socket.                                 *)
LEMMA ClientSetup == Spec => []ClientSetupSound
<1>1. ASSUME Inv, pc = "working", prog.kind = "client"
      PROVE  sock # 0 /\ kernel[sock] = "connected"
  <2>1. at = Len(prog.calls) + 1 /\ ScriptOK(prog)
    BY <1>1, Scripts DEF Inv, Place
  <2>2. Have
    BY <1>1, <2>1 DEF Inv, Place, ScriptOK, Notices
  <2>. QED BY <1>1, <2>1, <2>2, BeforeWork DEF Have
<1>2. Inv => ClientSetupSound
  BY <1>1 DEF ClientSetupSound
<1>. QED BY <1>2, InvAlways, PTL

(* Both together: a program that goes to work listens, has bound its       *)
(* socket or is connected, as it is a server, one of datagrams or a client.*)
THEOREM SetupCorrect == Spec => []SetupSound
<1>1. ServerSetupSound /\ ClientSetupSound => SetupSound
  BY DEF SetupSound
<1>. QED BY <1>1, ServerSetup, ClientSetup, PTL

(* The first address that works is taken, and nobody gives up before every *)
(* address was tried, but for a call behind the loop.                      *)
THEOREM FirstAddress == Spec => []TakesFirstAddress
<1>1. ASSUME Inv, pc = "working", sock # 0 PROVE First(sock)
  <2>1. Have /\ at = Len(prog.calls) + 1 /\ ScriptOK(prog)
    BY <1>1, Scripts DEF Inv, Place
  <2>2. Passes(addr)
    BY <2>1 DEF Have, Passes, ScriptOK, Typed
  <2>. QED BY <1>1, <2>1, <2>2 DEF First, Inv, Have
<1>2. Inv => TakesFirstAddress
  BY <1>1 DEF TakesFirstAddress, Inv, Place, GaveUp
<1>. QED BY <1>2, InvAlways, PTL
=============================================================================
