---------------------------- MODULE SocketSetup ----------------------------
(***************************************************************************)
(* How every program of the repository gets its first socket.  A program   *)
(* is the sequence of calls it makes up to its main loop or conversation,  *)
(* and what it does when one of them fails.  Some try the first calls on   *)
(* every address that getaddrinfo() listed until they all work; the others *)
(* make each call once and exit when it fails.                             *)
(*                                                                         *)
(* The descriptor opened for the a-th address is named a; 0 is the -1 of   *)
(* the code.                                                               *)
(***************************************************************************)
EXTENDS Naturals, Sequences

CONSTANT N   \* addresses in the list

ASSUME SetupAssumption == N \in Nat \ {0}

Calls  == {"socket", "setsockopt", "bind", "listen", "inet_pton", "connect",
           "getpeername", "getsockname", "fdopen"}
States == {"closed", "fresh", "bound", "listening", "connected"}

(* retried: how many of the calls stand in the loop over the addresses;    *)
(* stale: the number of a socket that was closed stays in sock; test: what *)
(* tells the program that no address worked, sock being -1, the end of the *)
(* list, or nothing; ignored: calls whose result it does not look at.      *)
InLoop(kind, calls, retried, stale, test) ==
  [kind |-> kind, calls |-> calls, retried |-> retried, stale |-> stale,
   test |-> test, ignored |-> {"setsockopt"}]

Straight(kind, calls, ignored) ==
  [kind |-> kind, calls |-> calls, retried |-> 0, stale |-> FALSE,
   test |-> "sock", ignored |-> ignored]

-----------------------------------------------------------------------------
(* The functions that ask for the addresses of a socket, by the call that  *)
(* the state of the socket may refuse, and the call of exercise 2-9.       *)
print_connection_info     == "getpeername"
get_remote_addr           == "getpeername"
get_local_addr            == "getsockname"
print_local_addr          == "getsockname"
exercise9                 == "bind"

(* Programs with a loop over the addresses.                                *)
VoteClient     == InLoop("client", <<"socket", "connect", "fdopen">>, 2, TRUE, "sock")
EchoClient     == InLoop("client", <<"socket", "connect", print_connection_info>>,
                         2, TRUE, "sock")
VoteServer     == InLoop("server", <<"socket", "bind", "listen">>, 3, FALSE, "none")
SelectServer   == VoteServer
EchoServer     == InLoop("server", <<"socket", "bind", "listen", print_local_addr>>,
                         3, FALSE, "sock")
EchoServer2    == InLoop("server", <<"socket", "bind", "listen">>, 3, FALSE, "sock")
poll_server2   == InLoop("server", <<"socket", "setsockopt", "bind", "listen">>,
                         3, TRUE, "list")
poll_server    == poll_server2

(* Servers that are given a port.                                          *)
TCP_Echo_Server  == Straight("server", <<"socket", "bind", "listen">>, {})
IPv4_Server      == TCP_Echo_Server
IPv6_Server      == TCP_Echo_Server
IPv6_V2_Server   == Straight("server", <<"socket", get_local_addr, "bind",
                                         get_local_addr, "listen">>, {})
ch02_IPv4_Server == TCP_Echo_Server
ch02_IPv6_Server == TCP_Echo_Server
ch02_main2       == Straight("server", <<"socket", "bind", "listen">>, {"socket"})

(* Clients that are given an address, and two that exercises modified.     *)
TCP_Echo_Client  == Straight("client", <<"socket", "inet_pton", "connect">>, {})
IPv4_Client      == TCP_Echo_Client
IPv6_Client      == TCP_Echo_Client
IPv6_V2_Client   == Straight("client", <<"socket", "inet_pton", "connect",
                                         get_remote_addr, get_local_addr>>, {})
ch02_IPv4_Client == Straight("client", <<"socket", "inet_pton", "connect", exercise9,
                                         print_connection_info>>, {})
exercise_07      == Straight("other", <<"socket", "getpeername", "getsockname">>,
                             {"socket", "getpeername"})

(* The SIGIO server takes the first address alone.                         *)
UDPEchoServer    == Straight("datagram", <<"socket", "bind">>, {})

Programs ==
  {VoteClient, EchoClient, VoteServer, SelectServer, EchoServer, EchoServer2,
   poll_server2, poll_server, TCP_Echo_Server, IPv4_Server, IPv6_Server,
   IPv6_V2_Server, ch02_IPv4_Server, ch02_IPv6_Server, ch02_main2,
   TCP_Echo_Client, IPv4_Client, IPv6_Client, IPv6_V2_Client,
   ch02_IPv4_Client, exercise_07, UDPEchoServer}

-----------------------------------------------------------------------------
(* The kernel: in which state of a socket a call can succeed, and the      *)
(* state it leaves.                                                        *)
Permitted(call, state) ==
  CASE call \in {"socket", "inet_pton"} -> TRUE
    [] call = "bind"                    -> state = "fresh"
    [] call \in {"listen", "connect"}   -> state \in {"fresh", "bound"}
    [] call = "getpeername"             -> state = "connected"
    [] OTHER                            -> state # "closed"

Result(call, state) ==
  CASE call = "socket"  -> "fresh"
    [] call = "bind"    -> "bound"
    [] call = "listen"  -> "listening"
    [] call = "connect" -> "connected"
    [] OTHER            -> state

VARIABLES
  prog,     \* the program
  hurdle,   \* for each address the call the kernel will refuse, or "none"
  kernel,   \* the state of each socket
  addr,     \* the address the loop looks at
  at,       \* the next call
  sock,     \* the program's variable sock
  pc        \* "loop", "check", "tail", "working" or "exited"

vars == <<prog, hurdle, kernel, addr, at, sock, pc>>

CallsOf(p) == {p.calls[i] : i \in 1 .. Len(p.calls)}
Open       == {a \in 1 .. N : kernel[a] # "closed"}

Init ==
  /\ prog \in Programs
  /\ hurdle \in [1 .. N -> CallsOf(prog) \cup {"none"}]
  /\ prog.retried = 0 => \A a \in 2 .. N : hurdle[a] = "none"
  /\ kernel = [a \in 1 .. N |-> "closed"]
  /\ addr = 1 /\ at = 1 /\ sock = 0
  /\ pc = IF prog.retried = 0 THEN "tail" ELSE "loop"

Call == prog.calls[at]

Calling ==
  \/ pc = "loop" /\ addr <= N /\ at <= prog.retried
  \/ pc = "tail" /\ at <= Len(prog.calls)

Refused ==
  \/ addr <= N /\ hurdle[addr] = Call
  \/ ~Permitted(Call, IF sock = 0 THEN "closed" ELSE kernel[sock])

CallWorks ==
  /\ Calling /\ ~Refused
  /\ sock' = IF Call = "socket" THEN addr ELSE sock
  /\ kernel' = [kernel EXCEPT ![sock'] = Result(Call, @)]
  /\ at' = at + 1
  /\ UNCHANGED <<prog, hurdle, addr, pc>>

(* Nobody looks at the result, which may be the descriptor.                *)
CallIgnored ==
  /\ Calling /\ Refused /\ Call \in prog.ignored
  /\ at' = at + 1
  /\ UNCHANGED <<prog, hurdle, kernel, addr, sock, pc>>

(* In the loop: close the socket, unless there is none, and go on.         *)
Bug_NextAddress ==               \* the socket is not closed
  /\ pc = "loop" /\ Calling /\ Refused /\ Call \notin prog.ignored
  /\ sock' = IF Call # "socket" /\ prog.stale THEN sock ELSE 0
  /\ addr' = addr + 1 /\ at' = 1
  /\ UNCHANGED <<prog, hurdle, kernel, pc>>

NextAddress ==
  /\ pc = "loop" /\ Calling /\ Refused /\ Call \notin prog.ignored
  /\ kernel' = IF Call = "socket" THEN kernel ELSE [kernel EXCEPT ![sock] = "closed"]
  /\ sock' = IF Call # "socket" /\ prog.stale THEN sock ELSE 0
  /\ addr' = addr + 1 /\ at' = 1
  /\ UNCHANGED <<prog, hurdle, pc>>

(* Behind the loop: the program exits.                                     *)
GiveUp ==
  /\ pc = "tail" /\ Calling /\ Refused /\ Call \notin prog.ignored
  /\ pc' = "exited"
  /\ UNCHANGED <<prog, hurdle, kernel, addr, at, sock>>

(* break, or the end of the list.                                          *)
Bug_LoopEnds ==                  \* one address too few
  /\ pc = "loop" /\ (at > prog.retried \/ addr >= N)
  /\ pc' = "check" /\ at' = prog.retried + 1
  /\ UNCHANGED <<prog, hurdle, kernel, addr, sock>>

LoopEnds ==
  /\ pc = "loop" /\ (at > prog.retried \/ addr > N)
  /\ pc' = "check" /\ at' = prog.retried + 1
  /\ UNCHANGED <<prog, hurdle, kernel, addr, sock>>

(* Behind the loop, in the function or in its caller.                      *)
Missing ==
  \/ prog.test = "sock" /\ sock = 0
  \/ prog.test = "list" /\ addr > N

Bug_Check ==                     \* the test for -1 is forgotten
  /\ pc = "check"
  /\ pc' = "tail"
  /\ UNCHANGED <<prog, hurdle, kernel, addr, at, sock>>

Check ==
  /\ pc = "check"
  /\ pc' = IF Missing THEN "exited" ELSE "tail"
  /\ UNCHANGED <<prog, hurdle, kernel, addr, at, sock>>

GoToWork ==
  /\ pc = "tail" /\ at > Len(prog.calls)
  /\ pc' = "working"
  /\ UNCHANGED <<prog, hurdle, kernel, addr, at, sock>>

Next == CallWorks \/ CallIgnored \/ NextAddress \/ GiveUp \/ LoopEnds \/ Check \/ GoToWork

Spec == Init /\ [][Next]_vars

-----------------------------------------------------------------------------
(* Properties.                                                             *)

(* The types; only the socket in sock is ever open, whatever failed before.*)
TypeOK ==
  /\ prog \in Programs
  /\ hurdle \in [1 .. N -> Calls \cup {"none"}]
  /\ kernel \in [1 .. N -> States]
  /\ addr \in 1 .. N + 1 /\ at \in 1 .. Len(prog.calls) + 1 /\ sock \in 0 .. N
  /\ pc \in {"loop", "check", "tail", "working", "exited"}
  /\ Open \subseteq {sock}

(* A server that goes to work listens on its socket, unless its caller     *)
(* ignored that there is none: VoteServer and TCPEchoServer-Select.  That  *)
(* of datagrams has bound it.                                              *)
ServerSetupSound ==
  /\ pc = "working" /\ prog.kind = "server"
       => \/ sock # 0 /\ kernel[sock] = "listening"
          \/ prog.test = "none" /\ sock = 0 /\ Open = {}
  /\ pc = "working" /\ prog.kind = "datagram"
       => sock # 0 /\ kernel[sock] = "bound"

(* A client that goes to work is connected.  SetupClient() returns the     *)
(* number of a socket it has closed when the last address fails in         *)
(* connect(): what its callers call next has to notice.                    *)
ClientSetupSound ==
  pc = "working" /\ prog.kind = "client"
    => sock # 0 /\ kernel[sock] = "connected"

(* Whatever failed on the way, a program goes to work only with the socket *)
(* it is written for.                                                      *)
SetupSound == ServerSetupSound /\ ClientSetupSound

(* The address taken is the first one on which every call of the loop      *)
(* works; a program exits only if there is none, or if a call behind the   *)
(* loop is refused there (then later addresses are not tried), or if it is *)
(* the client of exercise 2-9, which binds its connected socket.           *)
Passes(a) == \A i \in 1 .. prog.retried :
               hurdle[a] # prog.calls[i] \/ prog.calls[i] \in prog.ignored
First(a)  == Passes(a) /\ \A b \in 1 .. a - 1 : ~Passes(b)

TakesFirstAddress ==
  /\ pc = "working" /\ sock # 0 => First(sock)
  /\ pc = "exited" =>
       \/ \A a \in 1 .. N : ~Passes(a)
       \/ \E a \in 1 .. N : First(a) /\ \E i \in prog.retried + 1 .. Len(prog.calls) :
                                           hurdle[a] = prog.calls[i]
       \/ prog = ch02_IPv4_Client
=============================================================================
