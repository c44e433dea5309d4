# A TLA+ model of the socket programs

The repository holds the programs someone wrote while working through two books on sockets:
two `poll()` servers (`Beej/ch07`), and, under `Sockets_in_C`, sequential echo servers and clients (`ch02`,
`ch02-2`, `ch03`), a voting application (`ch05`), a `select()` server and a signal-driven UDP server (`ch06`).
None of them has a test. This directory models their control in TLA+, checks the models with TLC, and proves with
TLAPS, for every value of the constants, the safety properties that TLC checks on small instances.

## 1. The parts

| part | state it keeps | operations | what is hard |
|---|---|---|---|
| `poll_server2.c`, echo server | array `pfds` (doubled when full), `fd_count`, `fd_size`, the index of the scan | `poll`, `accept_conn`, `handler`, `add_to_pfds`, `del_from_pfds` | the array changes under the scan over it; entries whose `revents` nobody set; blocking `recv`, `send`, `accept` in the one thread; SIGPIPE |
| `poll_server.c` | the same array, a second loop index | the same, and a sending loop | a loop meant as a broadcast; a failing `accept()` that is only logged |
| `UDPEchoServer-SIGIO.c` | the socket's queue, the pending signal | `sigaction`, `F_SETOWN`, `F_SETFL`, `SIGIOHandler` | datagrams between any two calls; signals that do not count |
| `TCPEchoServer-Select.c` | the `fd_set`, `bRunning`, open descriptors | `select`, `AcceptConnection`, `HandleClient`, `getchar` | a set computed before a long call and used after it; failures of `select()`; descriptors never closed |
| sequential echo servers (eight programs) | the connection being served | `accept`, greeting, echo loop, `close` | everyone behind a client waits for it; any error ends the process |
| echo clients (seven programs) | bytes sent and received | `connect`, greeting, one `send`, loop over `recv` | sending everything before reading anything; end of stream |
| voting application | `counts`, `inBuf`, one stdio stream for one connection at a time | `GetNextMsg`, `Decode`, `Encode`, `PutMsg` | a buffer that keeps what earlier requests left; a stream read and written without a seek; exits inside a message |
| the other framers and text encoding of `ch05` | a byte stream and the receiver's buffer | `GetNextMsg` and `PutMsg` of `DelimFramer.c`, `DelimFramer2.c`, `LengthFramer.c`; `Encode` and `Decode` of `VoteEncodingText2.c` | messages that fill or exceed the buffer; a stream that ends anywhere |
| set-up of every program | `sock`, open descriptors | `SetupClient`, `SetupServer`, `get_listener_socket`, and the same calls written out in `main()` | partial failure at each address; what is left in `sock`; results nobody tests |

Servers and clients meet only in the kernel: a listen queue and two byte streams (or a datagram queue), with
closes and resets in them. The models therefore compose a program with the kernel's objects it uses and with
its peers. Inside a program the only callback is the SIGIO handler; nothing is threaded and nothing is kept on
disk, so there is no crash recovery to speak of: a crash loses everything, and the question is what it does to
the peers.

### Not modelled
* Programs and functions that only resolve or print addresses (`ch03/3-1`, `PrintSocketAddress.c`,
  `GetAddrInfo.c`, `IPv6_address.c`, `name_i4.c`, `name_i6.c`), `poll1.c` (one `poll()` call on standard input), and
  the exit helpers: they keep no state. In the models an exit is a value of the program counter.
* `response()` and the commented `main()` in the vote server's `main.c`, which nothing calls; the Makefiles.
* stdio called from the signal handler while `main()` is inside `puts()`: undefined behaviour of the C library, on
  state that nothing else in the program reads. What `FD_SET()` does with -1 is undefined too.
* A failing `malloc()` at the start of the poll servers, before anyone is connected. A failing `realloc()` is modelled.

## 2. The modules

| module | models | extends |
|---|---|---|
| `EchoService` | the abstract specification: what was sent back is a prefix of what was sent, per client | |
| `TcpPeers` | arbitrary TCP clients and the kernel: streams, closes, resets, aborted connections | |
| `PollServer` | `poll_server2.c` | `TcpPeers`; refines `EchoService` |
| `PollServerProofs` | theorems about it | `PollServer` |
| `PollChat` | `poll_server.c` | `PollServer` |
| `PollChatProofs` | theorems about it | `PollChat`, `PollServerProofs` |
| `IterativeEcho` | the sequential servers with the repository's clients | refines `EchoService` |
| `IterativeEchoProofs` | theorems about it | `IterativeEcho` |
| `SelectServer` | `TCPEchoServer-Select.c` with the same clients | `IterativeEcho`; refines `EchoService` |
| `SelectServerProofs` | theorems about it | `SelectServer`, `IterativeEchoProofs` |
| `SigioEcho`, `SigioEchoProofs` | `UDPEchoServer-SIGIO.c`; theorems about it | |
| `BallotBox` | the abstract specification of voting: ballots are taken at most once and in order, only a ballot that asks for a vote raises a count, one by one, an answer stands for a ballot | |
| `VoteSystem` | `VoteServer` and `VoteClient` | refines `BallotBox` |
| `VoteSystemProofs` | theorems about it | `VoteSystem` |
| `MessageChannel` | the abstract specification behind `Framer.h`: whole messages in order, an error in the place of one too long | |
| `Framing` | the three framers over one stream | refines `MessageChannel` |
| `FramingProofs` | theorems about it and about the texts of `VoteText2` | `VoteWire` |
| `VoteText2` | `VoteEncodingText2.c` | |
| `VoteWire` | its messages, and others, through the framers | `Framing`, `VoteText2` |
| `SocketSetup`, `SocketSetupProofs` | how 22 programs get their socket; theorems about it | |

`MC_*` modules give TLC symmetry sets and functions as constants. A definition whose name starts with `Bug_`
stands in front of the one it varies and is used by no specification: it is a mistake one could make in that
place, and serves to see that a property notices it.

### PollServer
State: `pfds`, `fd_count`, `fd_size` as in the code; `i` the index of the scan; `buf` what `handler()` has still
to send; `polled` the `fd_count` that the last `poll()` was given; `pc`. The array is a function over its allocated
slots, so an access outside it is an error of the model. `add_to_pfds()` takes the contents of a new slot's
`revents` from anything it can be: after `realloc()`, after a delete, left by `malloc()`. `poll()` sets `revents`
from the state of the connections, `PollFails` is its -1. `realloc_fails` is a failing `realloc()`: the code goes on
with the null pointer and dies at its next access. `send()` blocks: `HandlerSend` hands over what there
is room for and stays. On a reset connection it fails (logged) or SIGPIPE ends the process. Bytes are named by
sender and position, so a lost, repeated, reordered or misdirected byte is visible.

### PollChat
Takes poll, scan, accept and close from `PollServer`, and has its own failing `accept()` and its own sending loop.
`accept_logged` may fail on an aborted connection, or for any other reason at any time, as often as the environment
likes: the connection stays queued and `poll()` reports it again at once.
The loop sends to `pfds[i].fd`, with `j` running over the array: the model does what the code does.

### IterativeEcho
The eight servers are one machine, `accept -> (greeting) -> recv <-> send -> close -> accept`; they differ in
`Greeting` (5 bytes in `IPv6_TCP_V2`, none elsewhere), `BufSize`, and in which function holds the `close()`. The
clients are the repository's: they send the whole string, then read until as many bytes have come. The IPv6 clients do
not test `recv()` for 0 (`Heedless`). The client of `ch02-2/IPv4` calls `bind()` on its connected socket and always
ends there: that is `Kill` right after `Connect`. A client that is killed before the server has accepted it may reset
its connection at once (`Abort`), and the kernel may then drop it from the queue (`DropAborted`), as in `TcpPeers`.
`accept()` may fail at any time, for any cause, and ends the process (`AcceptFails`; in `IPv6_TCP_V2` `getsockname()`
and `getpeername()` behind it do the same). `UpCap` and `DownCap` bound what the kernel holds each way. A string may
be empty (`SendNothing`): the client leaves without a byte sent. The listen queue is a set: nothing that is checked
depends on its order. Death of the server resets the connections in the queue and those with unread bytes, as kernels
do.

### SelectServer
`spc` gains `select`, `getchar`, `scan`; `i` and `sockSet` are the code's. `HandleClient()` is the echo machine of
`IterativeEcho`; on its return nothing is closed (`held` only grows). `SelectFails` is the -1 of `select()`: the set is
unchanged, so everything in it, stdin included, counts as ready. A timeout only prints and is no step. Between
`select()` and `accept()` a connection may be reset and dropped, and `accept()` then waits. It may fail at any time
(`AcceptConnectionFails`) and must when the descriptors are used up (`OutOfDescriptors`). `ready` is a history
variable: the connections that waited when `select()` reported.

### SigioEcho
The set-up calls after `bind()` in order, datagrams arriving at any moment, `SIGIO` pending or not, the handler
as one action per system call. Datagrams are numbered; a length of 0 is the interesting one, a length above
the buffer is cut.

### VoteSystem
Digits are modelled where the code depends on them: `inBuf` from the column of the candidate on is a sequence of
cells (a digit or a blank), `Decode()` is `atoi()` over these cells (`strtol()`, which stops at `LONG_MAX`, cut to the low
bits of an `int`), and `GetNextMsg()` overwrites a front part of them. The
rest of a line is its kind. `inBuf` is in the loop's frame: it may hold anything at first and may keep its contents
between connections. The repository's client sends one line; the server's loop takes any number, so a peer may
send several at once and wait for as many responses. Clients may be killed inside `PutMsg()` (part of a line arrives)
or while they wait. `AcceptFails` is a failing `accept()`, also for want of a listening socket, or `fdopen()`: either ends
the process. `Running` is the server between its start and its end; nobody connects to it later.

The server opens its connection `r+` and turns from reading to writing without a seek, which C leaves undefined. What
the stream has read ahead may then be dropped, from any byte on (`Undropped`; a line cut this way leaves a `rest`), or
the response is not written and the stream ends (`HangUp`). This cannot happen to a client that sends one line. A
response to a connection that was reset raises SIGPIPE (`Exit`), but the reset comes only after an earlier response to
a client that had gone, so this needs several lines too.

### Framing, VoteText2, VoteWire
`framer` says which file is linked, at both ends: one action per `getc()` or `fread()`, with `Short` the end of the stream
inside what was asked for. `goesOn` tells a receiver that stops at a count that is not positive, as the vote server's
loop does, from one that calls `GetNextMsg()` again. Bytes are numbers below `Base`; the length field is two of them.
When more of an excess arrives than `waste[]` holds, `fread()` stores behind the array: what follows is undefined, and
the model ends there (`Overrun`).
The symbols of `VoteText2` are what `strtok()` can tell apart, and its words are found as `strtok()` finds them (`Starts`,
`Nth`). `Decode()` does not use the length of a message: it reads on in the buffer up to a NUL, through whatever an
earlier message left there (`Stale` of `VoteWire`).

### SocketSetup
A program is a record: the calls it makes in order, how many of them stand in the loop over the addresses, whether the
number of a closed socket stays in `sock`, from what the program tells that no address worked (-1 in `sock`, the end
of the list, or nothing), and which results nobody looks at. The
kernel refuses any call at any address, and every call the state of the socket does not permit (`Permitted`): that is
how a call on a stale or missing descriptor is noticed, if it is. Programs that make the same calls share
one record under several names.

## 3. The runs

| run | instance | checked |
|---|---|---|
| `PollServer_table` | 4 clients (symmetric), 1 byte each, array starts with 1 slot and is doubled twice, 3 connections at most | `TypeOK`, `TableMatchesDescriptors`, `StallsAreExplained` |
| `PollServer_echo` | 2 clients, 3 bytes, send buffer of 1, server buffer of 2, fair | `NoEchoLost`, `DeathNeedsEarlyClose`, `ImplementsEcho`, `ScanEnds`, `EveryByteAnswered`, `EveryClientServed` |
| `PollChat_copies` | 2 clients, 2 bytes, send buffer of 1, server buffer of 2, 2 connections at most, fair | `SenderGetsEveryCopy`, `CopiesInOrder`, `AcceptFailureIsLocal` |
| `IterativeEcho_pairs` | 4 clients, two heedless, a greeting of 2, one string just long enough to block, one empty, fair | `DoneMeansEchoed`, `ExitNeedsKilledClient`, `MutualBlockNeedsLongString`, `NobodyWaitsInVain`, `EveryStepGoesOn`, `ImplementsEcho`, `EveryClientEnds` |
| `SelectServer_ports` | 3 clients on 2 ports, 2 descriptors, fair | `WaitIsExplained`, `ExitIsExplained`, `EveryClientEndsOnAnyPort`, `ReturnShutsDown` |
| `SigioEcho_echo` | 4 datagrams of length 0 to 2, queue of 2, buffer of 1, fair | `StrandedIsExplained`, `AcceptedOnlyGrows`, `LateDatagramsEchoed` |
| `SocketSetup_sound` | 22 programs, 4 addresses, all patterns of failure | `TypeOK`, `SetupSound`, `TakesFirstAddress` |
| `VoteSystem_votes` | 2 clients with one or two lines each, candidates 3 and 12 of 12, every kind of line, `INT_MAX` 127, `LONG_MAX` 511, fair | `TypeOK`, `CandidateOnlyGrows`, `ExitIsExplained`, `NobodyWaitsInVain`, `ImplementsBallotBox`, `EveryWaiterEnds` |
| `VoteWire_framers` | 2 messages of 10 kinds, bytes below 8, buffer of 10, `waste[]` of 10, every text of up to 4 blanks and words and every message as stale bytes, fair | `ResultsArePieces`, `StopsAtTheEnd`, `OwnMessagesMisread`, `ImplementsChannel`, `AllDealtWith` |
| `SigioEcho_background` | | violated: `EchoingHappensInBackground` |
| `VoteSystem_candidate` | | violated: `CandidateInvariant` |
| `VoteSystem_response` | | violated: `ResponsesDecode` |

`SetupSound`, `StopsAtTheEnd` and the two `NobodyWaitsInVain` are conjunctions of named parts: `ServerSetupSound` and
`ClientSetupSound`; `StopIsExplained` and `OverrunIsExplained`;
`NobodyForgotten` and, of the sequential servers, `OnlyMutualBlock`, of the voting application, `VoteClientNeverHolds`.
No run repeats what is proved and has nothing of its own to show TLC: the types of `IterativeEcho`, `SelectServer`,
`SigioEcho` and `Framing`, `ImplementsEcho` of the select server, whose steps on the streams are those of
`IterativeEcho`, and `ChatScanEnds`, which extends `ScanEnds`, are theorems only (section 4).

`CHECK_DEADLOCK FALSE` is in the files because these systems may rightly stop: a server whose clients have all
gone waits for ever, and one that exited is done.

Why the bounds suffice. The array's moves depend on how many entries lie before and behind the scan's index: three
connections and the listener give an entry before, at and behind it, and sizes 1, 2 and 4 give a scan that runs over a
doubling. A buffer of 2 over a send buffer of 1 makes every send short once; three bytes make a second `recv()`
follow. In `IterativeEcho` one string has the smallest length that can block and the others the largest that cannot,
so the bound of `MutualBlockNeedsLongString` is tight; the others are one byte shorter, or empty. Two ports are enough
for one to wait on the other; two descriptors and three clients run out; a listen queue of two can have one of its
connections dropped. Candidates 3 and 12 are the shortest pair where a leftover digit changes the candidate, to one in
or out of range. Two lines on one connection are enough for one to be dropped behind the other's response, and for a
second response after a reset. With 8 byte values 64 bytes are too many for the length field, and among the messages
are an empty one, one that fills the buffer, one that just fits the buffer and `waste[]`, one longer by a byte, and
one with the delimiter in it. With `INT_MAX` at 127 and `LONG_MAX` at 511 the digits that `inBuf` can add to a
candidate give numbers that are no `int`, and numbers that are no `long`. Four addresses give a first, two middle and
a last one; the proofs are for any number.

### Fairness
Every server is one thread that the scheduler runs: weak fairness of the disjunction of its steps (never of single
actions, since nothing makes the code prefer one outcome). Failures chosen by the environment (`PollFails`,
`SelectFails`, signals) are outside it. Clients of `TcpPeers` owe nothing. The repository's own clients, once
connected, are processes that run too; that resets arrive is TCP's promise. Where a system call may block for
ever the liveness properties say so in a premise `[]<>~Stuck` (`Stalled`, `Held`, `MutualBlock`), and invariants
say when that can be (`StallsAreExplained`, `WaitIsExplained`, `MutualBlockNeedsLongString`).

### What they show
* The array of the poll servers is sound under all interleavings, although it is changed during the scan: the entry
  moved under the index is skipped once and not starved, and `revents` left unset can make the scan block in `recv()`
  on the connection it has just accepted, and only there.
* All TCP echo servers implement `EchoService`; one client that closes early can end the service for all others.
* The bound of their scan is read anew for every entry while entries come and go; it ends all the same, since a slot
  visited is one less to visit and only the first slot can bring a new one.
* `poll_server.c` sends all copies to the sender, one after the other and each in order: at least two, and at most one
  more than there are clients, as the array changes between the reads.
* A sequential server and a client block each other exactly when the string does not fit both directions of the kernel
  plus a byte in each hand, and in no other way: in particular never both in `recv()`, although they tell by counting
  alone whose turn it is. No connection is forgotten, none is served twice, and every step of anybody takes some
  client further along its course or ends the server, so nothing but a call that waits can keep a client from its end.
  A heedless client spins only after the server is gone.
* The select server waits in `accept()` without a client only after a failed `select()`, or when all connections that
  `select()` reported at that port were reset and dropped while it was busy with the ports before; it exits after
  `MaxOpen` connections in its life, as it never closes one.
* Every TCP server but `poll_server.c` ends when `accept()` fails, whatever the cause. While they serve a connection
  the sequential and the `select()` server end only when its client was killed and the connection reset.
* Whatever calls fail, no program leaks a descriptor or goes to work without its socket, except two servers that do
  not test for -1 (`VoteServer`, `TCPEchoServer-Select`). A client whose `connect()` failed at the last address gets a
  closed descriptor, since `SetupClient()` leaves its number in `sock`, but its next call (`fdopen()`,
  `getpeername()`) refuses that and the program ends. The client of exercise 2-9 never gets to work.
* The voting application implements `BallotBox` whatever is dropped, cut or left in buffers: no line is handled twice
  or out of order and no response stands for a line that was not handled. While the server serves a connection, only a
  client cut off inside its line, or one that goes away with several lines unanswered, ends it. Whoever waits is
  queued or served or can see the end of its connection, and a client that sends one request, as the repository's
  does, never waits for a server that waits for it, whatever the stdio stream drops.
* All framers implement `MessageChannel` up to the first message that is too long, and `LengthFramer.c` behind it too;
  the delimiter framers return the rest of such a message in pieces. When the sender closes, the receiver stops at the
  end of the last message; a message without its end is the sign of a sender that was killed. `LengthFramer.c`
  overruns `waste[]` only in a message longer than `buf` and `waste[]` together. `Decode()` of `VoteEncodingText2.c`
  never gets back what its own `Encode()` was given: it asks for one word more than there is, and refuses the message,
  or finds that word among the stale bytes behind it and then takes something else than the candidate for the
  candidate.
* Three statements of comments do not hold; they are the violated runs. Datagrams that arrive before `F_SETFL` are not
  echoed in the background; the decoded candidate leaves the range the header promises; a response does not have the
  documented wire format.

## 4. The proofs

Every theorem is about any values of the constants that satisfy the `ASSUME` of the module (`PeersAssumption` and so
on). Besides the types these say that buffers and queues have room for something, that the clients of the `poll()`
servers are finitely many, that the `select()` server sends no greeting, that a line of a voter fits the server's
buffer (`LinesFit`; its format allows no longer one), and that an `int` holds every candidate and a `long` every
`int`. Few of the properties are inductive alone; what follows is what each proof adds.

| module | theorems, with the property each states |
|---|---|
| `PollServerProofs` | `TypeCorrect` (`TypeOK`), `TableCorrect` (`TableMatchesDescriptors`), `StallsCorrect` (`StallsAreExplained`), `EchoCorrect` (`NoEchoLost`), `DeathCorrect` (`DeathNeedsEarlyClose`), `ScanEndsCorrect` (`ScanEnds`), `EchoRefinement` (`ImplementsEcho`) |
| `PollChatProofs` | `CopiesCorrect` (`SenderGetsEveryCopy`), `CopiesInOrderCorrect` (`CopiesInOrder`), `ChatScanEndsCorrect` (`ChatScanEnds`), `ChatTableCorrect` (`TableMatchesDescriptors` for `ChatSpec`) |
| `IterativeEchoProofs` | `TypeCorrect` (`TypeOK`), `DoneAlwaysEchoed` (`DoneMeansEchoed`), `ExitCorrect` (`ExitNeedsKilledClient`), `MutualBlockCorrect` (`MutualBlockNeedsLongString`), `NobodyWaitsInVainCorrect` (`NobodyWaitsInVain`), `EveryStepGoesOnCorrect` (`EveryStepGoesOn`), `ImplementsEchoService` (`ImplementsEcho`) |
| `SelectServerProofs` | `SelTypeCorrect` (`SelTypeOK`), `WaitCorrect` (`WaitIsExplained`), `SelExitCorrect` (`ExitIsExplained`), `SelImplementsEchoService` (`ImplementsEcho`), `SelClientsCorrect` and `SelNobodyWaitsInVain` (three properties of `IterativeEcho`, for `SelSpec`) |
| `SigioEchoProofs` | `TypeIsOK` (`TypeOK`), `StrandedAlwaysExplained` (`StrandedIsExplained`), `NothingLostInTheHandler` (`AcceptedOnlyGrows`) |
| `VoteSystemProofs` | `VoteTypeCorrect` (`TypeOK`), `CandidateCorrect` (`CandidateOnlyGrows`), `ExitAlwaysExplained` (`ExitIsExplained`), `NobodyWaitsInVainCorrect` (`NobodyWaitsInVain`), `ImplementsTheBallotBox` (`ImplementsBallotBox`) |
| `FramingProofs` | `FramingTypeCorrect` (`TypeOK`), `PiecesCorrect` (`ResultsArePieces`), `StopsCorrect` (`StopsAtTheEnd`), `FramersImplementChannel` (`ImplementsChannel`), `Text2MisreadsItsOwn` (`OwnMessagesMisread`) |
| `SocketSetupProofs` | `SetupTypes` (`TypeOK`), `SetupCorrect` (`SetupSound`), `FirstAddress` (`TakesFirstAddress`) |

### poll() servers
In `PollServerProofs` the strengthening adds what the code relies on without saying: the entry at the index is the
connection `buf` came from while it is being sent; in every slot below `polled` and not yet visited, `POLLIN` means that
the connection has something to read, which stays true because only this scan reads; `i`, `polled` and `fd_count` are
ordered. One lemma per action shows that it is kept, with lemmas on the two array operations (an entry appended, the
last entry moved down) and on concatenation of the streams below them. It comes in three parts: `TableInv` (`TypeOK`,
`TableMatchesDescriptors`, the counters in `Accounting`, and `HandHasClient`) carries the table; `ScanInv` adds
`ScanKnows` and `QueueKnows`, what a set `POLLIN` still tells the scan about a connection and about the listener;
`EchoInv` carries the streams. The refinement maps `HandlerSend` to `Reply`, `Write` to `Submit`, and everything else
to stuttering. `ScanEnds` compares two triples (slots still to visit, the call to be made for one, bytes in hand) in
lexicographic order: `accept_conn()` adds an entry, but visits the slot of the listener, which had counted for two;
`del_from_pfds()` takes an entry away; a `send()` takes bytes. `IndexInv` (the index is at most one past `fd_count`) keeps
the numbers natural ones.

`PollChatProofs` takes `TableInv` and its lemmas over. `Loop` says that what the sending loop still has to send is the
end of what `handler()` received, and that its index is below `fd_count`; `Copies` counts, for every byte, one copy for
each round so far and one more if this round has sent it. The scan's work gets a fourth number for the copies. `OrderInv`
is the invariant behind `CopiesInOrder`: what a client has been sent ends with the byte before the one the loop is about
to send, or between two copies with the last byte received (`Reached`), and each byte is followed by the next or, at the
seam of two copies, by an earlier one less than a buffer away (`Ordered`).

### Echo servers and clients
The invariant of `IterativeEchoProofs` has six parts. `Streams` says that what a client has been sent, followed by what
the server has in hand for it, is the greeting and what was received of it; `Progress` how far a client is at each of
its steps; `Ends` how a connection can have ended; `Fresh` that nothing has moved before `accept()`. The bound in
`MutualBlockNeedsLongString` comes from counting the bytes of one client: those in both directions of the kernel, those
in the server's hand and the one each side cannot get rid of. The parts do not mention what the server waits in when it
serves nobody, so `SelectServerProofs` uses the same lemmas for `HandleClient()` and adds `ScanFinds`: every port of
`sockSet` that the scan has still to visit has a connection that `select()` reported and that is still in the queue or was
reset and dropped from it. That is what a set computed before a long call is worth after it: connections leave a queue
only by this server's `accept()` or, reset, by the kernel.

A second invariant, `Waits`, is about who waits for whom. `Owed` says that a connected client is in the queue or
served or that its connection has ended (from which `NobodyForgotten` follows), `Window` that no more is on its way
than the kernel holds, and `Reads` that a client at each of its calls still has something to get: a client that would
wait for a byte the server has no more of contradicts `Streams` with `Reads`, so of two that wait for each other
neither can be in `recv()` (`OnlyMutualBlock`). `EveryStepGoesOn` is an action property: each client has a tuple of
numbers (`Course`: in whose hands, which step, how many bytes on each stream), and every action leaves all of them
where they are or raises them, and raises one. With `NobodyForgotten` it is the safety half of `EveryClientEnds`.

### SIGIO server
`HandAndCall` ties the call the handler makes next to what it has in hand; `Early` says that nothing was signalled or
received before `F_SETFL`. With them `StrandedIsExplained` is inductive.

### Voting
The refinement of `BallotBox` needs that the lines still to come on a connection are later ones than those taken
(`Order`), that a connection is in the queue at most once (`Queue`), and that while the server prepares a response
there is a line without one (`Answers`). `Endings` says how connections can have been cut and reset, for
`ExitIsExplained`. None of this depends on what a line says.

The first half of `NobodyWaitsInVain` follows one connection through the queue (`VoterNeverForgotten`); the second
(`VoteClientServed`) needs `Owing`: of a client that sent
one request the line is still to be taken, or is being answered, or the response has been written; a stream that drops
what it has read ahead can drop only what came behind that line.

`CandidateOnlyGrows` does: `Digits` writes a number in decimal, a line is stored over the front of what `inBuf` held,
and `atoi()` reads digits up to the first blank. The invariant `Text` says that the cells hold digits and blanks and
that the candidate being handled is the line's with some digits appended, unless what was read is no `int`. The lemmas
below it (`NumberReads`, `DigitsRead`, `NumberGrows`) are inductions over the length of a number, see below.

### Framing
The wire holds the coded messages one after the other; where each begins is a function `off`, of which the invariant
says that there is one (`Layout`), and `PutMsg` extends it. `ByLength` and `ByDelim` say where in this layout the
receiver is and what it has returned, up to the first error of a delimiter framer; that is enough for
`MessageChannel`. What is returned behind an error is in `Pieced`: after `n` whole messages and `e` errors the
receiver is `e` buffers and `buf` into the next message. `SamePlaces` (a layout is unique) lets the second invariant
be proved on top of the first. For `StopsAtTheEnd` the layout has to say that the wire goes to the end of the last
message unless the sender was killed: a receiver at the end of the wire, or with less than a length on it, is then
behind the last message, and what it has returned is `f[Len(accepted)]`, the pieces of all messages in one
(`FlattenBuilt`).

`Text2MisreadsItsOwn` counts the words that begin in a message: three in a request, and `Decode()` asks for four; five
in a response, and it asks for six. What it finds must therefore begin behind the message, whatever follows it
(`NthIsBehind`); in a response the word taken for the candidate is likewise one behind it. An overrun needs no more of
the layout than that the length read is that of the next message (`OverrunOfLong`).

### Set-up
`SocketSetupProofs` is for a list of addresses of any length. What a program may call next depends on what it has called
before on the same socket: `Before` is the state a sequence of calls leads to, `ScriptOK` what every one of the 22 scripts
obeys (lemma `Scripts`), and `Inv` ties the kernel's state to the place in the program. From there the proof no longer
looks at single programs. `FirstAddress` adds that every earlier address was refused.

### Induction over data
The library's induction theorems take an operator as a parameter, which the installed provers cannot instantiate. Two
proofs need induction all the same. Both state it about a *set* `T` of numbers: `Least` (a nonempty subset of `Nat` has a
least element, from the library's `WFMin` and `NatLessThanWellFounded`) gives `Course` (a `T` that contains every number
whose predecessors it contains is all of `Nat`), and the cases are sets `{n \in Nat : ...}`. From `Course` follows that a
function defined by recursion exists (`Recursion`), hence what `Digits`, `Pow10` and `Number` compute, and that a function
that satisfies the equations of `FlattenSeq` is the one it chooses (`FlattenIs`).

### Only model-checked
* Everything about liveness: it needs fairness and `ENABLED`, which are out of the prover's reach. These are
  `EveryByteAnswered`, `EveryClientServed`, `AcceptFailureIsLocal`, `EveryClientEnds`, `EveryClientEndsOnAnyPort`,
  `ReturnShutsDown`, `LateDatagramsEchoed`, `EveryWaiterEnds` and `AllDealtWith`.
  Of the steps such an argument is made of, those that need neither are theorems: that nobody is forgotten, who can wait
  for whom, and that every step leaves less to do (`NobodyWaitsInVain` of both systems, `EveryStepGoesOn`,
  `ScanEnds`, `ChatScanEnds`, `StopsAtTheEnd`).
* The three violated statements: their counterexamples are TLC's.

## 5. State of the work

The modules were written in the order `TcpPeers`, `EchoService`, `PollServer`, its proofs, `PollChat`, `SigioEcho`,
`SocketSetup` and its proofs, `VoteSystem`, `IterativeEcho`, `SelectServer`, `Framing`, `VoteText2`, `VoteWire`,
`BallotBox`; then the proofs of the others. Every invariant and every action property that a run checks is a theorem
for all values of the constants.

What could be added:
1. Which constants and which behaviour of clients make the deaths of `ExitIsExplained` and `DeathNeedsEarlyClose`
   impossible, as theorems.
2. The liveness properties themselves, with a prover that handles `ENABLED`.
