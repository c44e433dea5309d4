----------------------------- MODULE VoteSystem -----------------------------
(***************************************************************************)
(* The voting application, Sockets_in_C/ch05: VoteClient sends one line,   *)
(* "Voting <v|i>  <candidate>", and waits for the response; VoteServer     *)
(* serves one connection after another and keeps the counts.  It takes any *)
(* number of lines on a connection; a peer may send them all at once and   *)
(* wait for as many responses.                                             *)
(*                                                                         *)
(* Of the text encoding the model keeps what its users can tell apart.     *)
(* Decode() does not look at the length of the line: it reads the cells of *)
(* inBuf behind it too, and inBuf is never initialised or cleared.  These  *)
(* cells are the variable tail: inBuf from the column on where a request   *)
(* has its candidate.  Encode() prints the count of a response at the      *)
(* start of its buffer, over "Voting"; the bytes it leaves unwritten at    *)
(* the end are sent as they are.                                           *)
(*                                                                         *)
(* The server reads and writes one stdio stream without a seek in between, *)
(* which C leaves undefined.  With input left in the stream's buffer one C *)
(* library (BSD) drops that input and writes, another (glibc) writes       *)
(* nothing and reports the end of the stream at the next read.             *)
(***************************************************************************)
EXTENDS Integers, Sequences, SequencesExt

CONSTANTS
  Clients,       \* each makes one connection
  Sendings,      \* bound: the sequences of lines one of them may send
  MAX_CANDIDATE,
  INT_MAX,       \* the largest int, and the largest long
  LONG_MAX,
  TailSize,      \* bound: MAX_WIRE_SIZE less that column
  Fills          \* bound: what uninitialised memory may hold

Blank == 10      \* a cell that holds no digit

Line == [kind : {"request", "response", "noise"}, isInquiry : BOOLEAN,
         candidate : 0 .. MAX_CANDIDATE]

ASSUME VoteAssumption ==
  /\ Clients # {}
  /\ {MAX_CANDIDATE, INT_MAX, LONG_MAX} \subseteq Nat
  /\ MAX_CANDIDATE <= INT_MAX /\ INT_MAX <= LONG_MAX
  /\ \A s \in Sendings : s \in Seq(Line) /\ s # <<>>
  /\ TailSize \in Nat
  /\ Fills \subseteq 0 .. Blank

VARIABLES
  cpc,       \* a client: "start", "wait", "done", or "dead"
  lines,     \* what it sends
  result,    \* what it printed: "none" yet, "ok" or "error"
  toServer,  \* unread bytes: lines or pieces of lines, see Piece
  toClient,  \* the responses written to it: the token each starts with
  fin,       \* the client's end is closed
  reset,     \* and its kernel has answered with a reset, or is about to
  shut,      \* the server's end is closed
  backlog,   \* connections the server has not accepted
  spc,       \* the server: "accept", "get" or "put"; "exited" while it served
             \* a connection, or "acceptFailed"
  cur,       \* the connection it serves
  tail,      \* see above
  v,         \* the request it has decoded, made a response
  counts,    \* the votes
  taken      \* history: of each client, the lines handled as requests

clientVars == <<cpc, lines, result>>
netVars    == <<toServer, toClient, fin, reset, shut, backlog>>
serverVars == <<spc, cur, tail, v, counts, taken>>
vars       == <<clientVars, netVars, serverVars>>

(* Of line nr all of it, a start without its delimiter, or its end.        *)
Piece    == [nr : Nat, is : {"whole", "cut", "rest"}]
Whole(n) == [k \in 1 .. n |-> [nr |-> k, is |-> "whole"]]
VoteInfo == [isInquiry : BOOLEAN, candidate : -(INT_MAX + 1) .. INT_MAX, count : Nat]
Filled(f) == [k \in 1 .. TailSize |-> f]

TypeOK ==
  /\ cpc \in [Clients -> {"start", "wait", "done", "dead"}]
  /\ lines \in [Clients -> Sendings]
  /\ result \in [Clients -> {"none", "ok", "error"}]
  /\ toServer \in [Clients -> Seq(Piece)]
  /\ toClient \in [Clients -> Seq({"Voting", "count"})]
  /\ fin \in [Clients -> BOOLEAN] /\ shut \in [Clients -> BOOLEAN]
  /\ \A c \in Clients : reset[c] => fin[c]
  /\ backlog \in Seq(Clients)
  /\ spc \in {"accept", "get", "put", "exited", "acceptFailed"}
  /\ cur \in Clients
  /\ tail \in [1 .. TailSize -> 0 .. Blank]
  /\ v \in VoteInfo
  /\ counts \in [0 .. MAX_CANDIDATE -> Nat]
  /\ taken \in [Clients -> Seq(Nat)]

Init ==
  /\ cpc = [c \in Clients |-> "start"]
  /\ lines \in [Clients -> Sendings]
  /\ result = [c \in Clients |-> "none"]
  /\ toServer = [c \in Clients |-> <<>>] /\ toClient = [c \in Clients |-> <<>>]
  /\ fin = [c \in Clients |-> FALSE] /\ shut = [c \in Clients |-> FALSE]
  /\ reset = [c \in Clients |-> FALSE]
  /\ backlog = <<>>
  /\ spc = "accept"
  /\ cur \in Clients
  /\ \E f \in Fills : tail = Filled(f)
  /\ v = [isInquiry |-> FALSE, candidate |-> 0, count |-> 0]
  /\ counts = [k \in 0 .. MAX_CANDIDATE |-> 0]
  /\ taken = [c \in Clients |-> <<>>]

-----------------------------------------------------------------------------
(* The text.  "%d" prints the digits of a number.  atoi() reads those in   *)
(* front of the first cell that is no digit; it is strtol(), which stops   *)
(* at LONG_MAX, made an int, of which the low bits stay.                   *)
Digits[n \in Nat] ==
  IF n < 10 THEN <<n>> ELSE Append(Digits[n \div 10], n % 10)

Number(cells) ==
  LET value[k \in 0 .. Len(cells)] == IF k = 0 THEN 0 ELSE 10 * value[k - 1] + cells[k]
      n == CHOOSE k \in 0 .. Len(cells) :
             /\ \A i \in 1 .. k : cells[i] # Blank
             /\ k = Len(cells) \/ cells[k + 1] = Blank
  IN  value[n]

ToInt(x) ==
  LET low == (IF x <= LONG_MAX THEN x ELSE LONG_MAX) % (2 * (INT_MAX + 1))
  IN  IF low <= INT_MAX THEN low ELSE low - 2 * (INT_MAX + 1)

atoi(cells) == ToInt(Number(cells))

(* The cells a line covers, from that column on; where Decode() puts a NUL *)
(* the cell is blank already.                                              *)
Cells(l) ==
  CASE l.kind = "request"  -> Digits[l.candidate]
    [] l.kind = "response" -> <<Blank>> \o Digits[l.candidate] \o <<Blank, 0>>
    [] l.kind = "noise"    -> <<>>

ASSUME LinesFit ==
  \A s \in Sendings : \A k \in 1 .. Len(s) : Len(Cells(s[k])) <= TailSize

(* GetNextMsg() stores a line in front of what inBuf held before.          *)
Bug_Stored(cells) ==             \* ends it with a NUL, one place too early
  IF cells = <<>> THEN tail
  ELSE SubSeq(cells, 1, Len(cells) - 1) \o <<Blank>>
         \o SubSeq(tail, Len(cells) + 1, TailSize)

Bug_Terminated(cells) ==         \* ends it with a NUL, room or not
  cells \o <<Blank>> \o SubSeq(tail, Len(cells) + 2, TailSize)

Stored(cells) == cells \o SubSeq(tail, Len(cells) + 1, TailSize)

(* The token a reader of Encode()'s bytes finds first.                     *)
FirstToken(isResponse) == IF isResponse THEN "count" ELSE "Voting"

-----------------------------------------------------------------------------
(* The client: connect, Encode() and PutMsg(), which flushes.  Once the    *)
(* server has ended no connection is made.                                 *)
Running == spc \in {"accept", "get", "put"}

SendLine(c) ==
  /\ cpc[c] = "start" /\ Running
  /\ cpc' = [cpc EXCEPT ![c] = "wait"]
  /\ toServer' = [toServer EXCEPT ![c] = Whole(Len(lines[c]))]
  /\ backlog' = Append(backlog, c)
  /\ UNCHANGED <<lines, result, toClient, fin, reset, shut, serverVars>>

(* The client is killed while it sends: some lines get out, and perhaps a  *)
(* part of the next.                                                       *)
DieSending(c) ==
  /\ cpc[c] = "start" /\ Running
  /\ cpc' = [cpc EXCEPT ![c] = "dead"]
  /\ \E n \in 0 .. Len(lines[c]) - 1 :
       \E sent \in {Whole(n), Append(Whole(n), [nr |-> n + 1, is |-> "cut"])} :
         toServer' = [toServer EXCEPT ![c] = sent]
  /\ fin' = [fin EXCEPT ![c] = TRUE]
  /\ backlog' = Append(backlog, c)
  /\ UNCHANGED <<lines, result, toClient, reset, shut, serverVars>>

(* It is killed while it waits, perhaps with responses it has not read,    *)
(* which resets the connection.                                            *)
DieWaiting(c) ==
  /\ cpc[c] = "wait"
  /\ cpc' = [cpc EXCEPT ![c] = "dead"]
  /\ fin' = [fin EXCEPT ![c] = TRUE]
  /\ \/ UNCHANGED reset
     \/ toClient[c] # <<>> /\ reset' = [reset EXCEPT ![c] = TRUE]
  /\ UNCHANGED <<lines, result, toServer, toClient, shut, backlog, serverVars>>

(* Decode() refuses what does not start with the magic word.               *)
Decoded(responses) == \A k \in 1 .. Len(responses) : responses[k] = "Voting"

(* GetNextMsg() has a response, or finds the connection closed, or reset   *)
(* because the server closed it with lines unread; the client does not     *)
(* look at which, decodes its buffer and ends.                             *)
GetResponse(c) ==
  /\ cpc[c] = "wait"
  /\ Len(toClient[c]) = Len(lines[c]) \/ shut[c]
  /\ LET whole == Len(toClient[c]) = Len(lines[c]) /\ Decoded(toClient[c])
     IN  \E lost \in {FALSE, shut[c] /\ toServer[c] # <<>>} :
           result' = [result EXCEPT ![c] = IF whole /\ ~lost THEN "ok" ELSE "error"]
  /\ cpc' = [cpc EXCEPT ![c] = "done"]
  /\ fin' = [fin EXCEPT ![c] = TRUE]
  /\ UNCHANGED <<lines, toServer, toClient, reset, shut, backlog, serverVars>>

-----------------------------------------------------------------------------
(* The server: AcceptConnection().  inBuf may lie where it lay before.     *)
Accept ==
  /\ spc = "accept" /\ backlog # <<>>
  /\ cur' = Head(backlog)
  /\ backlog' = Tail(backlog)
  /\ tail' \in {tail} \cup {Filled(f) : f \in Fills}
  /\ spc' = "get"
  /\ UNCHANGED <<clientVars, toServer, toClient, fin, reset, shut, v, counts, taken>>

(* accept() fails: for lack of descriptors, because the connection was     *)
(* aborted, or because there is no listening socket.  Or there is no       *)
(* memory for fdopen().  Either ends the process.                          *)
AcceptFails ==
  /\ spc = "accept"
  /\ spc' = "acceptFailed"
  /\ shut' = [c \in Clients |-> TRUE]
  /\ UNCHANGED <<clientVars, toServer, toClient, fin, reset, backlog, cur, tail, v, counts, taken>>

Bug_HangUp ==                    \* fclose() is forgotten
  /\ spc' = "accept"
  /\ UNCHANGED shut

HangUp ==
  /\ shut' = [shut EXCEPT ![cur] = TRUE]
  /\ spc' = "accept"

(* GetNextMsg() finds the end of the stream: inside a line it ends the     *)
(* whole process, and every connection it has or has queued.               *)
Exit == spc' = "exited" /\ shut' = [c \in Clients |-> TRUE]

InLine == toServer[cur] # <<>> /\ toServer[cur][1].is = "cut"

Bug_EndOfStream ==               \* cnt is not looked at
  /\ spc = "get" /\ fin[cur] /\ (toServer[cur] = <<>> \/ InLine)
  /\ Exit
  /\ UNCHANGED <<clientVars, toServer, toClient, fin, reset, backlog, cur, tail, v, counts, taken>>

EndOfStream ==
  /\ spc = "get" /\ fin[cur] /\ (toServer[cur] = <<>> \/ InLine)
  /\ IF InLine THEN Exit ELSE HangUp
  /\ UNCHANGED <<clientVars, toServer, toClient, fin, reset, backlog, cur, tail, v, counts, taken>>

(* What main() does with a request: the vote is counted, the count put in  *)
(* the response.  A candidate out of range gets the response with 0.       *)
Bug_Process(d, k) ==             \* an inquiry is counted too
  /\ counts' = IF k \in 0 .. MAX_CANDIDATE THEN [counts EXCEPT ![k] = @ + 1] ELSE counts
  /\ v' = [isInquiry |-> d.isInquiry, candidate |-> k,
           count |-> IF k \in 0 .. MAX_CANDIDATE THEN counts'[k] ELSE 0]

Process(d, k) ==
  /\ counts' = IF k \in 0 .. MAX_CANDIDATE /\ ~d.isInquiry
               THEN [counts EXCEPT ![k] = @ + 1] ELSE counts
  /\ v' = [isInquiry |-> d.isInquiry, candidate |-> k,
           count |-> IF k \in 0 .. MAX_CANDIDATE THEN counts'[k] ELSE 0]

(* A line: noise, empty or not, ends the connection, a response is         *)
(* ignored, a request is processed.  The end of a line is noise.           *)
GetLine ==
  /\ spc = "get" /\ toServer[cur] # <<>> /\ ~InLine
  /\ toServer' = [toServer EXCEPT ![cur] = Tail(@)]
  /\ LET piece == toServer[cur][1]
         l     == lines[cur][piece.nr]
     IN  \/ /\ piece.is = "rest"
            /\ \E lost \in 1 .. Len(Cells(l)) + 1 :
                 tail' = Stored(SubSeq(Cells(l), lost + 1, Len(Cells(l))))
            /\ HangUp
            /\ UNCHANGED <<v, counts, taken>>
         \/ /\ piece.is = "whole"
            /\ tail' = Stored(Cells(l))
            /\ \/ l.kind = "noise" /\ HangUp /\ UNCHANGED <<v, counts, taken>>
               \/ l.kind = "response" /\ UNCHANGED <<spc, shut, v, counts, taken>>
               \/ /\ l.kind = "request"
                  /\ Process(l, atoi(tail'))
                  /\ taken' = [taken EXCEPT ![cur] = Append(@, piece.nr)]
                  /\ spc' = "put"
                  /\ UNCHANGED shut
  /\ UNCHANGED <<clientVars, toClient, fin, reset, backlog, cur>>

(* What is left of the input when the stream drops what it has buffered.   *)
Undropped(s) ==
  {SubSeq(s, n + 1, Len(s)) : n \in 0 .. Len(s)}
    \cup {<<[s[n] EXCEPT !.is = IF @ = "cut" THEN @ ELSE "rest"]>>
             \o SubSeq(s, n + 1, Len(s)) : n \in 1 .. Len(s)}

Bug_PutResponse ==               \* the response is not flushed
  /\ spc = "put"
  /\ spc' = "get"
  /\ UNCHANGED <<clientVars, netVars, cur, tail, v, counts, taken>>

(* Encode() and PutMsg().  A delimiter among the unwritten bytes makes     *)
(* PutMsg() fail, and buffered input may keep anything from being written: *)
(* both end the connection.  A connection that was reset raises SIGPIPE.   *)
PutResponse ==
  /\ spc = "put"
  /\ \/ /\ toClient' = [toClient EXCEPT ![cur] = Append(@, FirstToken(TRUE))]
        /\ \E rest \in Undropped(toServer[cur]) :
             toServer' = [toServer EXCEPT ![cur] = rest]
        /\ reset' = [reset EXCEPT ![cur] = @ \/ fin[cur]]
        /\ spc' = "get"
        /\ UNCHANGED shut
     \/ HangUp /\ UNCHANGED <<toServer, toClient, reset>>
     \/ reset[cur] /\ Exit /\ UNCHANGED <<toServer, toClient, reset>>
  /\ UNCHANGED <<clientVars, fin, backlog, cur, tail, v, counts, taken>>

-----------------------------------------------------------------------------
ServerStep == Accept \/ EndOfStream \/ GetLine \/ PutResponse

Next ==
  \/ ServerStep
  \/ AcceptFails
  \/ \E c \in Clients : \/ SendLine(c) \/ DieSending(c)
                        \/ DieWaiting(c) \/ GetResponse(c)

Spec == Init /\ [][Next]_vars

(* The server and a client that waits for its response are processes the   *)
(* scheduler runs; no client has to start.                                 *)
FairSpec == Spec /\ WF_vars(ServerStep)
                 /\ \A c \in Clients : WF_vars(GetResponse(c))

-----------------------------------------------------------------------------
(* Properties.                                                             *)

Pow10[n \in Nat] == IF n = 0 THEN 1 ELSE 10 * Pow10[n - 1]

(* Reading behind a line can only lengthen the candidate's number: the     *)
(* server handles the one the client sent, perhaps with digits appended,   *)
(* unless these make it a number that is no int.                           *)
CandidateOnlyGrows ==
  spc = "put" =>
    \/ \E n \in 0 .. TailSize :
         v.candidate \div Pow10[n] = lines[cur][Last(taken[cur])].candidate
    \/ Number(tail) > INT_MAX

IsVote(l) == l.kind = "request" /\ ~l.isInquiry

Box == INSTANCE BallotBox
         WITH Voters     <- Clients,
              Candidates <- 0 .. MAX_CANDIDATE,
              ballots    <- [c \in Clients |->
                               [k \in 1 .. Len(lines[c]) |-> IsVote(lines[c][k])]],
              answered   <- [c \in Clients |-> Len(toClient[c])]

(* However buffers, crashes, dropped input and the order of connections    *)
(* fall out, a line is handled at most once and in its client's order,     *)
(* there are never more votes than lines that asked for one, and a         *)
(* response stands for a line that was handled.                            *)
ImplementsBallotBox == Box!Spec

(* While it serves a connection the server ends only if some client was    *)
(* cut off inside a line, or went away before the responses to several     *)
(* lines; a VoteClient, which sends one, does not end it before or after   *)
(* its line.  Between connections it may also end by AcceptFails.          *)
ExitIsExplained ==
  spc = "exited" => \E c \in Clients :
    /\ cpc[c] = "dead"
    /\ \/ \E k \in 1 .. Len(toServer[c]) : toServer[c][k].is = "cut"
       \/ reset[c] /\ Len(taken[c]) > 1

(* A peer holds the server if it sent something to which no response       *)
(* comes: the server waits for a line, the peer for a response.            *)
Held == /\ spc = "get" /\ toServer[cur] = <<>> /\ cpc[cur] = "wait"
        /\ Len(lines[cur]) > 1 \/ lines[cur][1].kind = "response"

(* No connection is forgotten: whoever waits for a response is in the      *)
(* backlog, or is served, or its connection was closed.                    *)
NobodyForgotten ==
  \A c \in Clients :
    (cpc[c] = "wait" /\ ~shut[c]) =>
      \/ \E k \in 1 .. Len(backlog) : backlog[k] = c
      \/ spc \in {"get", "put"} /\ cur = c

(* A VoteClient, which sends one request, never holds the server: when it  *)
(* has no line left and waits for another, the response has been written,  *)
(* whatever the stream dropped and whatever was decoded.                   *)
VoteClientNeverHolds ==
  (spc = "get" /\ toServer[cur] = <<>> /\ cpc[cur] = "wait") =>
    \/ Len(toClient[cur]) = Len(lines[cur])
    \/ Len(lines[cur]) > 1 \/ lines[cur][1].kind = "response"

(* Neither side waits for what cannot come: the server knows of everyone   *)
(* who waits for it, and waits for no client that waits for it in turn.    *)
NobodyWaitsInVain == NobodyForgotten /\ VoteClientNeverHolds

(* Unless the server is held for ever, whoever waits for a response gets   *)
(* one, or sees its connection closed, or is killed: the server gets       *)
(* through the connections before it in the backlog, whatever their        *)
(* clients do, or ends.                                                    *)
EveryWaiterEnds ==
  []<>~Held => \A c \in Clients : cpc[c] = "wait" ~> cpc[c] # "wait"

(* "invariant: 0 <= candidate <= MAX_CANDIDATE", of a decoded request.     *)
CandidateInvariant == spc = "put" => v.candidate \in 0 .. MAX_CANDIDATE

(* "Wire Format: "Voting <v|i> [R] <candidate ID> <count>"": a client      *)
(* that gets a response can decode it.                                     *)
ResponsesDecode ==
  \A c \in Clients : cpc[c] = "done" /\ toClient[c] # <<>> => result[c] = "ok"
=============================================================================
