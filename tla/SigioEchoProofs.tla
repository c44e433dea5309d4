-------------------------- MODULE SigioEchoProofs --------------------------
(***************************************************************************)
(* Proofs about SigioEcho.  What the handler holds goes with the call it   *)
(* makes next (HandAndCall), and before FASYNC is set nothing has been     *)
(* signalled or received (Early); with these StrandedIsExplained is        *)
(* inductive.                                                              *)
(***************************************************************************)
EXTENDS SigioEcho, SequenceTheorems, TLAPS

(* The handler holds one datagram, the last received, while it echoes it.  *)
HandAndCall ==
  /\ handlerPc = "sendto" => Len(hand) = 1 /\ last = hand[1][2]
  /\ alive /\ handlerPc # "sendto" => hand = <<>>

Early ==
  /\ early <= arrivals
  /\ \A n \in 1 .. Len(queue) : Number(queue[n]) <= arrivals
  /\ mainPc # "idle" => handlerPc = "out" /\ ~sigio /\ early = arrivals

Stranded ==
  (MainRuns /\ mainPc = "idle" /\ ~sigio /\ queue # <<>>)
    => last = 0 \/ \A n \in 1 .. Len(queue) : Number(queue[n]) <= early

Inv == TypeOK /\ HandAndCall /\ Early /\ Stranded

-----------------------------------------------------------------------------
(* What a cut datagram is.                                                 *)
LEMMA CutFacts ==
  ASSUME NEW d \in Datagram
  PROVE  /\ Cut(d) \in Received
         /\ Number(Cut(d)) = Number(d)
         /\ Cut(d)[2] \in 0 .. BufLen
  BY SigioAssumption DEF Cut, Datagram, Received, Number

LEMMA InvInit ==
  ASSUME Init
  PROVE  Inv
  <1> USE SigioAssumption DEF Init
  <1>1. TypeOK
    <2>1. <<>> \in Seq(Datagram) /\ <<>> \in Seq(Received) /\ Len(<<>>) = 0
      BY EmptySeq
    <2>2. /\ queue \in Seq(Datagram) /\ Len(queue) <= QueueCap
          /\ hand \in Seq(Received) /\ Len(hand) <= 1
          /\ echoed \in Seq(Received)
      BY <2>1
    <2>3. arrivals \in 0 .. MaxArrivals /\ early \in 0 .. MaxArrivals /\ last \in 0 .. None
      BY DEF None
    <2>. QED BY <2>2, <2>3 DEF TypeOK
  <1>2. HandAndCall
    BY DEF HandAndCall
  <1>3. Early
    <2>1. 1 .. Len(queue) = {}
      BY EmptySeq
    <2>. QED BY <2>1 DEF Early
  <1>4. Stranded
    BY DEF Stranded
  <1>. QED BY <1>1, <1>2, <1>3, <1>4 DEF Inv

LEMMA ArriveInv ==
  ASSUME Inv, NEW l \in 0 .. MaxLen, Arrive(l)
  PROVE  Inv'
  <1> USE SigioAssumption
  <1>1. arrivals + 1 \in 1 .. MaxArrivals /\ <<arrivals + 1, l>> \in Datagram
    BY DEF Arrive, Inv, TypeOK, Datagram
  <1>2. /\ queue \in Seq(Datagram)
        /\ Number(<<arrivals + 1, l>>) = arrivals + 1
    BY DEF Inv, TypeOK, Number
  <1>3. CASE Len(queue) < QueueCap
    <2>1. /\ queue' = Append(queue, <<arrivals + 1, l>>)
          /\ queue' \in Seq(Datagram) /\ Len(queue') = Len(queue) + 1
          /\ \A n \in 1 .. Len(queue') :
               queue'[n] = IF n <= Len(queue) THEN queue[n] ELSE <<arrivals + 1, l>>
      <3>1. queue' = Append(queue, <<arrivals + 1, l>>)
        BY <1>3 DEF Arrive
      <3>. QED BY <1>1, <1>2, <3>1, AppendProperties
    <2>2. \A n \in 1 .. Len(queue') : Number(queue'[n]) <= arrivals'
      <3>1. \A n \in 1 .. Len(queue) : Number(queue[n]) \in Nat
        BY <1>2, ElementOfSeq DEF Number, Datagram
      <3>2. arrivals \in Nat /\ arrivals' = arrivals + 1
        BY DEF Arrive, Inv, TypeOK
      <3>3. ASSUME NEW n \in 1 .. Len(queue') PROVE Number(queue'[n]) <= arrivals'
        <4>1. CASE n <= Len(queue)
          BY <1>2, <2>1, <3>1, <3>2, <4>1 DEF Inv, Early
        <4>2. CASE n > Len(queue)
          BY <1>2, <2>1, <3>2, <4>2
        <4>. QED BY <1>2, <4>1, <4>2
      <3>. QED BY <3>3
    <2>3. TypeOK'
      BY <1>1, <1>3, <2>1 DEF Arrive, Inv, TypeOK
    <2>4. Early'
      BY <1>1, <2>2 DEF Arrive, Inv, Early, TypeOK
    <2>5. Stranded'
      BY <1>2, <1>3, <2>1, <2>2 DEF Arrive, Inv, Stranded, MainRuns, TypeOK
    <2>. QED BY <2>3, <2>4, <2>5 DEF Arrive, Inv, HandAndCall
  <1>4. CASE Len(queue) >= QueueCap
    <2>1. UNCHANGED <<queue, sigio>>
      BY <1>2, <1>4 DEF Arrive
    <2>2. TypeOK' /\ HandAndCall'
      BY <1>1, <2>1 DEF Arrive, Inv, TypeOK, HandAndCall
    <2>3. \A n \in 1 .. Len(queue) : Number(queue[n]) \in Nat
      BY <1>2, ElementOfSeq DEF Number, Datagram
    <2>4. Early'
      BY <1>1, <2>1, <2>3 DEF Arrive, Inv, TypeOK, Early
    <2>5. Stranded'
      BY <1>1, <2>1, <2>3 DEF Arrive, Inv, TypeOK, Stranded, MainRuns, Early
    <2>. QED BY <2>2, <2>4, <2>5 DEF Inv
  <1>. QED BY <1>2, <1>3, <1>4

-----------------------------------------------------------------------------
(* main() and the signal.                                                  *)
LEMMA MainInv ==
  ASSUME Inv, Setup \/ SetupFails
  PROVE  Inv'
  <1>1. UNCHANGED <<handlerPc, sigio, queue, arrivals, hand, echoed, early, last>>
    BY DEF Setup, Sigaction, SetOwn, SetAsync, SetupFails
  <1>2. /\ mainPc' \in {"sigaction", "setown", "setfl", "idle"}
        /\ mainPc # "idle"
        /\ alive' \in BOOLEAN
        /\ alive
    BY DEF Setup, Sigaction, SetOwn, SetAsync, SetupFails, MainRuns, Inv, TypeOK
  <1>3. TypeOK' /\ HandAndCall' /\ Early'
    BY <1>1, <1>2 DEF Inv, TypeOK, HandAndCall, Early
  <1>4. Stranded'
    BY <1>1, <1>2 DEF Inv, Early, Stranded
  <1>. QED BY <1>3, <1>4 DEF Inv

LEMMA DeliverSignalInv ==
  ASSUME Inv, DeliverSignal
  PROVE  Inv'
  <1>1. TypeOK' /\ HandAndCall' /\ Early'
    BY DEF Inv, DeliverSignal, MainRuns, TypeOK, HandAndCall, Early
  <1>2. Stranded'
    BY DEF DeliverSignal, Stranded, MainRuns
  <1>. QED BY <1>1, <1>2 DEF Inv

-----------------------------------------------------------------------------
(* SIGIOHandler().                                                         *)
LEMMA RecvFromInv ==
  ASSUME Inv, RecvFrom
  PROVE  Inv'
  <1> USE SigioAssumption
  <1>1. queue \in Seq(Datagram) /\ queue # <<>>
    BY DEF Inv, TypeOK, RecvFrom
  <1>2. /\ Head(queue) \in Datagram
        /\ Tail(queue) \in Seq(Datagram)
        /\ Len(Tail(queue)) = Len(queue) - 1
        /\ \A n \in 1 .. Len(Tail(queue)) : Tail(queue)[n] = queue[n + 1]
    BY <1>1, HeadTailProperties
  <1> DEFINE c == Cut(Head(queue))
  <1>3. c \in Received /\ c[2] \in 0 .. BufLen
    BY <1>2, CutFacts
  <1>4. hand' = <<c>> /\ last' = c[2] /\ queue' = Tail(queue)
    BY DEF RecvFrom
  <1> HIDE DEF c
  <1>5. TypeOK'
    <2>1. hand' \in Seq(Received) /\ Len(hand') = 1
      BY <1>3, <1>4
    <2>2. last' \in 0 .. None
      BY <1>3, <1>4 DEF None
    <2>3. queue' \in Seq(Datagram) /\ Len(queue') <= QueueCap
      BY <1>1, <1>2, <1>4 DEF Inv, TypeOK
    <2>. QED BY <2>1, <2>2, <2>3 DEF Inv, TypeOK, RecvFrom
  <1>6. HandAndCall'
    BY <1>3, <1>4 DEF RecvFrom, HandAndCall
  <1>7. Early'
    BY <1>1, <1>2, <1>4 DEF Inv, Early, RecvFrom
  <1>8. Stranded'
    BY DEF RecvFrom, Stranded, MainRuns
  <1>. QED BY <1>5, <1>6, <1>7, <1>8 DEF Inv

LEMMA RecvFromEmptyInv ==
  ASSUME Inv, RecvFromEmpty
  PROVE  Inv'
  <1>1. None \in 0 .. None
    BY SigioAssumption DEF None
  <1>2. TypeOK' /\ HandAndCall' /\ Early'
    BY <1>1 DEF Inv, RecvFromEmpty, TypeOK, HandAndCall, Early
  <1>3. Stranded'
    BY DEF RecvFromEmpty, Stranded, MainRuns
  <1>. QED BY <1>2, <1>3 DEF Inv

LEMMA SendToInv ==
  ASSUME Inv, SendTo
  PROVE  Inv'
  <1>1. /\ hand \in Seq(Received) /\ Len(hand) = 1
        /\ last = hand[1][2] /\ hand[1] \in Received
    <2>1. hand \in Seq(Received) /\ Len(hand) = 1 /\ last = hand[1][2]
      BY DEF Inv, SendTo, TypeOK, HandAndCall
    <2>. QED BY <2>1, ElementOfSeq
  <1>2. echoed' \in Seq(Received)
    BY <1>1, ConcatProperties DEF Inv, SendTo, TypeOK
  <1>3. hand' \in Seq(Received) /\ Len(hand') = 0
    BY EmptySeq DEF SendTo
  <1>4. TypeOK'
    BY <1>2, <1>3 DEF Inv, SendTo, TypeOK
  <1>5. HandAndCall' /\ Early'
    BY DEF Inv, SendTo, HandAndCall, Early
  <1>6. hand[1][2] > 0 \/ last = 0
    BY <1>1, SigioAssumption DEF Received
  <1>7. Stranded'
    BY <1>6 DEF SendTo, Stranded, MainRuns
  <1>. QED BY <1>4, <1>5, <1>7 DEF Inv

LEMMA CallFailsInv ==
  ASSUME Inv, CallFails
  PROVE  Inv'
  BY DEF Inv, CallFails, TypeOK, HandAndCall, Early, Stranded, MainRuns

-----------------------------------------------------------------------------
LEMMA InvStep == Inv /\ [Next]_vars => Inv'
  <1> SUFFICES ASSUME Inv, [Next]_vars PROVE Inv'
    OBVIOUS
  <1>1. CASE \E l \in 0 .. MaxLen : Arrive(l)
    BY <1>1, ArriveInv
  <1>2. CASE Setup \/ SetupFails
    BY <1>2, MainInv
  <1>3. CASE DeliverSignal
    BY <1>3, DeliverSignalInv
  <1>4. CASE RecvFrom
    BY <1>4, RecvFromInv
  <1>5. CASE RecvFromEmpty
    BY <1>5, RecvFromEmptyInv
  <1>6. CASE SendTo
    BY <1>6, SendToInv
  <1>7. CASE CallFails
    BY <1>7, CallFailsInv
  <1>8. CASE UNCHANGED vars
    BY <1>8 DEF vars, Inv, TypeOK, HandAndCall, Early, Stranded, MainRuns
  <1>. QED BY <1>1, <1>2, <1>3, <1>4, <1>5, <1>6, <1>7, <1>8 DEF Next, Handler

LEMMA InvAlways == Spec => []Inv
  <1>1. Init => Inv
    BY InvInit
  <1>. QED BY <1>1, InvStep, PTL DEF Spec

(* The server keeps to its types, the buffer of recvfrom() and the socket's *)
(* receive buffer among them.                                              *)
THEOREM TypeIsOK == Spec => []TypeOK
  <1>1. Inv => TypeOK
    BY DEF Inv
  <1>. QED BY <1>1, InvAlways, PTL

(* A datagram left in the socket with no signal for it came before FASYNC, *)
(* or behind an empty datagram.                                            *)
THEOREM StrandedAlwaysExplained == Spec => []StrandedIsExplained
  <1>1. Inv => StrandedIsExplained
    BY DEF Inv, TypeOK, Stranded, StrandedIsExplained
  <1>. QED BY <1>1, InvAlways, PTL

-----------------------------------------------------------------------------
(* The datagrams accepted, as a sequence; only their numbers are compared. *)
AnyDatagram == (1 .. MaxArrivals) \X Nat
Through     == echoed \o hand \o queue

(* A sequence that agrees with another in the numbers, place by place, has *)
(* a prefix of its numbers.                                                *)
LEMMA NumbersPrefix ==
  ASSUME NEW s \in Seq(AnyDatagram), NEW t \in Seq(AnyDatagram),
         Len(s) <= Len(t),
         \A n \in 1 .. Len(s) : Number(t[n]) = Number(s[n])
  PROVE  IsPrefix([n \in 1 .. Len(s) |-> Number(s[n])],
                  [n \in 1 .. Len(t) |-> Number(t[n])])
  <1> DEFINE ns == [n \in 1 .. Len(s) |-> Number(s[n])]
             nt == [n \in 1 .. Len(t) |-> Number(t[n])]
  <1>1. ns \in Seq(Nat) /\ Len(ns) = Len(s) /\ nt \in Seq(Nat) /\ Len(nt) = Len(t)
    <2>1. ASSUME NEW n \in 1 .. Len(s) PROVE Number(s[n]) \in Nat
      <3>1. s[n] \in AnyDatagram
        BY ElementOfSeq
      <3>2. s[n][1] \in 1 .. MaxArrivals
        BY ONLY <3>1 DEF AnyDatagram
      <3>. QED BY <3>2, SigioAssumption DEF Number
    <2>2. ASSUME NEW n \in 1 .. Len(t) PROVE Number(t[n]) \in Nat
      <3>1. t[n] \in AnyDatagram
        BY ElementOfSeq
      <3>2. t[n][1] \in 1 .. MaxArrivals
        BY ONLY <3>1 DEF AnyDatagram
      <3>. QED BY <3>2, SigioAssumption DEF Number
    <2>3. Len(s) \in Nat /\ Len(t) \in Nat
      BY LenProperties
    <2>4. ns \in Seq(Nat) /\ Len(ns) = Len(s)
      BY <2>1, <2>3, IsASeq
    <2>5. nt \in Seq(Nat) /\ Len(nt) = Len(t)
      BY <2>2, <2>3, IsASeq
    <2>. QED BY <2>4, <2>5
  <1>2. ASSUME NEW n \in 1 .. Len(s) PROVE ns[n] = nt[n]
    <2>1. n \in 1 .. Len(t)
      <3>1. Len(s) \in Nat /\ Len(t) \in Nat
        BY LenProperties
      <3>. QED BY <3>1
    <2>. QED BY <2>1
  <1> HIDE DEF ns, nt
  <1>3. /\ SubSeq(ns, 1, Len(ns)) \in Seq(Nat) /\ SubSeq(nt, 1, Len(ns)) \in Seq(Nat)
        /\ Len(SubSeq(ns, 1, Len(ns))) = Len(ns) /\ Len(SubSeq(nt, 1, Len(ns))) = Len(ns)
        /\ \A n \in 1 .. Len(ns) : SubSeq(ns, 1, Len(ns))[n] = SubSeq(nt, 1, Len(ns))[n]
    BY <1>1, <1>2, SubSeqProperties
  <1>4. SubSeq(ns, 1, Len(ns)) = SubSeq(nt, 1, Len(ns))
    BY <1>3, SeqEqual
  <1>. QED BY <1>1, <1>4 DEF IsPrefix, ns, nt

LEMMA ThroughType ==
  ASSUME TypeOK
  PROVE  /\ echoed \in Seq(AnyDatagram) /\ hand \in Seq(AnyDatagram)
         /\ queue \in Seq(AnyDatagram)
         /\ echoed \o hand \in Seq(AnyDatagram)
         /\ Through \in Seq(AnyDatagram)
  <1>1. Received \subseteq AnyDatagram /\ Datagram \subseteq AnyDatagram
    BY SigioAssumption DEF Received, Datagram, AnyDatagram
  <1>2. echoed \in Seq(AnyDatagram) /\ hand \in Seq(AnyDatagram) /\ queue \in Seq(AnyDatagram)
    BY <1>1 DEF TypeOK
  <1>. QED BY <1>2, ConcatProperties DEF Through

(* One step: what has gone through keeps its numbers and grows at the end. *)
LEMMA ThroughGrows ==
  ASSUME Inv, [Next]_vars
  PROVE  Len(Through) <= Len(Through')
         /\ \A n \in 1 .. Len(Through) : Number(Through'[n]) = Number(Through[n])
  <1> USE SigioAssumption
  <1>1. /\ echoed \in Seq(AnyDatagram) /\ hand \in Seq(AnyDatagram)
        /\ queue \in Seq(AnyDatagram) /\ echoed \o hand \in Seq(AnyDatagram)
        /\ Through \in Seq(AnyDatagram) /\ Len(Through) \in Nat
    BY ThroughType DEF Inv
  <1>2. CASE UNCHANGED <<echoed, hand, queue>>
    BY <1>1, <1>2 DEF Through
  <1>3. CASE \E l \in 0 .. MaxLen : Arrive(l)
    <2>1. PICK l \in 0 .. MaxLen : Arrive(l)
      BY <1>3
    <2>2. CASE queue' = queue
      BY <1>2, <2>1, <2>2 DEF Arrive
    <2>3. CASE queue' = Append(queue, <<arrivals + 1, l>>)
      <3>1. <<arrivals + 1, l>> \in AnyDatagram
        BY <2>1 DEF Arrive, AnyDatagram, Inv, TypeOK
      <3>2. /\ queue' \in Seq(AnyDatagram) /\ Len(queue') = Len(queue) + 1
            /\ \A n \in 1 .. Len(queue) : queue'[n] = queue[n]
        BY <1>1, <2>3, <3>1, AppendProperties
      <3>3. Through' = (echoed \o hand) \o queue'
        BY <2>1 DEF Arrive, Through
      <3>4. Through = (echoed \o hand) \o queue
        BY DEF Through
      <3> DEFINE sent == echoed \o hand
      <3> HIDE DEF sent
      <3>5. /\ sent \in Seq(AnyDatagram)
            /\ Through = sent \o queue /\ Through' = sent \o queue'
        BY <1>1, <3>3, <3>4 DEF sent
      <3>6. /\ Len(Through) = Len(sent) + Len(queue)
            /\ Len(Through') = Len(sent) + Len(queue')
            /\ \A n \in 1 .. Len(Through) :
                 Through[n] = IF n <= Len(sent) THEN sent[n] ELSE queue[n - Len(sent)]
            /\ \A n \in 1 .. Len(Through') :
                 Through'[n] = IF n <= Len(sent) THEN sent[n] ELSE queue'[n - Len(sent)]
        <4>1. /\ Len(sent \o queue) = Len(sent) + Len(queue)
              /\ \A n \in 1 .. Len(sent) + Len(queue) :
                   (sent \o queue)[n] = IF n <= Len(sent) THEN sent[n] ELSE queue[n - Len(sent)]
          BY <1>1, <3>5, ConcatProperties
        <4>2. /\ Len(sent \o queue') = Len(sent) + Len(queue')
              /\ \A n \in 1 .. Len(sent) + Len(queue') :
                   (sent \o queue')[n]
                     = IF n <= Len(sent) THEN sent[n] ELSE queue'[n - Len(sent)]
          BY <3>2, <3>5, ConcatProperties
        <4>. QED BY <3>5, <4>1, <4>2
      <3>7. Len(sent) \in Nat /\ Len(queue) \in Nat
        BY <1>1, <3>5
      <3>8. ASSUME NEW n \in 1 .. Len(Through) PROVE Through'[n] = Through[n]
        <4>1. n \in 1 .. Len(Through')
          BY <3>2, <3>6, <3>7
        <4>2. CASE n <= Len(sent)
          BY <3>6, <4>1, <4>2
        <4>3. CASE n > Len(sent)
          <5>1. n - Len(sent) \in 1 .. Len(queue)
            BY <3>6, <3>7, <4>3
          <5>2. queue'[n - Len(sent)] = queue[n - Len(sent)]
            BY <3>2, <5>1
          <5>. QED BY <3>6, <3>7, <4>1, <4>3, <5>2
        <4>. QED BY <3>6, <3>7, <4>2, <4>3
      <3>. QED BY <3>2, <3>6, <3>7, <3>8
    <2>. QED BY <2>1, <2>2, <2>3 DEF Arrive
  <1>4. CASE RecvFrom
    <2>1. hand = <<>> /\ queue # <<>> /\ queue \in Seq(Datagram)
      BY <1>4 DEF RecvFrom, Inv, HandAndCall, TypeOK
    <2>2. /\ Head(queue) \in Datagram /\ Head(queue) = queue[1]
          /\ Tail(queue) \in Seq(AnyDatagram)
          /\ Len(Tail(queue)) = Len(queue) - 1 /\ Len(queue) \in Nat \ {0}
          /\ \A n \in 1 .. Len(Tail(queue)) : Tail(queue)[n] = queue[n + 1]
      BY <1>1, <2>1, HeadTailProperties
    <2> DEFINE c == Cut(Head(queue))
    <2>3. c \in AnyDatagram /\ Number(c) = Number(queue[1])
      BY <2>2, CutFacts DEF Received, AnyDatagram
    <2>4. Through = echoed \o queue
      BY <1>1, <2>1, ConcatEmptySeq DEF Through
    <2>5. Through' = (echoed \o <<c>>) \o Tail(queue)
      BY <1>4 DEF RecvFrom, Through
    <2> HIDE DEF c
    <2>6. /\ echoed \o <<c>> \in Seq(AnyDatagram)
          /\ Len(echoed \o <<c>>) = Len(echoed) + 1
          /\ (echoed \o <<c>>)[Len(echoed) + 1] = c
          /\ \A n \in 1 .. Len(echoed) : (echoed \o <<c>>)[n] = echoed[n]
      BY <1>1, <2>3, ConcatProperties
    <2>7. Len(Through) = Len(echoed) + Len(queue) /\ Len(Through') = Len(Through)
      BY <1>1, <2>2, <2>4, <2>5, <2>6, ConcatProperties
    <2>8. ASSUME NEW n \in 1 .. Len(Through) PROVE Number(Through'[n]) = Number(Through[n])
      <3>1. Through[n] = IF n <= Len(echoed) THEN echoed[n] ELSE queue[n - Len(echoed)]
        BY <1>1, <2>4, <2>7, ConcatProperties
      <3>2. Through'[n] = IF n <= Len(echoed) + 1 THEN (echoed \o <<c>>)[n]
                          ELSE Tail(queue)[n - (Len(echoed) + 1)]
        BY <1>1, <2>2, <2>5, <2>6, <2>7, ConcatProperties
      <3>3. CASE n <= Len(echoed)
        BY <1>1, <2>6, <3>1, <3>2, <3>3
      <3>4. CASE n = Len(echoed) + 1
        BY <1>1, <2>3, <2>6, <3>1, <3>2, <3>4
      <3>5. CASE n > Len(echoed) + 1
        <4>1. n - (Len(echoed) + 1) \in 1 .. Len(Tail(queue))
          BY <1>1, <2>2, <2>7, <3>5
        <4>. QED BY <1>1, <2>2, <3>1, <3>2, <3>5, <4>1
      <3>. QED BY <1>1, <3>3, <3>4, <3>5
    <2>. QED BY <1>1, <2>7, <2>8
  <1>5. CASE SendTo
    <2>1. Through' = (echoed \o hand) \o <<>> \o queue
      BY <1>5 DEF SendTo, Through
    <2>2. Through' = Through
      BY <1>1, <2>1, ConcatEmptySeq DEF Through
    <2>. QED BY <1>1, <2>2
  <1>6. CASE RecvFromEmpty
    <2>1. UNCHANGED <<echoed, hand, queue>>
      BY <1>6 DEF RecvFromEmpty
    <2>. QED BY <1>2, <2>1
  <1>7. CASE Setup \/ SetupFails \/ DeliverSignal \/ CallFails \/ UNCHANGED vars
    <2>1. UNCHANGED <<echoed, hand, queue>>
      BY <1>7 DEF Setup, Sigaction, SetOwn, SetAsync, SetupFails, DeliverSignal, CallFails, vars
    <2>. QED BY <1>2, <2>1
  <1>. QED BY <1>3, <1>4, <1>5, <1>6, <1>7 DEF Next, Handler

(* No datagram the socket accepted is lost, duplicated or overtaken on its *)
(* way through SIGIOHandler().                                             *)
THEOREM NothingLostInTheHandler == Spec => AcceptedOnlyGrows
  <1>1. ASSUME Inv, Inv', [Next]_vars
        PROVE  [IsPrefix(Accepted, Accepted')]_vars
    <2>1. Through \in Seq(AnyDatagram) /\ Through' \in Seq(AnyDatagram)
      <3>1. Through \in Seq(AnyDatagram)
        BY <1>1, ThroughType DEF Inv
      <3>2. Through' \in Seq(AnyDatagram)
        <4>1. Received \subseteq AnyDatagram /\ Datagram \subseteq AnyDatagram
          BY SigioAssumption DEF Received, Datagram, AnyDatagram
        <4>2. /\ echoed' \in Seq(AnyDatagram) /\ hand' \in Seq(AnyDatagram)
              /\ queue' \in Seq(AnyDatagram)
          BY <1>1, <4>1 DEF Inv, TypeOK
        <4>. QED BY <4>2, ConcatProperties DEF Through
      <3>. QED BY <3>1, <3>2
    <2>2. IsPrefix([n \in 1 .. Len(Through) |-> Number(Through[n])],
                   [n \in 1 .. Len(Through') |-> Number(Through'[n])])
      BY <1>1, <2>1, ThroughGrows, NumbersPrefix
    <2>. QED BY <2>2 DEF Accepted, Through
  <1>. QED BY <1>1, InvAlways, PTL DEF Spec, AcceptedOnlyGrows
=============================================================================
