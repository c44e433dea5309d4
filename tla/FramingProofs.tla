---------------------------- MODULE FramingProofs ----------------------------
(***************************************************************************)
(* Proofs about Framing, for every base, buffer size and set of messages.  *)
(* The bytes on the wire are those of the messages accepted, one after the *)
(* other; where each begins is a function off, of which the invariant says *)
(* that there is one.  With it the invariant has these parts:              *)
(*   Layout    what lies on the wire, up to where a killed sender cut it,  *)
(*             and to the end of the last message if it was not killed;    *)
(*   ByLength  where LengthFramer.c is and what it has returned;           *)
(*   ByDelim   the same of the delimiter framers, up to the first message  *)
(*             that was too long;                                          *)
(*   Pieced    what has been returned in all: what the first n messages    *)
(*             become and e errors, and where in the next message buf is.  *)
(* Where the receiver stops follows: the end of a stream that was closed   *)
(* is the end of the last message.  At the end are the texts of Text2.     *)
(***************************************************************************)
EXTENDS VoteWire, SequenceTheorems, FiniteSetTheorems, WellFoundedInduction, TLAPS

Bytes == 0 .. Base - 1

Results == results \in Seq(Seq(Bytes) \cup {TooLong})

(* The bytes a message becomes.                                            *)
Size(m) == IF framer = "delim" THEN Len(m) + 1 ELSE Len(m) + 2
Coded(m, p) ==
  IF framer = "delim"
  THEN IF p <= Len(m) THEN m[p] ELSE DELIM
  ELSE IF p = 1 THEN Len(m) \div Base ELSE IF p = 2 THEN Len(m) % Base ELSE m[p - 2]

(* What PutMsg() takes.                                                    *)
Fit(m) ==
  IF framer = "delim" THEN \A p \in 1 .. Len(m) : m[p] # DELIM
  ELSE Len(m) < Base * Base

Layout(off) ==
  /\ off \in [1 .. Len(accepted) + 1 -> Nat] /\ off[1] = 0
  /\ \A k \in 1 .. Len(accepted) :
       /\ Fit(accepted[k])
       /\ off[k + 1] = off[k] + Size(accepted[k])
       /\ \A p \in 1 .. Size(accepted[k]) :
            off[k] + p <= Len(wire) => wire[off[k] + p] = Coded(accepted[k], p)
       /\ off[k + 1] <= off[Len(accepted) + 1]
  /\ Len(wire) <= off[Len(accepted) + 1]
  /\ ended # "killed" => Len(wire) = off[Len(accepted) + 1]

Next1 == Len(results) + 1     \* the message that is being read

(* The stream was cut inside an excess that LengthFramer.c threw away.     *)
AtEnd == ended = "killed" /\ pos = Len(wire)

ByLength(off) ==
  /\ Len(results) <= Len(accepted)
  /\ \A k \in 1 .. Len(results) :
       results[k] = IF Len(accepted[k]) <= BufSize THEN accepted[k] ELSE TooLong
  /\ pc = "head" => pos = off[Next1] \/ AtEnd
  /\ pc \in {"body", "extra", "overrun"} =>
       Next1 <= Len(accepted) /\ size = Len(accepted[Next1])
  /\ pc = "body"  => pos = off[Next1] + 2
  /\ pc = "extra" => pos = off[Next1] + 2 + BufSize

(* The first n results are the first n messages.                           *)
Whole(n) ==
  /\ n <= Len(accepted) /\ n <= Len(results)
  /\ \A k \in 1 .. n : results[k] = accepted[k] /\ Len(accepted[k]) < BufSize

InStep(off) ==
  /\ Whole(Len(results))
  /\ pc = "head" =>
       /\ pos = off[Next1] + Len(buf)
       /\ buf # <<>> => /\ Next1 <= Len(accepted) /\ Len(buf) <= Len(accepted[Next1])
                        /\ \A q \in 1 .. Len(buf) : buf[q] = accepted[Next1][q]

(* The k-th result was the first error.                                    *)
FailedAt(k) ==
  /\ Whole(k - 1) /\ results[k] = TooLong
  /\ k <= Len(accepted) /\ Len(accepted[k]) >= BufSize

ByDelim(off) ==
  /\ pc \notin {"body", "extra", "overrun"}
  /\ InStep(off) \/ \E k \in 1 .. Len(results) : FailedAt(k)

Reader(off) == IF framer = "length" THEN ByLength(off) ELSE ByDelim(off)

Places == \E off : Layout(off) /\ Reader(off)

(* The length of a message that does not fit.                              *)
Large ==
  /\ pc = "extra" => size > BufSize
  /\ pc = "overrun" => size > BufSize + Waste

FramingInv == TypeOK /\ Results /\ Large /\ Places

-----------------------------------------------------------------------------
(* Two bytes hold a length below Base * Base, high byte first.             *)
LEMMA TwoBytes ==
  ASSUME NEW n \in Nat, n < Base * Base
  PROVE  /\ n \div Base \in Bytes /\ n % Base \in Bytes
         /\ Base * (n \div Base) + (n % Base) = n
  <1>1. Base \in Nat /\ Base >= 2
    BY FramingAssumption
  <1>2. n \div Base \in Nat /\ n \div Base < Base /\ n % Base \in 0 .. Base - 1
    BY <1>1
  <1>3. n = Base * (n \div Base) + (n % Base)
    BY <1>1
  <1>. QED BY <1>1, <1>2, <1>3 DEF Bytes

LEMMA SizeOfTwoBytes ==
  ASSUME NEW x \in Bytes, NEW y \in Bytes
  PROVE  Base * x + y \in 0 .. Base * Base - 1
  <1>1. Base \in Nat /\ Base >= 2
    BY FramingAssumption
  <1>. QED BY <1>1 DEF Bytes

LEMMA MessageFacts ==
  ASSUME NEW m \in Message
  PROVE  m \in Seq(Bytes) /\ Len(m) \in Nat /\ m # TooLong
  BY FramingAssumption DEF Bytes

(* A part of a sequence; of a byte sequence.                               *)
LEMMA PartOf ==
  ASSUME NEW S, NEW s \in Seq(S), NEW a \in Nat, NEW b \in Nat, a <= b, b <= Len(s)
  PROVE  /\ SubSeq(s, a + 1, b) \in Seq(S) /\ Len(SubSeq(s, a + 1, b)) = b - a
         /\ \A q \in 1 .. b - a : SubSeq(s, a + 1, b)[q] = s[a + q]
  <1>1. \A q \in a + 1 .. b : s[q] \in S
    BY ElementOfSeq
  <1> DEFINE u == SubSeq(s, a + 1, b)
  <1>2. /\ u \in Seq(S)
        /\ Len(u) = IF a + 1 <= b THEN b - (a + 1) + 1 ELSE 0
        /\ \A q \in 1 .. b - (a + 1) + 1 : u[q] = s[a + 1 + q - 1]
    BY <1>1, SubSeqProperties
  <1> HIDE DEF u
  <1>3. Len(u) = b - a
    BY <1>2
  <1>4. ASSUME NEW q \in 1 .. b - a PROVE u[q] = s[a + q]
    <2>1. a + 1 + q - 1 = a + q /\ q \in 1 .. b - (a + 1) + 1
      OBVIOUS
    <2>. QED BY <1>2, <2>1
  <1>. QED BY <1>2, <1>3, <1>4 DEF u

LEMMA PartFacts ==
  ASSUME NEW s \in Seq(Bytes), NEW a \in Nat, NEW b \in Nat, a <= b, b <= Len(s)
  PROVE  /\ SubSeq(s, a + 1, b) \in Seq(Bytes) /\ Len(SubSeq(s, a + 1, b)) = b - a
         /\ \A q \in 1 .. b - a : SubSeq(s, a + 1, b)[q] = s[a + q]
  BY PartOf

-----------------------------------------------------------------------------
(* The types.  The first three parts of the invariant keep themselves.     *)
Types == TypeOK /\ Results /\ Large

LEMMA ReturnTypes ==
  ASSUME Types, NEW r \in Seq(Bytes) \cup {TooLong}, Return(r)
  PROVE  /\ Results' /\ buf' = <<>> /\ pc' \in {"head", "stopped"}
         /\ buf' \in Seq(Bytes) /\ Len(buf') = 0
         /\ Len(results') = Len(results) + 1 /\ results'[Len(results) + 1] = r
         /\ \A k \in 1 .. Len(results) : results'[k] = results[k]
         /\ Len(results) \in Nat
  <1>1. results \in Seq(Seq(Bytes) \cup {TooLong}) /\ results' = Append(results, r)
    BY DEF Types, Results, Return
  <1>2. /\ results' \in Seq(Seq(Bytes) \cup {TooLong})
        /\ Len(results') = Len(results) + 1 /\ results'[Len(results) + 1] = r
        /\ \A k \in 1 .. Len(results) : results'[k] = results[k]
        /\ Len(results) \in Nat
    BY <1>1, AppendProperties
  <1>3. buf' = <<>> /\ pc' \in {"head", "stopped"}
    BY DEF Return
  <1>4. buf' \in Seq(Bytes) /\ Len(buf') = 0
    BY <1>3
  <1>. QED BY <1>2, <1>3, <1>4 DEF Results

LEMMA WireFacts ==
  ASSUME Types
  PROVE  /\ wire \in Seq(Bytes) /\ Len(wire) \in Nat /\ pos \in Nat /\ pos <= Len(wire)
         /\ Left = Len(wire) - pos /\ Left \in Nat
         /\ \A q \in 1 .. Len(wire) : wire[q] \in Bytes
         /\ buf \in Seq(Bytes) /\ Len(buf) \in Nat
         /\ BufSize \in Nat /\ BufSize > 0 /\ size \in Nat
         /\ accepted \in Seq(Message) /\ Len(accepted) \in Nat
         /\ \A k \in 1 .. Len(accepted) : accepted[k] \in Message
         /\ Len(results) \in Nat
  <1>1. wire \in Seq(Bytes) /\ pos \in 0 .. Len(wire) /\ buf \in Seq(Bytes)
        /\ accepted \in Seq(Message) /\ results \in Seq(Seq(Bytes) \cup {TooLong})
    BY DEF Types, TypeOK, Results, Bytes
  <1>2. Len(wire) \in Nat /\ Len(buf) \in Nat /\ Len(accepted) \in Nat /\ Len(results) \in Nat
    BY <1>1
  <1>3. pos \in Nat /\ pos <= Len(wire) /\ Left = Len(wire) - pos /\ Left \in Nat
    BY <1>1, <1>2 DEF Left
  <1>4. BufSize \in Nat /\ BufSize > 0 /\ Base \in Nat
    BY FramingAssumption
  <1>5. size \in Nat
    BY DEF Types, TypeOK
  <1>6. /\ \A q \in 1 .. Len(wire) : wire[q] \in Bytes
        /\ \A k \in 1 .. Len(accepted) : accepted[k] \in Message
    BY <1>1, ElementOfSeq
  <1>. QED BY <1>1, <1>2, <1>3, <1>4, <1>5, <1>6

-----------------------------------------------------------------------------
(* The sender.  What it appends to the wire is the message's coded bytes.  *)
Appended(m) ==
  \E e \in Seq(Bytes) :
    /\ wire' = wire \o e /\ Len(e) = Size(m)
    /\ \A p \in 1 .. Len(e) : e[p] = Coded(m, p)

LEMMA PutFacts ==
  ASSUME Types, NEW m \in Message,
         IF framer = "delim" THEN PutDelim(m) ELSE PutLength(m)
  PROVE  Appended(m) /\ Fit(m)
  <1>1. m \in Seq(Bytes) /\ Len(m) \in Nat
    BY MessageFacts
  <1>2. CASE framer = "delim"
    <2> DEFINE d == <<DELIM>>
               e == m \o d
    <2>1. d \in Seq(Bytes) /\ Len(d) = 1 /\ d[1] = DELIM
      BY FramingAssumption DEF Bytes
    <2>2. wire' = wire \o e
      <3>1. wire' = (wire \o m) \o d /\ wire \in Seq(Bytes)
        BY <1>2, WireFacts DEF PutDelim
      <3> HIDE DEF d
      <3>. QED BY <1>1, <2>1, <3>1, ConcatAssociative
    <2>3. Fit(m)
      BY <1>2 DEF PutDelim, Contains, Fit
    <2> HIDE DEF d
    <2>a. /\ e \in Seq(Bytes) /\ Len(e) = Len(m) + Len(d)
          /\ \A p \in 1 .. Len(m) + Len(d) : e[p] = IF p <= Len(m) THEN m[p] ELSE d[p - Len(m)]
      BY <1>1, <2>1, ConcatProperties
    <2> HIDE DEF e
    <2>4. /\ e \in Seq(Bytes) /\ Len(e) = Len(m) + 1
          /\ \A p \in 1 .. Len(m) + 1 : e[p] = IF p <= Len(m) THEN m[p] ELSE d[p - Len(m)]
      BY <2>1, <2>a
    <2>5. ASSUME NEW p \in 1 .. Len(e) PROVE e[p] = Coded(m, p)
      <3>1. CASE p <= Len(m)
        BY <1>2, <2>4, <3>1 DEF Coded
      <3>2. CASE ~ p <= Len(m)
        <4>1. p - Len(m) = 1
          BY <1>1, <2>4, <3>2
        <4>. QED BY <1>2, <2>1, <2>4, <3>2, <4>1 DEF Coded
      <3>. QED BY <3>1, <3>2
    <2>6. Len(e) = Size(m)
      BY <1>2, <2>4 DEF Size
    <2>. QED BY <2>2, <2>3, <2>4, <2>5, <2>6 DEF Appended
  <1>3. CASE framer # "delim"
    <2> DEFINE h == <<Len(m) \div Base, Len(m) % Base>>
               e == h \o m
    <2>1. Len(m) < Base * Base
      <3>1. Base * Base \in Nat
        BY FramingAssumption
      <3>. QED BY <1>1, <1>3, <3>1 DEF PutLength
    <2>2. /\ h \in Seq(Bytes) /\ Len(h) = 2 /\ h[1] = Len(m) \div Base /\ h[2] = Len(m) % Base
      BY <1>1, <2>1, TwoBytes
    <2>3. wire' = wire \o e
      <3>1. wire' = (wire \o h) \o m /\ wire \in Seq(Bytes)
        BY <1>3, WireFacts DEF PutLength
      <3>2. h \in Seq(Bytes) /\ m \in Seq(Bytes)
        BY <1>1, <2>2
      <3> HIDE DEF h
      <3>3. (wire \o h) \o m = wire \o (h \o m)
        BY <3>1, <3>2, ConcatAssociative
      <3>. QED BY <3>1, <3>3, Zenon
    <2>4. Fit(m)
      BY <1>3, <2>1 DEF Fit
    <2> HIDE DEF h
    <2>a. /\ e \in Seq(Bytes) /\ Len(e) = Len(h) + Len(m)
          /\ \A p \in 1 .. Len(h) + Len(m) : e[p] = IF p <= Len(h) THEN h[p] ELSE m[p - Len(h)]
      BY <1>1, <2>2, ConcatProperties
    <2> HIDE DEF e
    <2>5. /\ e \in Seq(Bytes) /\ Len(e) = 2 + Len(m)
          /\ \A p \in 1 .. 2 + Len(m) : e[p] = IF p <= 2 THEN h[p] ELSE m[p - 2]
      BY <2>2, <2>a
    <2>6. ASSUME NEW p \in 1 .. Len(e) PROVE e[p] = Coded(m, p)
      <3>1. p \in Nat /\ (p <= 2 => p = 1 \/ p = 2) /\ (p = 1 \/ p = 2 => p <= 2)
        BY <1>1, <2>5
      <3>. QED BY <1>3, <2>2, <2>5, <3>1 DEF Coded
    <2>7. Len(e) = Size(m)
      BY <1>1, <1>3, <2>5 DEF Size
    <2>. QED BY <2>3, <2>4, <2>5, <2>6, <2>7 DEF Appended
  <1>. QED BY <1>2, <1>3

(* A receiver that does not move reads the same in a longer layout.        *)
LEMMA ReaderKept ==
  ASSUME Types, NEW off, Reader(off), NEW off2,
         UNCHANGED <<framer, results, pos, buf, size, pc>>,
         Len(accepted') \in Nat, Len(accepted) <= Len(accepted'),
         \A k \in 1 .. Len(accepted) : accepted'[k] = accepted[k],
         \A k \in 1 .. Len(accepted) + 1 : off2[k] = off[k],
         AtEnd => AtEnd'
  PROVE  Reader(off2)'
  <1>1. Len(accepted) \in Nat /\ Len(results) \in Nat
    BY WireFacts
  <1>2. Next1' = Next1
    BY DEF Next1
  <1>3. CASE framer = "length"
    <2>1. ByLength(off)
      BY <1>3 DEF Reader
    <2>2. Next1 \in 1 .. Len(accepted) + 1
      BY <1>1, <2>1 DEF ByLength, Next1
    <2>3. \A k \in 1 .. Len(results) : k \in 1 .. Len(accepted)
      BY <1>1, <2>1 DEF ByLength
    <2>4. Next1 <= Len(accepted) => Next1 \in 1 .. Len(accepted)
      BY <1>1, <2>2
    <2>a. /\ Len(results') <= Len(accepted')
          /\ \A k \in 1 .. Len(results') :
               results'[k] = IF Len(accepted'[k]) <= BufSize THEN accepted'[k] ELSE TooLong
      BY <1>1, <2>1, <2>3 DEF ByLength
    <2>b. off2[Next1] = off[Next1]
      BY <1>1, <2>2
    <2>c. pc' = "head" => pos' = off2[Next1'] \/ AtEnd'
      BY <1>2, <2>1, <2>b DEF ByLength
    <2>d. pc' \in {"body", "extra", "overrun"} =>
            Next1' <= Len(accepted') /\ size' = Len(accepted'[Next1'])
      <3>1. ASSUME pc \in {"body", "extra", "overrun"}
            PROVE  Next1 <= Len(accepted') /\ size = Len(accepted'[Next1])
        <4>1. Next1 <= Len(accepted) /\ size = Len(accepted[Next1])
          BY <2>1, <3>1 DEF ByLength
        <4>2. accepted'[Next1] = accepted[Next1]
          BY <2>4, <4>1
        <4>3. Next1 <= Len(accepted')
          BY <1>1, <2>2, <4>1
        <4>. QED BY <4>1, <4>2, <4>3
      <3>. QED BY <1>2, <3>1
    <2>e. /\ pc' = "body"  => pos' = off2[Next1'] + 2
          /\ pc' = "extra" => pos' = off2[Next1'] + 2 + BufSize
      BY <1>2, <2>1, <2>b DEF ByLength
    <2>5. ByLength(off2)'
      BY <2>a, <2>c, <2>d, <2>e DEF ByLength
    <2>. QED BY <1>3, <2>5 DEF Reader
  <1>4. CASE framer # "length"
    <2>1. ByDelim(off)
      BY <1>4 DEF Reader
    <2>2. \A n \in Nat : Whole(n) => Whole(n)'
      BY <1>1 DEF Whole
    <2>3. CASE InStep(off)
      <3>1. Next1 \in 1 .. Len(accepted) + 1
        BY <1>1, <2>3 DEF Whole, Next1, InStep
      <3>2. Next1 <= Len(accepted) => Next1 \in 1 .. Len(accepted)
        BY <1>1, <3>1
      <3>3. InStep(off2)'
        BY <1>1, <1>2, <2>2, <2>3, <3>1, <3>2 DEF InStep
      <3>. QED BY <1>4, <2>1, <3>3 DEF Reader, ByDelim
    <2>4. ASSUME NEW k \in 1 .. Len(results), FailedAt(k)
          PROVE  Reader(off2)'
      <3>1. k \in 1 .. Len(accepted) /\ k - 1 \in Nat
        BY <1>1, <2>4 DEF FailedAt
      <3>2. FailedAt(k)' /\ k \in 1 .. Len(results')
        BY <1>1, <2>2, <2>4, <3>1 DEF FailedAt
      <3>. QED BY <1>4, <2>1, <3>2 DEF Reader, ByDelim
    <2>. QED BY <2>1, <2>3, <2>4 DEF ByDelim
  <1>. QED BY <1>3, <1>4

LEMMA LayoutKept ==
  ASSUME NEW off, Layout(off), UNCHANGED <<framer, wire, accepted>>,
         ended' # "killed" => ended # "killed"
  PROVE  Layout(off)'
  <1>1. \A m, p : Fit(m)' = Fit(m) /\ Size(m)' = Size(m) /\ Coded(m, p)' = Coded(m, p)
    BY DEF Fit, Size, Coded
  <1>. QED BY <1>1 DEF Layout

(* Where the next message is put, and that the others stay where they are. *)
LEMMA PutMsgKeepsPlaces ==
  ASSUME FramingInv, PutMsg
  PROVE  Places'
  <1> DEFINE A == Len(accepted)
  <1>1. Types
    BY DEF FramingInv, Types
  <1>2. PICK off : Layout(off) /\ Reader(off)
    BY DEF FramingInv, Places
  <1>3. PICK m \in Message :
          /\ IF framer = "delim" THEN PutDelim(m) ELSE PutLength(m)
          /\ accepted' = Append(accepted, m)
    BY DEF PutMsg
  <1>4. UNCHANGED <<framer, goesOn, ended, pos, buf, size, pc, results>> /\ ended = "no"
    BY DEF PutMsg
  <1>5. Appended(m) /\ Fit(m)
    BY <1>1, <1>3, PutFacts
  <1>6. PICK e \in Seq(Bytes) :
          /\ wire' = wire \o e /\ Len(e) = Size(m)
          /\ \A p \in 1 .. Len(e) : e[p] = Coded(m, p)
    BY <1>5 DEF Appended
  <1>7. /\ A \in Nat /\ Len(accepted') = A + 1 /\ accepted'[A + 1] = m
        /\ \A k \in 1 .. A : accepted'[k] = accepted[k]
    BY <1>1, <1>3, WireFacts, AppendProperties
  <1>8. /\ Len(wire) \in Nat /\ Len(e) \in Nat /\ Len(wire') = Len(wire) + Len(e)
        /\ \A q \in 1 .. Len(wire) + Len(e) :
             wire'[q] = IF q <= Len(wire) THEN wire[q] ELSE e[q - Len(wire)]
    <2>1. wire \in Seq(Bytes) /\ e \in Seq(Bytes) /\ Len(wire) \in Nat /\ Len(e) \in Nat
      BY <1>1, WireFacts
    <2> DEFINE w == wire \o e
    <2>2. /\ Len(w) = Len(wire) + Len(e)
          /\ \A q \in 1 .. Len(wire) + Len(e) :
               w[q] = IF q <= Len(wire) THEN wire[q] ELSE e[q - Len(wire)]
      BY <2>1, ConcatProperties
    <2>3. wire' = w
      BY <1>6
    <2> HIDE DEF w
    <2>. QED BY <2>1, <2>2, <2>3
  <1>9. /\ off \in [1 .. A + 1 -> Nat] /\ off[1] = 0 /\ Len(wire) = off[A + 1]
    BY <1>2, <1>4 DEF Layout
  <1>off. PICK off2 : off2 = [k \in 1 .. A + 2 |-> IF k = A + 2 THEN off[A + 1] + Size(m) ELSE off[k]]
    OBVIOUS
  <1>10. /\ off2 \in [1 .. A + 2 -> Nat] /\ off2[A + 2] = off[A + 1] + Size(m)
         /\ \A k \in 1 .. A + 1 : off2[k] = off[k]
    <2>1. off[A + 1] \in Nat /\ Size(m) \in Nat
      BY <1>6, <1>7, <1>8, <1>9
    <2>2. ASSUME NEW k \in 1 .. A + 1 PROVE off2[k] = off[k]
      BY <1>7, <1>off
    <2>3. ASSUME NEW k \in 1 .. A + 2
          PROVE  (IF k = A + 2 THEN off[A + 1] + Size(m) ELSE off[k]) \in Nat
      <3>1. off[A + 1] + Size(m) \in Nat
        BY ONLY <2>1
      <3>2. k # A + 2 => k \in 1 .. A + 1
        BY ONLY <1>7
      <3>3. k # A + 2 => off[k] \in Nat
        BY <1>9, <3>2
      <3>. QED BY ONLY <3>1, <3>3
    <2>4. off2 \in [1 .. A + 2 -> Nat]
      BY <1>off, <2>3
    <2>5. off2[A + 2] = off[A + 1] + Size(m)
      <3>1. A + 2 \in 1 .. A + 2
        BY <1>7
      <3>. QED BY <1>off, <3>1
    <2>. QED BY <2>2, <2>4, <2>5
  <1>11. \A x, p : Fit(x)' = Fit(x) /\ Size(x)' = Size(x) /\ Coded(x, p)' = Coded(x, p)
    BY <1>4 DEF Fit, Size, Coded
  <1>12. ASSUME NEW k \in 1 .. A + 1
         PROVE  /\ Fit(accepted'[k])
                /\ off2[k + 1] = off2[k] + Size(accepted'[k])
                /\ \A p \in 1 .. Size(accepted'[k]) :
                     off2[k] + p <= Len(wire') => wire'[off2[k] + p] = Coded(accepted'[k], p)
                /\ off2[k + 1] <= off2[A + 2]
    <2>1. CASE k \in 1 .. A
      <3>1. /\ k + 1 \in 1 .. A + 1 /\ accepted'[k] = accepted[k]
            /\ off2[k] = off[k] /\ off2[k + 1] = off[k + 1]
        BY <1>7, <1>10, <2>1
      <3>2. /\ Fit(accepted[k]) /\ off[k + 1] = off[k] + Size(accepted[k])
            /\ \A p \in 1 .. Size(accepted[k]) :
                 off[k] + p <= Len(wire) => wire[off[k] + p] = Coded(accepted[k], p)
            /\ off[k + 1] <= off[A + 1]
        BY <1>2, <2>1 DEF Layout
      <3>3. off[k] \in Nat /\ off[k + 1] \in Nat /\ off[A + 1] \in Nat /\ Size(m) \in Nat
        BY <1>6, <1>7, <1>8, <1>9, <2>1, <3>1
      <3>4. off2[k + 1] <= off2[A + 2]
        BY <1>10, <3>1, <3>2, <3>3
      <3>5. Size(accepted[k]) \in Int
        <4>1. accepted[k] \in Message /\ Len(accepted[k]) \in Nat
          BY <1>1, <2>1, WireFacts, MessageFacts
        <4>. QED BY <4>1 DEF Size
      <3>6. ASSUME NEW p \in 1 .. Size(accepted[k])
            PROVE  wire'[off[k] + p] = Coded(accepted[k], p)
        <4>1. off[k] + p \in 1 .. Len(wire)
          <5>1. off[k + 1] = off[k] + Size(accepted[k]) /\ off[k + 1] <= off[A + 1]
                /\ off[A + 1] = Len(wire)
            BY <1>9, <3>2
          <5>. QED BY <3>3, <3>5, <5>1
        <4>2. wire'[off[k] + p] = wire[off[k] + p]
          BY <1>8, <4>1
        <4>. QED BY <3>2, <4>1, <4>2
      <3>. QED BY <3>1, <3>2, <3>4, <3>6
    <2>2. CASE k = A + 1
      <3>1. /\ accepted'[k] = m /\ off2[k] = off[A + 1] /\ off2[k + 1] = off[A + 1] + Size(m)
            /\ off2[k + 1] = off2[A + 2] /\ off2[A + 2] \in Nat
        <4>1. k + 1 = A + 2 /\ k \in 1 .. A + 1 /\ A + 2 \in 1 .. A + 2
          BY <1>7, <2>2
        <4>. QED BY <1>7, <1>10, <2>2, <4>1
      <3>2. ASSUME NEW p \in 1 .. Size(m) PROVE wire'[off[A + 1] + p] = Coded(m, p)
        <4>1. p \in 1 .. Len(e) /\ off[A + 1] + p = Len(wire) + p
          BY <1>6, <1>9
        <4>2. Len(wire) + p \in 1 .. Len(wire) + Len(e) /\ ~ Len(wire) + p <= Len(wire)
              /\ Len(wire) + p - Len(wire) = p
          BY <1>8, <4>1
        <4>3. wire'[Len(wire) + p] = e[p]
          BY <1>8, <4>2
        <4>. QED BY <1>6, <4>1, <4>3
      <3>. QED BY <1>5, <3>1, <3>2
    <2>. QED BY <1>7, <2>1, <2>2
  <1>13. Len(wire') = off2[A + 2]
    BY <1>6, <1>8, <1>9, <1>10
  <1>14. Layout(off2)'
    <2>1. Len(accepted') + 1 = A + 2 /\ off2[1] = 0 /\ Len(wire') <= off2[A + 2]
      BY <1>6, <1>7, <1>8, <1>9, <1>10, <1>13
    <2>2. off2 \in [1 .. Len(accepted') + 1 -> Nat] /\ off2[1] = 0
      BY <1>10, <2>1
    <2>3. Len(wire') = off2[Len(accepted') + 1] /\ Len(wire') <= off2[Len(accepted') + 1]
      BY <1>13, <2>1
    <2>4. ASSUME NEW k \in 1 .. Len(accepted')
          PROVE  /\ Fit(accepted[k])'
                 /\ off2[k + 1] = off2[k] + Size(accepted[k])'
                 /\ \A p \in 1 .. Size(accepted[k])' :
                      off2[k] + p <= Len(wire') => wire'[off2[k] + p] = Coded(accepted[k], p)'
                 /\ off2[k + 1] <= off2[Len(accepted') + 1]
      <3>1. k \in 1 .. A + 1
        BY <1>7
      <3>2. /\ Fit(accepted[k])' = Fit(accepted'[k]) /\ Size(accepted[k])' = Size(accepted'[k])
            /\ \A p : Coded(accepted[k], p)' = Coded(accepted'[k], p)
        BY <1>4 DEF Fit, Size, Coded
      <3>. QED BY <1>12, <2>1, <3>1, <3>2
    <2>. QED BY <2>2, <2>3, <2>4 DEF Layout
  <1>15. Reader(off2)'
    <2>1. A <= Len(accepted') /\ Len(accepted') \in Nat
      BY <1>7
    <2>2. AtEnd => AtEnd'
      BY <1>4 DEF AtEnd
    <2>3. /\ Reader(off) /\ UNCHANGED <<framer, results, pos, buf, size, pc>>
          /\ \A k \in 1 .. Len(accepted) : accepted'[k] = accepted[k]
          /\ \A k \in 1 .. Len(accepted) + 1 : off2[k] = off[k]
      BY <1>2, <1>4, <1>7, <1>10
    <2>. QED BY <1>1, <2>1, <2>2, <2>3, ReaderKept
  <1>. QED BY <1>14, <1>15 DEF Places

LEMMA CloseKeepsPlaces ==
  ASSUME FramingInv, Close
  PROVE  Places'
  <1>1. Types
    BY DEF FramingInv, Types
  <1>2. PICK off : Layout(off) /\ Reader(off)
    BY DEF FramingInv, Places
  <1>3. Layout(off)'
    BY <1>2, LayoutKept DEF Close
  <1>4. Len(accepted') \in Nat /\ Len(accepted) <= Len(accepted')
    BY <1>1, WireFacts DEF Close
  <1>5. Reader(off)'
    BY <1>1, <1>2, <1>4, ReaderKept DEF Close, AtEnd
  <1>. QED BY <1>3, <1>5 DEF Places

(* Only unread bytes are lost.                                             *)
LEMMA KilledKeepsPlaces ==
  ASSUME FramingInv, Killed
  PROVE  Places'
  <1>1. Types
    BY DEF FramingInv, Types
  <1>2. PICK off : Layout(off) /\ Reader(off)
    BY DEF FramingInv, Places
  <1>3. PICK n \in pos .. Len(wire) : wire' = SubSeq(wire, 1, n)
    BY DEF Killed
  <1>4. /\ UNCHANGED <<framer, goesOn, accepted, pos, buf, size, pc, results>>
        /\ ended = "no" /\ ended' = "killed"
    BY DEF Killed
  <1>5. /\ n \in Nat /\ n <= Len(wire) /\ Len(wire') = n /\ Len(wire) \in Nat
        /\ \A q \in 1 .. n : wire'[q] = wire[q]
    <2>1. n \in Nat /\ n <= Len(wire) /\ wire \in Seq(Bytes) /\ Len(wire) \in Nat
      BY <1>1, <1>3, WireFacts
    <2>2. wire' = SubSeq(wire, 0 + 1, n)
      BY <1>3
    <2>3. Len(wire') = n - 0 /\ \A q \in 1 .. n - 0 : wire'[q] = wire[0 + q]
      BY <2>1, <2>2, PartFacts
    <2>. QED BY <2>1, <2>3
  <1>6. \A x, p : Fit(x)' = Fit(x) /\ Size(x)' = Size(x) /\ Coded(x, p)' = Coded(x, p)
    BY <1>4 DEF Fit, Size, Coded
  <1>7. Len(accepted) \in Nat
    BY <1>1, WireFacts
  <1>8. off \in [1 .. Len(accepted) + 1 -> Nat] /\ off[Len(accepted) + 1] \in Nat
    BY <1>2, <1>7 DEF Layout
  <1>9. ASSUME NEW k \in 1 .. Len(accepted), NEW p \in 1 .. Size(accepted[k]), off[k] + p <= Len(wire')
        PROVE  wire'[off[k] + p] = Coded(accepted[k], p)
    <2>1. off[k] \in Nat /\ p \in Int /\ p >= 1
      BY <1>7, <1>8
    <2>2. off[k] + p \in 1 .. n /\ off[k] + p <= Len(wire)
      BY <1>5, <1>9, <2>1
    <2>3. wire[off[k] + p] = Coded(accepted[k], p)
      BY <1>2, <2>2 DEF Layout
    <2>. QED BY <1>5, <2>2, <2>3
  <1>10. Len(wire') <= off[Len(accepted) + 1]
    BY <1>2, <1>5, <1>8 DEF Layout
  <1>11. Layout(off)'
    BY <1>2, <1>4, <1>6, <1>9, <1>10 DEF Layout
  <1>12. Reader(off)'
    <2>1. Len(accepted') \in Nat /\ Len(accepted) <= Len(accepted')
      BY <1>4, <1>7
    <2>2. AtEnd => AtEnd'
      BY <1>4 DEF AtEnd
    <2>. QED BY <1>1, <1>2, <1>4, <2>1, <2>2, ReaderKept
  <1>. QED BY <1>11, <1>12 DEF Places

-----------------------------------------------------------------------------
(* The receiver.  A place in the layout.                                   *)
LEMMA PlaceFacts ==
  ASSUME Types, NEW off, Layout(off), NEW k \in 1 .. Len(accepted)
  PROVE  /\ off[k] \in Nat /\ off[k + 1] = off[k] + Size(accepted[k])
         /\ accepted[k] \in Seq(Bytes) /\ Len(accepted[k]) \in Nat /\ Fit(accepted[k])
         /\ \A p \in 1 .. Size(accepted[k]) :
              off[k] + p <= Len(wire) => wire[off[k] + p] = Coded(accepted[k], p)
  <1>1. Len(accepted) \in Nat /\ accepted[k] \in Message
    BY WireFacts
  <1>2. accepted[k] \in Seq(Bytes) /\ Len(accepted[k]) \in Nat
    BY <1>1, MessageFacts
  <1>3. off[k] \in Nat
    BY <1>1 DEF Layout
  <1>. QED BY <1>2, <1>3 DEF Layout

(* Past the last place there is nothing on the wire.                       *)
LEMMA LastPlace ==
  ASSUME Types, NEW off, Layout(off), NEW n \in 1 .. Len(accepted) + 1,
         NEW a \in Nat, off[n] + a < Len(wire), n <= Len(accepted) \/ a = 0
  PROVE  n \in 1 .. Len(accepted)
  <1>1. Len(accepted) \in Nat /\ Len(wire) \in Nat
    BY WireFacts
  <1>2. off[Len(accepted) + 1] >= Len(wire) /\ off[Len(accepted) + 1] \in Nat
    BY <1>1 DEF Layout
  <1>3. n # Len(accepted) + 1
    BY <1>1, <1>2
  <1>. QED BY <1>1, <1>3

(* Unless the sender was killed a message is on the wire to its end.       *)
LEMMA WholeOnWire ==
  ASSUME NEW off, Layout(off), ended # "killed", NEW k \in 1 .. Len(accepted)
  PROVE  off[k + 1] <= Len(wire)
  <1>1. off[k + 1] <= off[Len(accepted) + 1] /\ Len(wire) = off[Len(accepted) + 1]
    BY DEF Layout
  <1>. QED BY <1>1

(* Once a result was an error of a delimiter framer it remains one.        *)
LEMMA FailedKept ==
  ASSUME Types, NEW k \in 1 .. Len(results), FailedAt(k), UNCHANGED accepted,
         Len(results') \in Nat, Len(results) <= Len(results'),
         \A j \in 1 .. Len(results) : results'[j] = results[j]
  PROVE  FailedAt(k)' /\ k \in 1 .. Len(results')
  BY WireFacts DEF FailedAt, Whole

(* What is next on the wire for a delimiter framer that is in step.        *)
LEMMA NextByte ==
  ASSUME Types, NEW off, Layout(off), InStep(off), framer = "delim", pc = "head", Left > 0
  PROVE  /\ Next1 \in 1 .. Len(accepted) /\ pos = off[Next1] + Len(buf)
         /\ Len(buf) <= Len(accepted[Next1])
         /\ \A q \in 1 .. Len(buf) : buf[q] = accepted[Next1][q]
         /\ off[Next1 + 1] = off[Next1] + Len(accepted[Next1]) + 1
         /\ IF Len(buf) = Len(accepted[Next1]) THEN wire[pos + 1] = DELIM
            ELSE wire[pos + 1] = accepted[Next1][Len(buf) + 1] /\ wire[pos + 1] # DELIM
  <1>1. /\ Len(accepted) \in Nat /\ Len(wire) \in Nat /\ Len(results) \in Nat
        /\ Len(buf) \in Nat /\ pos \in Nat /\ pos < Len(wire)
    BY WireFacts
  <1>2. Next1 \in 1 .. Len(accepted) + 1
    BY <1>1 DEF InStep, Whole, Next1
  <1>3. /\ pos = off[Next1] + Len(buf)
        /\ buf # <<>> => /\ Next1 <= Len(accepted) /\ Len(buf) <= Len(accepted[Next1])
                         /\ \A q \in 1 .. Len(buf) : buf[q] = accepted[Next1][q]
    BY DEF InStep
  <1>4. buf = <<>> => Len(buf) = 0
    OBVIOUS
  <1>5. Next1 \in 1 .. Len(accepted)
    BY <1>1, <1>2, <1>3, <1>4, LastPlace
  <1> DEFINE m == accepted[Next1]
  <1>6. /\ off[Next1] \in Nat /\ off[Next1 + 1] = off[Next1] + Size(m)
        /\ m \in Seq(Bytes) /\ Len(m) \in Nat /\ Fit(m)
        /\ \A p \in 1 .. Size(m) :
             off[Next1] + p <= Len(wire) => wire[off[Next1] + p] = Coded(m, p)
    BY <1>5, PlaceFacts
  <1>7. Len(buf) <= Len(m) /\ \A q \in 1 .. Len(buf) : buf[q] = m[q]
    BY <1>1, <1>3, <1>4, <1>6
  <1>8. Size(m) = Len(m) + 1
    BY DEF Size
  <1> HIDE DEF m
  <1>9. wire[pos + 1] = Coded(m, Len(buf) + 1)
    <2>1. Len(buf) + 1 \in 1 .. Size(m) /\ off[Next1] + (Len(buf) + 1) = pos + 1
          /\ pos + 1 <= Len(wire)
      <3>1. off[Next1] \in Nat /\ Len(m) \in Nat
        BY <1>6
      <3>. QED BY <1>1, <1>3, <1>7, <1>8, <3>1
    <2>. QED BY <1>6, <2>1
  <1>12. /\ Next1 \in 1 .. Len(accepted) /\ pos = off[Next1] + Len(buf)
         /\ Len(buf) <= Len(m) /\ \A q \in 1 .. Len(buf) : buf[q] = m[q]
         /\ off[Next1 + 1] = off[Next1] + Len(m) + 1
    <2>1. off[Next1] \in Nat /\ Len(m) \in Nat
      BY <1>6
    <2>. QED BY <1>3, <1>5, <1>6, <1>7, <1>8, <2>1
  <1>10. CASE Len(buf) = Len(m)
    <2>1. wire[pos + 1] = DELIM
      BY <1>1, <1>9, <1>10 DEF Coded
    <2>. QED BY <1>12, <1>10, <2>1 DEF m
  <1>11. CASE Len(buf) # Len(m)
    <2>1. Len(buf) + 1 \in 1 .. Len(m)
      BY <1>1, <1>6, <1>7, <1>11
    <2>2. wire[pos + 1] = m[Len(buf) + 1] /\ m[Len(buf) + 1] # DELIM
      BY <1>6, <1>9, <2>1 DEF Coded, Fit
    <2>. QED BY <1>12, <1>11, <2>2 DEF m
  <1>. QED BY <1>10, <1>11

(* A result of a delimiter framer: the whole next message, or its error.   *)
LEMMA DelimResult ==
  ASSUME Types, NEW off, Layout(off), framer = "delim", pc = "head", UNCHANGED <<framer, accepted>>,
         NEW r \in Seq(Bytes) \cup {TooLong}, Return(r),
         InStep(off) =>
           /\ Next1 \in 1 .. Len(accepted)
           /\ \/ r = accepted[Next1] /\ Len(r) < BufSize /\ pos' = off[Next1 + 1]
              \/ r = TooLong /\ Len(accepted[Next1]) >= BufSize,
         Reader(off)
  PROVE  Reader(off)'
  <1>1. ByDelim(off)
    BY DEF Reader
  <1>2. /\ buf' = <<>> /\ Len(buf') = 0 /\ pc' \in {"head", "stopped"}
        /\ Len(results') = Len(results) + 1 /\ results'[Len(results) + 1] = r
        /\ \A k \in 1 .. Len(results) : results'[k] = results[k]
        /\ Len(results) \in Nat /\ Len(accepted) \in Nat
    BY ReturnTypes, WireFacts
  <1>3. SUFFICES InStep(off)' \/ \E k \in 1 .. Len(results') : FailedAt(k)'
    BY <1>2 DEF Reader, ByDelim
  <1>4. CASE InStep(off)
    <2>1. Next1 = Len(results) + 1 /\ Next1 \in 1 .. Len(accepted) /\ Next1' = Next1 + 1
      BY <1>2, <1>4 DEF Next1
    <2>2. \A k \in 1 .. Len(results) : results'[k] = accepted[k] /\ Len(accepted[k]) < BufSize
      BY <1>2, <1>4 DEF InStep, Whole
    <2>3. CASE r = accepted[Next1] /\ Len(r) < BufSize /\ pos' = off[Next1 + 1]
      <3>1. ASSUME NEW k \in 1 .. Len(results')
            PROVE  results'[k] = accepted[k] /\ Len(accepted[k]) < BufSize
        <4>1. k \in 1 .. Len(results) \/ k = Next1
          BY <1>2, <2>1
        <4>. QED BY <1>2, <2>1, <2>2, <2>3, <4>1
      <3>2. Whole(Len(results))'
        BY <1>2, <2>1, <3>1 DEF Whole
      <3>3. pos' = off[Next1'] + Len(buf')
        <4>1. off[Next1 + 1] \in Nat
          BY <1>2, <2>1 DEF Layout
        <4>. QED BY <1>2, <2>1, <2>3, <4>1
      <3>. QED BY <1>2, <3>2, <3>3 DEF InStep
    <2>4. CASE r = TooLong /\ Len(accepted[Next1]) >= BufSize
      <3>1. Next1 \in 1 .. Len(results') /\ results'[Next1] = TooLong /\ Next1 - 1 = Len(results)
        BY <1>2, <2>1, <2>4
      <3>3. PICK k \in 1 .. Len(results') : k = Next1
        BY <3>1
      <3>4. Whole(k - 1)'
        BY <1>2, <2>1, <2>2, <3>1, <3>3 DEF Whole
      <3>5. FailedAt(k)'
        BY <1>2, <2>1, <2>4, <3>1, <3>3, <3>4 DEF FailedAt
      <3>. QED BY <3>5
    <2>. QED BY <1>4, <2>3, <2>4
  <1>5. ASSUME NEW k \in 1 .. Len(results), FailedAt(k)
        PROVE  \E j \in 1 .. Len(results') : FailedAt(j)'
    BY <1>2, <1>5, FailedKept
  <1>. QED BY <1>1, <1>4, <1>5 DEF ByDelim

LEMMA GetEOFKeepsPlaces ==
  ASSUME FramingInv, GetEOF
  PROVE  Places'
  <1>1. PICK off : Layout(off) /\ Reader(off)
    BY DEF FramingInv, Places
  <1>2. Layout(off)'
    BY <1>1, LayoutKept DEF GetEOF
  <1>3. pc' \in {"stopped", "exited"} /\ framer = "delim"
    BY DEF GetEOF
  <1>4. UNCHANGED <<framer, accepted, results>>
    BY DEF GetEOF
  <1>5. Reader(off)'
    BY <1>1, <1>3, <1>4 DEF Reader, ByDelim, InStep, FailedAt, Whole
  <1>. QED BY <1>2, <1>5 DEF Places

LEMMA GetDelimKeepsPlaces ==
  ASSUME FramingInv, GetDelim
  PROVE  Places'
  <1>1. Types
    BY DEF FramingInv, Types
  <1>2. PICK off : Layout(off) /\ Reader(off)
    BY DEF FramingInv, Places
  <1>3. Layout(off)'
    BY <1>2, LayoutKept DEF GetDelim
  <1>4. /\ framer = "delim" /\ pc = "head" /\ Left > 0 /\ wire[pos + 1] = DELIM
        /\ pos' = pos + 1 /\ Return(buf) /\ UNCHANGED <<framer, accepted>>
    BY DEF GetDelim
  <1>5. buf \in Seq(Bytes) /\ Len(buf) \in Nat /\ Len(buf) < BufSize
    BY <1>1, <1>4, WireFacts DEF Types, TypeOK
  <1>6. ASSUME InStep(off)
        PROVE  /\ Next1 \in 1 .. Len(accepted)
               /\ buf = accepted[Next1] /\ Len(buf) < BufSize /\ pos' = off[Next1 + 1]
    <2>1. /\ Next1 \in 1 .. Len(accepted) /\ pos = off[Next1] + Len(buf)
          /\ \A q \in 1 .. Len(buf) : buf[q] = accepted[Next1][q]
          /\ off[Next1 + 1] = off[Next1] + Len(accepted[Next1]) + 1
          /\ Len(buf) = Len(accepted[Next1])
      BY <1>1, <1>2, <1>4, <1>6, NextByte
    <2>2. accepted[Next1] \in Seq(Bytes) /\ off[Next1] \in Nat
      BY <1>1, <1>2, <2>1, PlaceFacts
    <2>3. buf = accepted[Next1]
      BY <1>5, <2>1, <2>2, SeqEqual
    <2>4. pos' = off[Next1 + 1]
      BY <1>4, <1>5, <2>1, <2>2
    <2>. QED BY <1>5, <2>1, <2>3, <2>4
  <1>7. Reader(off)'
    BY <1>1, <1>2, <1>4, <1>5, <1>6, DelimResult
  <1>. QED BY <1>3, <1>7 DEF Places

LEMMA GetOtherKeepsPlaces ==
  ASSUME FramingInv, GetOther
  PROVE  Places'
  <1>1. Types
    BY DEF FramingInv, Types
  <1>2. PICK off : Layout(off) /\ Reader(off)
    BY DEF FramingInv, Places
  <1>3. Layout(off)'
    BY <1>2, LayoutKept DEF GetOther
  <1>4. /\ framer = "delim" /\ pc = "head" /\ Left > 0 /\ wire[pos + 1] # DELIM
        /\ pos' = pos + 1 /\ UNCHANGED <<framer, accepted>>
    BY DEF GetOther
  <1>5. /\ buf \in Seq(Bytes) /\ Len(buf) \in Nat /\ BufSize \in Nat
        /\ wire[pos + 1] \in Bytes /\ pos \in Nat
    <2>1. pos + 1 \in 1 .. Len(wire)
      BY <1>1, <1>4, WireFacts
    <2>. QED BY <1>1, <2>1, WireFacts
  <1>6. ASSUME InStep(off)
        PROVE  /\ Next1 \in 1 .. Len(accepted) /\ pos = off[Next1] + Len(buf)
               /\ Len(buf) < Len(accepted[Next1])
               /\ \A q \in 1 .. Len(buf) : buf[q] = accepted[Next1][q]
               /\ wire[pos + 1] = accepted[Next1][Len(buf) + 1]
    <2>1. /\ Next1 \in 1 .. Len(accepted) /\ pos = off[Next1] + Len(buf)
          /\ Len(buf) <= Len(accepted[Next1]) /\ Len(buf) # Len(accepted[Next1])
          /\ \A q \in 1 .. Len(buf) : buf[q] = accepted[Next1][q]
          /\ wire[pos + 1] = accepted[Next1][Len(buf) + 1]
      BY <1>1, <1>2, <1>4, <1>6, NextByte
    <2>2. Len(accepted[Next1]) \in Nat
      BY <1>1, <1>2, <2>1, PlaceFacts
    <2>. QED BY <1>5, <2>1, <2>2
  <1>7. CASE Len(buf) + 1 < BufSize
    <2>1. buf' = Append(buf, wire[pos + 1]) /\ UNCHANGED <<pc, results>>
      BY <1>7 DEF GetOther
    <2>2. /\ Len(buf') = Len(buf) + 1 /\ buf'[Len(buf) + 1] = wire[pos + 1]
          /\ \A q \in 1 .. Len(buf) : buf'[q] = buf[q]
      BY <1>5, <2>1, AppendProperties
    <2>3. ASSUME InStep(off) PROVE InStep(off)'
      <3>1. /\ Next1 \in 1 .. Len(accepted) /\ pos = off[Next1] + Len(buf)
            /\ Len(buf) < Len(accepted[Next1])
            /\ \A q \in 1 .. Len(buf) : buf[q] = accepted[Next1][q]
            /\ wire[pos + 1] = accepted[Next1][Len(buf) + 1]
        BY <1>6, <2>3
      <3>2. Next1' = Next1 /\ Whole(Len(results))'
        BY <1>4, <2>1, <2>3 DEF Next1, InStep, Whole
      <3>3. off[Next1] \in Nat /\ Len(accepted[Next1]) \in Nat
        BY <1>1, <1>2, <3>1, PlaceFacts
      <3>4. pos' = off[Next1] + Len(buf')
        <4>1. pos' = pos + 1 /\ Len(buf) \in Nat
          BY <1>4, <1>5
        <4>2. pos = off[Next1] + Len(buf) /\ Len(buf') = Len(buf) + 1
          BY <2>2, <3>1
        <4>. QED BY ONLY <3>3, <4>1, <4>2
      <3>5. Next1 <= Len(accepted) /\ Len(buf') <= Len(accepted[Next1])
        BY <1>5, <2>2, <3>1, <3>3
      <3>6. ASSUME NEW q \in 1 .. Len(buf') PROVE buf'[q] = accepted[Next1][q]
        <4>1. q \in 1 .. Len(buf) \/ q = Len(buf) + 1
          BY <1>5, <2>2
        <4>. QED BY <2>2, <3>1, <4>1
      <3>. QED BY <1>4, <3>2, <3>4, <3>5, <3>6 DEF InStep
    <2>4. ASSUME NEW k \in 1 .. Len(results), FailedAt(k)
          PROVE  FailedAt(k)' /\ k \in 1 .. Len(results')
      BY <1>4, <2>1, <2>4 DEF FailedAt, Whole
    <2>. QED
      <3>1. ByDelim(off)
        BY <1>2, <1>4 DEF Reader
      <3>2. ByDelim(off)'
        BY <1>4, <2>1, <2>3, <2>4, <3>1 DEF ByDelim
      <3>. QED BY <1>3, <1>4, <3>2 DEF Reader, Places
  <1>8. CASE ~ Len(buf) + 1 < BufSize
    <2>1. Return(TooLong)
      BY <1>8 DEF GetOther
    <2>2. ASSUME InStep(off)
          PROVE  Next1 \in 1 .. Len(accepted) /\ Len(accepted[Next1]) >= BufSize
      <3>1. Next1 \in 1 .. Len(accepted) /\ Len(buf) < Len(accepted[Next1])
        BY <1>6, <2>2
      <3>2. Len(accepted[Next1]) \in Nat
        BY <1>1, <1>2, <3>1, PlaceFacts
      <3>. QED BY <1>5, <1>8, <3>1, <3>2
    <2>3. Reader(off)'
      BY <1>1, <1>2, <1>4, <2>1, <2>2, DelimResult
    <2>. QED BY <1>3, <2>3 DEF Places
  <1>. QED BY <1>7, <1>8

-----------------------------------------------------------------------------
(* LengthFramer.c.                                                         *)
LEMMA ReadEndsKeepsPlaces ==
  ASSUME FramingInv, ReadEnds
  PROVE  Places'
  <1>1. PICK off : Layout(off) /\ Reader(off)
    BY DEF FramingInv, Places
  <1>2. Layout(off)'
    BY <1>1, LayoutKept DEF ReadEnds
  <1>3. framer = "length" /\ pc' = "stopped" /\ UNCHANGED <<framer, accepted, results>>
    BY DEF ReadEnds
  <1>4. Reader(off)'
    BY <1>1, <1>3 DEF Reader, ByLength
  <1>. QED BY <1>2, <1>4 DEF Places

LEMMA ReadSizeKeepsPlaces ==
  ASSUME FramingInv, ReadSize
  PROVE  Places'
  <1>1. Types
    BY DEF FramingInv, Types
  <1>2. PICK off : Layout(off) /\ Reader(off)
    BY DEF FramingInv, Places
  <1>3. Layout(off)'
    BY <1>2, LayoutKept DEF ReadSize
  <1>4. /\ framer = "length" /\ pc = "head" /\ Left >= 2
        /\ size' = Base * wire[pos + 1] + wire[pos + 2] /\ pos' = pos + 2 /\ pc' = "body"
        /\ UNCHANGED <<framer, accepted, results>>
    BY DEF ReadSize
  <1>5. /\ pos \in Nat /\ Len(wire) \in Nat /\ pos + 2 <= Len(wire)
        /\ Len(results) \in Nat /\ Len(accepted) \in Nat
    BY <1>1, <1>4, WireFacts
  <1>6. ByLength(off)
    BY <1>2, <1>4 DEF Reader
  <1>7. pos = off[Next1] /\ Next1 \in 1 .. Len(accepted) + 1
    BY <1>4, <1>5, <1>6 DEF ByLength, AtEnd, Next1
  <1>8. Next1 \in 1 .. Len(accepted)
    <2>1. off[Next1] + 0 < Len(wire)
      BY <1>5, <1>7
    <2>. QED BY <1>1, <1>2, <1>7, <2>1, LastPlace
  <1> DEFINE m == accepted[Next1]
  <1>9. /\ Len(m) \in Nat /\ Fit(m) /\ off[Next1] \in Nat
        /\ \A p \in 1 .. Size(m) :
             off[Next1] + p <= Len(wire) => wire[off[Next1] + p] = Coded(m, p)
    BY <1>1, <1>2, <1>8, PlaceFacts
  <1>10. Size(m) = Len(m) + 2 /\ Len(m) < Base * Base
         /\ Coded(m, 1) = Len(m) \div Base /\ Coded(m, 2) = Len(m) % Base
    BY <1>4, <1>9 DEF Size, Fit, Coded
  <1> HIDE DEF m
  <1>11. wire[pos + 1] = Len(m) \div Base /\ wire[pos + 2] = Len(m) % Base
    <2>1. 1 \in 1 .. Size(m) /\ 2 \in 1 .. Size(m)
      BY <1>9, <1>10
    <2>. QED BY <1>5, <1>7, <1>9, <1>10, <2>1
  <1>12. size' = Len(m)
    BY <1>4, <1>9, <1>10, <1>11, TwoBytes
  <1>13. Next1' = Next1
    BY <1>4 DEF Next1
  <1>14. Next1' <= Len(accepted') /\ size' = Len(accepted'[Next1'])
    BY <1>4, <1>8, <1>12, <1>13 DEF m
  <1>15. pos' = off[Next1'] + 2
    BY <1>4, <1>7, <1>13
  <1>16. ByLength(off)'
    BY <1>4, <1>6, <1>14, <1>15 DEF ByLength
  <1>. QED BY <1>3, <1>4, <1>16 DEF Reader, Places

(* A result of LengthFramer.c.                                             *)
LEMMA LengthResult ==
  ASSUME Types, NEW off, Layout(off), ByLength(off), UNCHANGED <<framer, accepted>>,
         Next1 \in 1 .. Len(accepted),
         NEW r \in Seq(Bytes) \cup {TooLong}, Return(r),
         r = IF Len(accepted[Next1]) <= BufSize THEN accepted[Next1] ELSE TooLong,
         pos' = off[Next1 + 1] \/ AtEnd'
  PROVE  ByLength(off)'
  <1>1. /\ pc' \in {"head", "stopped"}
        /\ Len(results') = Len(results) + 1 /\ results'[Len(results) + 1] = r
        /\ \A k \in 1 .. Len(results) : results'[k] = results[k]
        /\ Len(results) \in Nat /\ Len(accepted) \in Nat
    BY ReturnTypes, WireFacts
  <1>2. Next1 = Len(results) + 1 /\ Next1' = Next1 + 1
    BY <1>1 DEF Next1
  <1>3. ASSUME NEW k \in 1 .. Len(results')
        PROVE  results'[k] = IF Len(accepted[k]) <= BufSize THEN accepted[k] ELSE TooLong
    <2>1. k \in 1 .. Len(results) \/ k = Next1
      BY <1>1, <1>2
    <2>. QED BY <1>1, <1>2, <2>1 DEF ByLength
  <1>4. Len(results') <= Len(accepted)
    BY <1>1, <1>2
  <1>. QED BY <1>1, <1>2, <1>3, <1>4 DEF ByLength

LEMMA ReadBodyKeepsPlaces ==
  ASSUME FramingInv, ReadBody
  PROVE  Places'
  <1>1. Types
    BY DEF FramingInv, Types
  <1>2. PICK off : Layout(off) /\ Reader(off)
    BY DEF FramingInv, Places
  <1>3. Layout(off)'
    BY <1>2, LayoutKept DEF ReadBody
  <1>4. /\ framer = "length" /\ pc = "body" /\ UNCHANGED <<framer, accepted, wire, size>>
    BY DEF ReadBody
  <1>5. ByLength(off)
    BY <1>2, <1>4 DEF Reader
  <1>6. /\ pos \in Nat /\ Len(wire) \in Nat /\ Left = Len(wire) - pos /\ wire \in Seq(Bytes)
        /\ Len(results) \in Nat /\ Len(accepted) \in Nat /\ size \in Nat /\ BufSize \in Nat
    BY <1>1, WireFacts
  <1>7. /\ Next1 \in 1 .. Len(accepted) /\ size = Len(accepted[Next1]) /\ pos = off[Next1] + 2
    BY <1>4, <1>5, <1>6 DEF ByLength, Next1
  <1> DEFINE m == accepted[Next1]
  <1>8. /\ m \in Seq(Bytes) /\ off[Next1] \in Nat /\ off[Next1 + 1] = off[Next1] + Size(m)
        /\ \A p \in 1 .. Size(m) :
             off[Next1] + p <= Len(wire) => wire[off[Next1] + p] = Coded(m, p)
    BY <1>1, <1>2, <1>7, PlaceFacts
  <1>9. size = Len(m)
    BY <1>7
  <1>10. Size(m) = size + 2 /\ \A q \in 1 .. size : Coded(m, q + 2) = m[q]
    <2>1. Size(m) = size + 2
      BY <1>4, <1>9 DEF Size
    <2>2. ASSUME NEW q \in 1 .. size PROVE Coded(m, q + 2) = m[q]
      <3>1. q + 2 # 1 /\ q + 2 # 2 /\ (q + 2) - 2 = q
        BY <1>6
      <3>. QED BY <1>4, <3>1 DEF Coded
    <2>. QED BY <2>1, <2>2
  <1> HIDE DEF m
  <1>13. off[Next1] \in Nat /\ Size(m) = size + 2 /\ off[Next1 + 1] = off[Next1] + (size + 2)
    BY <1>8, <1>10
  <1>14. pos = off[Next1] + 2 /\ size \in Nat
    BY <1>6, <1>7
  <1>11. CASE size > BufSize
    <2>1. /\ Left >= BufSize /\ pos' = pos + BufSize /\ pc' = "extra" /\ UNCHANGED results
      BY <1>11 DEF ReadBody
    <2>2. Next1' = Next1
      BY <2>1 DEF Next1
    <2>3. pos' = off[Next1'] + 2 + BufSize
      BY <1>6, <1>7, <1>8, <2>1, <2>2
    <2>4. Next1' <= Len(accepted') /\ size' = Len(accepted'[Next1'])
      BY <1>4, <1>7, <2>2
    <2>5. ByLength(off)'
      BY <1>4, <1>5, <2>1, <2>3, <2>4 DEF ByLength
    <2>. QED BY <1>3, <1>4, <2>5 DEF Reader, Places
  <1>12. CASE ~ size > BufSize
    <2> DEFINE r == SubSeq(wire, pos + 1, pos + size)
    <2>1. Left >= size /\ pos' = pos + size /\ Return(r)
      BY <1>12 DEF ReadBody
    <2>a. /\ pos' = pos + size /\ pos = off[Next1] + 2 /\ size \in Nat
          /\ pos + size <= Len(wire) /\ pos \in Nat /\ Len(wire) \in Nat
      BY <1>6, <1>14, <2>1
    <2>2. /\ r \in Seq(Bytes) /\ Len(r) = pos + size - pos
          /\ \A q \in 1 .. pos + size - pos : r[q] = wire[pos + q]
      <3>1. pos + size \in Nat /\ pos <= pos + size /\ pos + size <= Len(wire)
        BY <1>6, <2>1
      <3>. QED BY <1>6, <3>1, PartFacts
    <2> HIDE DEF r
    <2>3. Len(r) = size
      BY <1>6, <2>2
    <2>4. ASSUME NEW q \in 1 .. Len(r) PROVE r[q] = m[q]
      <3>1. q \in 1 .. size /\ q \in 1 .. pos + size - pos
        BY <1>6, <2>3
      <3>a. q \in Int /\ 1 <= q /\ q <= size
        BY <3>1, <2>a
      <3>b. q + 2 \in 1 .. Size(m)
        BY <1>13, <2>a, <3>a
      <3>c. off[Next1] + (q + 2) = pos + q /\ pos + q <= pos + size
        BY <1>13, <2>a, <3>a
      <3>d. off[Next1] + (q + 2) <= Len(wire)
        BY <2>a, <3>a, <3>c
      <3>2. q + 2 \in 1 .. Size(m) /\ off[Next1] + (q + 2) <= Len(wire)
            /\ off[Next1] + (q + 2) = pos + q
        BY <3>b, <3>c, <3>d
      <3>3. wire[pos + q] = Coded(m, q + 2)
        BY <1>8, <3>2
      <3>. QED BY <1>10, <2>2, <3>1, <3>3
    <2>5. r = m
      BY <1>8, <1>9, <2>2, <2>3, <2>4, SeqEqual
    <2>6. Len(accepted[Next1]) <= BufSize /\ r = accepted[Next1]
      BY <1>6, <1>7, <1>12, <2>5 DEF m
    <2>7. pos' = off[Next1 + 1]
      BY <1>13, <2>a
    <2>8. ByLength(off)'
      BY <1>1, <1>2, <1>4, <1>5, <1>7, <2>1, <2>2, <2>6, <2>7, LengthResult
    <2>. QED BY <1>3, <1>4, <2>8 DEF Reader, Places
  <1>. QED BY <1>11, <1>12

LEMMA ReadExtraKeepsPlaces ==
  ASSUME FramingInv, ReadExtra
  PROVE  Places'
  <1>1. Types /\ size > BufSize
    BY DEF FramingInv, Types, Large, ReadExtra
  <1>2. PICK off : Layout(off) /\ Reader(off)
    BY DEF FramingInv, Places
  <1>3. Layout(off)'
    BY <1>2, LayoutKept DEF ReadExtra
  <1>4. /\ framer = "length" /\ pc = "extra" /\ Return(TooLong)
        /\ UNCHANGED <<framer, accepted, wire, ended>>
        /\ \/ Left >= size - BufSize /\ pos' = pos + (size - BufSize)
           \/ Left < size - BufSize /\ ended # "no" /\ pos' = Len(wire)
    BY DEF ReadExtra, Short, Excess
  <1>5. ByLength(off)
    BY <1>2, <1>4 DEF Reader
  <1>6. /\ pos \in Nat /\ Len(wire) \in Nat /\ Left = Len(wire) - pos
        /\ Len(results) \in Nat /\ Len(accepted) \in Nat /\ size \in Nat /\ BufSize \in Nat
    BY <1>1, WireFacts
  <1>7. /\ Next1 \in 1 .. Len(accepted) /\ size = Len(accepted[Next1])
        /\ pos = off[Next1] + 2 + BufSize
    BY <1>4, <1>5, <1>6 DEF ByLength, Next1
  <1>8. off[Next1] \in Nat /\ off[Next1 + 1] = off[Next1] + (size + 2)
    BY <1>1, <1>2, <1>4, <1>7, PlaceFacts DEF Size
  <1>9. pos' = off[Next1 + 1] \/ AtEnd'
    <2>1. CASE pos' = pos + (size - BufSize)
      BY <1>4, <1>6, <1>7, <1>8, <2>1
    <2>2. CASE Left < size - BufSize /\ pos' = Len(wire)
      <3>1. ended = "killed"
        <4>1. SUFFICES ASSUME ended # "killed" PROVE FALSE
          OBVIOUS
        <4>2. off[Next1 + 1] <= Len(wire)
          BY <1>2, <1>7, <4>1, WholeOnWire
        <4>3. off[Next1] + (size + 2) <= Len(wire) /\ pos = off[Next1] + 2 + BufSize
              /\ Left = Len(wire) - pos /\ Left < size - BufSize
          BY <1>6, <1>7, <1>8, <2>2, <4>2
        <4>. QED BY ONLY <1>6, <1>8, <4>3
      <3>. QED BY <1>4, <2>2, <3>1 DEF AtEnd
    <2>. QED BY <1>4, <2>1, <2>2
  <1>10. ByLength(off)'
    <2>1. ~ Len(accepted[Next1]) <= BufSize
      BY <1>1, <1>6, <1>7
    <2>. QED BY <1>1, <1>2, <1>4, <1>5, <1>7, <1>9, <2>1, LengthResult
  <1>. QED BY <1>3, <1>4, <1>10 DEF Reader, Places

(* When waste[] is overrun the receiver is where it was.                   *)
LEMMA OverrunKeepsPlaces ==
  ASSUME FramingInv, Overrun
  PROVE  Places'
  <1>1. PICK off : Layout(off) /\ Reader(off)
    BY DEF FramingInv, Places
  <1>2. /\ framer = "length" /\ pc = "extra" /\ pc' = "overrun"
        /\ UNCHANGED <<framer, wire, ended, accepted, pos, size, results>>
    BY DEF Overrun
  <1>3. Layout(off)'
    BY <1>1, <1>2, LayoutKept DEF Overrun
  <1>4. ByLength(off)'
    BY <1>1, <1>2 DEF Reader, ByLength, Next1
  <1>. QED BY <1>2, <1>3, <1>4 DEF Reader, Places

-----------------------------------------------------------------------------
(* The types, action by action.                                            *)
LEMMA SenderKeepsTypes ==
  ASSUME Types, PutMsg \/ Close \/ Killed
  PROVE  Types'
  <1>1. /\ wire \in Seq(Bytes) /\ Len(wire) \in Nat /\ pos \in Nat /\ pos <= Len(wire)
        /\ accepted \in Seq(Message)
    BY WireFacts
  <1>2. UNCHANGED <<framer, goesOn, pos, buf, size, pc, results>>
    BY DEF PutMsg, Close, Killed
  <1>3. /\ wire' \in Seq(Bytes) /\ pos <= Len(wire') /\ Len(wire') \in Nat
        /\ accepted' \in Seq(Message) /\ ended' \in {"no", "closed", "killed"}
    <2>1. CASE PutMsg
      <3>1. PICK m \in Message :
              /\ IF framer = "delim" THEN PutDelim(m) ELSE PutLength(m)
              /\ accepted' = Append(accepted, m)
        BY <2>1 DEF PutMsg
      <3>2. PICK e \in Seq(Bytes) : wire' = wire \o e
        BY <3>1, PutFacts DEF Appended
      <3>3. accepted' \in Seq(Message)
        BY <1>1, <3>1, AppendProperties
      <3>4. Len(e) \in Nat /\ wire \o e \in Seq(Bytes) /\ Len(wire \o e) = Len(wire) + Len(e)
        BY <1>1, ConcatProperties
      <3>5. Len(wire') = Len(wire) + Len(e) /\ wire' \in Seq(Bytes)
        BY <3>2, <3>4
      <3>. QED BY <1>1, <2>1, <3>3, <3>4, <3>5 DEF PutMsg
    <2>2. CASE Close
      BY <1>1, <2>2 DEF Close
    <2>3. CASE Killed
      <3>1. PICK n \in pos .. Len(wire) : wire' = SubSeq(wire, 1, n)
        BY <2>3 DEF Killed
      <3>2. wire' = SubSeq(wire, 0 + 1, n) /\ n \in Nat /\ n <= Len(wire) /\ pos <= n
        BY <1>1, <3>1
      <3>3. wire' \in Seq(Bytes) /\ Len(wire') = n - 0
        BY <1>1, <3>2, PartFacts
      <3>. QED BY <1>1, <2>3, <3>2, <3>3 DEF Killed
    <2>. QED BY <2>1, <2>2, <2>3
  <1>4. pos' \in 0 .. Len(wire')
    BY <1>1, <1>2, <1>3
  <1>5. TypeOK'
    BY <1>2, <1>3, <1>4 DEF Types, TypeOK, Bytes
  <1>. QED BY <1>2, <1>5 DEF Types, Results, Large

(* The parts of TypeOK a receiver can disturb.                             *)
LEMMA ReceiverTypes ==
  ASSUME Types, UNCHANGED <<framer, goesOn, wire, ended, accepted>>,
         pos' \in 0 .. Len(wire), buf' \in Seq(Bytes),
         IF pc' \in {"extra", "overrun"} THEN Len(buf') = BufSize ELSE Len(buf') < BufSize,
         size' \in 0 .. Base * Base - 1,
         pc' \in {"head", "body", "extra", "stopped", "exited", "overrun"},
         Results', Large'
  PROVE  Types'
  BY DEF Types, TypeOK, Bytes

LEMMA ReceiverKeepsTypes ==
  ASSUME Types, Receive
  PROVE  Types'
  <1>1. /\ wire \in Seq(Bytes) /\ Len(wire) \in Nat /\ pos \in Nat /\ pos <= Len(wire)
        /\ Left = Len(wire) - pos /\ Left \in Nat
        /\ buf \in Seq(Bytes) /\ Len(buf) \in Nat /\ BufSize \in Nat /\ BufSize > 0
        /\ size \in Nat
    BY WireFacts
  <1>2. \A q \in 1 .. Len(wire) : wire[q] \in Bytes
    BY WireFacts
  <1>3. /\ size \in 0 .. Base * Base - 1 /\ Results
        /\ IF pc \in {"extra", "overrun"} THEN Len(buf) = BufSize ELSE Len(buf) < BufSize
    BY DEF Types, TypeOK
  <1>4. UNCHANGED <<framer, goesOn, wire, ended, accepted>>
    BY DEF Receive, GetEOF, GetDelim, GetOther, ReadEnds, ReadSize, ReadBody, ReadExtra, Overrun
  <1>14. pc' \notin {"extra", "overrun"} => Large'
    BY DEF Large
  <1>5. ASSUME NEW r \in Seq(Bytes) \cup {TooLong}, Return(r), pos' \in 0 .. Len(wire), UNCHANGED size
        PROVE  Types'
    <2>1. /\ Results' /\ buf' \in Seq(Bytes) /\ Len(buf') = 0 /\ pc' \in {"head", "stopped"}
      BY <1>5, ReturnTypes
    <2>2. pc' \notin {"extra", "overrun"} /\ pc' \in {"head", "stopped"}
      BY <2>1
    <2>3. Len(buf') < BufSize
      BY <1>1, <2>1
    <2>. QED BY <1>3, <1>4, <1>5, <1>14, <2>1, <2>2, <2>3, ReceiverTypes
  <1>6. CASE GetEOF
    <2>1. /\ pc = "head" /\ pc' \in {"stopped", "exited"}
          /\ UNCHANGED <<pos, buf, size, results>>
      BY <1>6 DEF GetEOF
    <2>2. pos' \in 0 .. Len(wire) /\ Results'
      BY <1>1, <1>3, <2>1 DEF Results
    <2>3. Len(buf') < BufSize /\ pc' \notin {"extra", "overrun"}
      BY <1>3, <2>1
    <2>. QED BY <1>1, <1>3, <1>4, <1>14, <2>1, <2>2, <2>3, ReceiverTypes
  <1>7. CASE GetDelim
    <2>1. Left > 0 /\ pos' = pos + 1 /\ Return(buf) /\ UNCHANGED size
      BY <1>7 DEF GetDelim
    <2>2. pos' \in 0 .. Len(wire)
      BY <1>1, <2>1
    <2>. QED BY <1>1, <1>5, <2>1, <2>2
  <1>8. CASE GetOther
    <2>1. Left > 0 /\ pos' = pos + 1 /\ UNCHANGED size /\ pc = "head"
      BY <1>8 DEF GetOther
    <2>2. pos' \in 0 .. Len(wire) /\ pos + 1 \in 1 .. Len(wire)
      BY <1>1, <2>1
    <2>3. CASE Len(buf) + 1 < BufSize
      <3>1. buf' = Append(buf, wire[pos + 1]) /\ UNCHANGED <<pc, results>>
        BY <1>8, <2>3 DEF GetOther
      <3>2. buf' \in Seq(Bytes) /\ Len(buf') = Len(buf) + 1
        <4>1. wire[pos + 1] \in Bytes
          BY <1>2, <2>2
        <4>. QED BY <1>1, <3>1, <4>1, AppendProperties
      <3>3. Len(buf') < BufSize /\ pc' = "head" /\ Results'
        BY <1>3, <2>1, <2>3, <3>1, <3>2 DEF Results
      <3>. QED BY <1>3, <1>4, <1>14, <2>1, <2>2, <3>2, <3>3, ReceiverTypes
    <2>4. CASE ~ Len(buf) + 1 < BufSize
      <3>1. Return(TooLong)
        BY <1>8, <2>4 DEF GetOther
      <3>. QED BY <1>5, <2>1, <2>2, <3>1
    <2>. QED BY <2>3, <2>4
  <1>9. CASE ReadEnds
    <2>1. /\ pc \in {"head", "body"} /\ pc' = "stopped" /\ pos' = Len(wire)
          /\ UNCHANGED <<buf, size, results>>
      BY <1>9 DEF ReadEnds
    <2>2. pos' \in 0 .. Len(wire) /\ Results' /\ Len(buf') < BufSize
      BY <1>1, <1>3, <2>1 DEF Results
    <2>. QED BY <1>1, <1>3, <1>4, <1>14, <2>1, <2>2, ReceiverTypes
  <1>10. CASE ReadSize
    <2>1. /\ Left >= 2 /\ pos' = pos + 2 /\ pc = "head" /\ pc' = "body"
          /\ size' = Base * wire[pos + 1] + wire[pos + 2] /\ UNCHANGED <<buf, results>>
      BY <1>10 DEF ReadSize
    <2>2. pos' \in 0 .. Len(wire) /\ pos + 1 \in 1 .. Len(wire) /\ pos + 2 \in 1 .. Len(wire)
      BY <1>1, <2>1
    <2>3. size' \in 0 .. Base * Base - 1
      BY <1>2, <2>1, <2>2, SizeOfTwoBytes
    <2>4. Results' /\ Len(buf') < BufSize
      BY <1>3, <2>1 DEF Results
    <2>. QED BY <1>1, <1>4, <1>14, <2>1, <2>2, <2>3, <2>4, ReceiverTypes
  <1>11. CASE ReadBody
    <2>1. CASE size > BufSize
      <3>1. /\ Left >= BufSize /\ pos' = pos + BufSize /\ pc' = "extra"
            /\ buf' = SubSeq(wire, pos + 1, pos + BufSize) /\ UNCHANGED <<size, results>>
        BY <1>11, <2>1 DEF ReadBody
      <3>2. pos' \in 0 .. Len(wire) /\ pos + BufSize \in Nat /\ pos <= pos + BufSize
            /\ pos + BufSize <= Len(wire) /\ pos + BufSize - pos = BufSize
        BY <1>1, <3>1
      <3>3. buf' \in Seq(Bytes) /\ Len(buf') = BufSize
        BY <1>1, <3>1, <3>2, PartFacts
      <3>4. Results' /\ Large'
        BY <1>3, <2>1, <3>1 DEF Results, Large
      <3>. QED BY <1>3, <1>4, <2>1, <3>1, <3>2, <3>3, <3>4, ReceiverTypes
    <2>2. CASE ~ size > BufSize
      <3>1. /\ Left >= size /\ pos' = pos + size /\ UNCHANGED size
            /\ Return(SubSeq(wire, pos + 1, pos + size))
        BY <1>11, <2>2 DEF ReadBody
      <3>2. pos' \in 0 .. Len(wire) /\ pos + size \in Nat /\ pos <= pos + size
            /\ pos + size <= Len(wire)
        BY <1>1, <3>1
      <3>3. SubSeq(wire, pos + 1, pos + size) \in Seq(Bytes)
        BY <1>1, <3>2, PartFacts
      <3>. QED BY <1>5, <3>1, <3>2, <3>3
    <2>. QED BY <2>1, <2>2
  <1>12. CASE ReadExtra
    <2>1. /\ size > BufSize /\ Return(TooLong) /\ UNCHANGED size
          /\ \/ Left >= size - BufSize /\ pos' = pos + (size - BufSize)
             \/ pos' = Len(wire)
      BY <1>12 DEF ReadExtra, Excess, Types, Large
    <2>2. pos' \in 0 .. Len(wire)
      BY <1>1, <2>1
    <2>. QED BY <1>5, <2>1, <2>2
  <1>13. CASE Overrun
    <2>1. /\ pc = "extra" /\ pc' = "overrun" /\ size - BufSize > Waste
          /\ UNCHANGED <<pos, buf, size, results>>
      BY <1>13 DEF Overrun, Excess
    <2>2. size' > BufSize + Waste
      BY <1>1, <2>1, FramingAssumption
    <2>3. Results' /\ Large'
      BY <1>3, <2>1, <2>2 DEF Results, Large
    <2>4. pos' \in 0 .. Len(wire) /\ buf' \in Seq(Bytes) /\ Len(buf') = BufSize
      BY <1>1, <1>3, <2>1
    <2>. QED BY <1>3, <1>4, <2>1, <2>3, <2>4, ReceiverTypes
  <1>. QED BY <1>6, <1>7, <1>8, <1>9, <1>10, <1>11, <1>12, <1>13 DEF Receive

(* The invariant.                                                          *)
LEMMA FramingInvHolds ==
  Spec => []FramingInv
  <1>1. Init => FramingInv
    <2> SUFFICES ASSUME Init PROVE FramingInv
      OBVIOUS
    <2>1. /\ wire = <<>> /\ accepted = <<>> /\ buf = <<>> /\ results = <<>>
          /\ ended = "no" /\ pos = 0 /\ size = 0 /\ pc = "head"
          /\ framer \in {"delim", "length"} /\ goesOn \in BOOLEAN
      BY DEF Init
    <2>2. Len(wire) = 0 /\ Len(accepted) = 0 /\ Len(buf) = 0 /\ Len(results) = 0
      BY <2>1
    <2>3. Base * Base - 1 >= 0 /\ BufSize > 0 /\ Base * Base - 1 \in Int
      BY FramingAssumption
    <2>4. TypeOK
      BY <2>1, <2>2, <2>3 DEF TypeOK
    <2>5. Results
      BY <2>1 DEF Results
    <2>6. PICK off : off = [k \in 1 .. 1 |-> 0]
      OBVIOUS
    <2>7. Layout(off)
      BY <2>1, <2>2, <2>6 DEF Layout
    <2>8. Reader(off)
      BY <2>1, <2>2, <2>6 DEF Reader, ByLength, ByDelim, InStep, Whole, Next1
    <2>. QED BY <2>1, <2>4, <2>5, <2>7, <2>8 DEF FramingInv, Large, Places
  <1>2. FramingInv /\ [Next]_vars => FramingInv'
    <2> SUFFICES ASSUME FramingInv, [Next]_vars PROVE FramingInv'
      OBVIOUS
    <2>1. Types
      BY DEF FramingInv, Types
    <2>2. Types' /\ Places' => FramingInv'
      BY DEF FramingInv, Types
    <2>3. CASE UNCHANGED vars
      <3>1. UNCHANGED <<framer, wire, ended, accepted, pos, buf, size, pc, results>>
        BY <2>3 DEF vars
      <3>2. Types'
        BY <2>1, <2>3 DEF vars, Types, TypeOK, Results, Large
      <3>3. PICK off : Layout(off) /\ Reader(off)
        BY DEF FramingInv, Places
      <3>4. Layout(off)'
        BY <3>1, <3>3, LayoutKept
      <3>5. Len(accepted') \in Nat /\ Len(accepted) <= Len(accepted')
        BY <2>1, <3>1, WireFacts
      <3>6. AtEnd => AtEnd'
        BY <3>1 DEF AtEnd
      <3>7. Reader(off)'
        BY <2>1, <3>1, <3>3, <3>5, <3>6, ReaderKept
      <3>. QED BY <2>2, <3>2, <3>4, <3>7 DEF Places
    <2>4. CASE PutMsg
      BY <2>1, <2>2, <2>4, SenderKeepsTypes, PutMsgKeepsPlaces
    <2>5. CASE Close
      BY <2>1, <2>2, <2>5, SenderKeepsTypes, CloseKeepsPlaces
    <2>6. CASE Killed
      BY <2>1, <2>2, <2>6, SenderKeepsTypes, KilledKeepsPlaces
    <2>7. CASE Receive
      <3>1. Types'
        BY <2>1, <2>7, ReceiverKeepsTypes
      <3>2. Places'
        BY <2>7, GetEOFKeepsPlaces, GetDelimKeepsPlaces, GetOtherKeepsPlaces, ReadEndsKeepsPlaces,
           ReadSizeKeepsPlaces, ReadBodyKeepsPlaces, ReadExtraKeepsPlaces, OverrunKeepsPlaces
           DEF Receive
      <3>. QED BY <2>2, <3>1, <3>2
    <2>. QED BY <2>3, <2>4, <2>5, <2>6, <2>7 DEF Next
  <1>. QED BY <1>1, <1>2, PTL DEF Spec

(* Whatever the messages, GetNextMsg() stores no more than bufSize bytes   *)
(* in buf, and as many only while LengthFramer.c reads what is too much    *)
(* into waste[] (which, unlike buf, may be overrun: StopsCorrect).         *)
THEOREM FramingTypeCorrect ==
  Spec => []TypeOK
  <1>1. FramingInv => TypeOK
    BY DEF FramingInv
  <1>. QED BY <1>1, FramingInvHolds, PTL

-----------------------------------------------------------------------------
(* The promise of Framer.h.  The first error of a sequence of results.     *)
LEMMA FirstErrorIs ==
  ASSUME NEW S, NEW s \in Seq(S), NEW k \in 1 .. Len(s), s[k] = TooLong,
         \A j \in 1 .. k - 1 : s[j] # TooLong
  PROVE  (CHOOSE j \in 1 .. Len(s) :
            s[j] = TooLong /\ ~Contains(SubSeq(s, 1, j - 1), TooLong)) = k
  <1>1. Len(s) \in Nat
    OBVIOUS
  <1>2. ASSUME NEW j \in 1 .. Len(s)
        PROVE  /\ Len(SubSeq(s, 1, j - 1)) = j - 1
               /\ \A q \in 1 .. j - 1 : SubSeq(s, 1, j - 1)[q] = s[q]
    <2>1. j - 1 \in Nat /\ 0 <= j - 1 /\ j - 1 <= Len(s) /\ j - 1 - 0 = j - 1
      BY <1>1
    <2>2. /\ Len(SubSeq(s, 0 + 1, j - 1)) = j - 1 - 0
          /\ \A q \in 1 .. j - 1 - 0 : SubSeq(s, 0 + 1, j - 1)[q] = s[0 + q]
      BY <2>1, PartOf
    <2>. QED BY <2>1, <2>2
  <1> DEFINE First(j) == s[j] = TooLong /\ ~Contains(SubSeq(s, 1, j - 1), TooLong)
  <1>3. First(k)
    BY <1>2 DEF Contains
  <1>4. ASSUME NEW j \in 1 .. Len(s), First(j) PROVE j = k
    <2>1. CASE j < k
      BY <1>4, <2>1
    <2>2. CASE j > k
      <3>1. k \in 1 .. j - 1
        BY <2>2
      <3>2. SubSeq(s, 1, j - 1)[k] = TooLong /\ k \in 1 .. Len(SubSeq(s, 1, j - 1))
        BY <1>2, <3>1
      <3>. QED BY <1>4, <3>2 DEF Contains
    <2>. QED BY <2>1, <2>2
  <1> HIDE DEF First
  <1>5. (CHOOSE j \in 1 .. Len(s) : First(j)) = k
    BY <1>3, <1>4
  <1>. QED BY <1>5 DEF First

(* A delimiter framer's receiver that is in step has met no error.         *)
LEMMA NoErrorInStep ==
  ASSUME Types, NEW off, InStep(off), NEW k \in 1 .. Len(results)
  PROVE  results[k] # TooLong
  <1>1. Len(results) \in Nat /\ Len(accepted) \in Nat
    BY WireFacts
  <1>2. results[k] = accepted[k] /\ k \in 1 .. Len(accepted)
    BY <1>1 DEF InStep, Whole
  <1>3. accepted[k] \in Message
    BY <1>2, WireFacts
  <1>. QED BY <1>2, <1>3, MessageFacts

(* GetNextMsg() returns: the channel delivers, or, behind the first error  *)
(* of a delimiter framer, nothing that Framer.h promised.                  *)
LEMMA ReturnIsGet ==
  ASSUME FramingInv, FramingInv', NEW r \in Seq(Bytes) \cup {TooLong}, Return(r),
         UNCHANGED <<framer, accepted>>
  PROVE  Channel!Get \/ UNCHANGED <<Limit, accepted, Kept>>
  <1>1. Types /\ Types'
    BY DEF FramingInv, Types
  <1>2. PICK off : Layout(off)' /\ Reader(off)'
    BY DEF FramingInv, Places
  <1>3. UNCHANGED Limit
    BY DEF Limit
  <1>4. /\ results' = Append(results, r) /\ Len(results') = Len(results) + 1
        /\ results'[Len(results) + 1] = r
        /\ \A k \in 1 .. Len(results) : results'[k] = results[k]
        /\ Len(results) \in Nat /\ Len(results') \in Nat /\ Len(accepted) \in Nat
        /\ BufSize \in Nat
    BY <1>1, ReturnTypes, WireFacts DEF Return
  <1>a. results \in Seq(Seq(Bytes) \cup {TooLong}) /\ results' \in Seq(Seq(Bytes) \cup {TooLong})
    BY <1>1 DEF Types, Results, Bytes
  <1> DEFINE N == Len(results) + 1
             m == accepted[N]
  <1>5. ASSUME Kept = results, Kept' = results', N <= Len(accepted),
               r = IF Len(m) <= Limit THEN m ELSE TooLong
        PROVE  Channel!Get
    <2>1. Len(Kept) < Len(accepted)
      BY <1>4, <1>5
    <2>2. Kept' = Append(Kept, IF Len(accepted[Len(Kept) + 1]) <= Limit
                               THEN accepted[Len(Kept) + 1] ELSE TooLong)
      BY <1>4, <1>5
    <2>. QED BY <1>3, <2>1, <2>2 DEF Channel!Get
  <1>6. ASSUME N <= Len(accepted) PROVE Len(m) \in Nat
    <2>1. N \in 1 .. Len(accepted)
      BY <1>4, <1>6
    <2>2. m \in Message
      BY <1>1, <2>1, WireFacts
    <2>. QED BY <2>2, MessageFacts
  <1>7. CASE framer = "length"
    <2>1. ByLength(off)'
      BY <1>2, <1>7 DEF Reader
    <2>2. Kept = results /\ Kept' = results' /\ Limit = BufSize
      BY <1>7 DEF Kept, Limit
    <2>3. N <= Len(accepted) /\ N \in 1 .. Len(results')
      BY <1>4, <2>1 DEF ByLength
    <2>4. r = IF Len(m) <= BufSize THEN m ELSE TooLong
      BY <1>4, <2>1, <2>3 DEF ByLength
    <2>. QED BY <1>5, <2>2, <2>3, <2>4
  <1>8. CASE framer = "delim"
    <2>1. ByDelim(off)' /\ Limit = BufSize - 1
      BY <1>2, <1>8 DEF Reader, Limit
    <2>2. PICK old : Layout(old) /\ ByDelim(old)
      BY <1>8 DEF FramingInv, Places, Reader
    <2>3. ASSUME NEW k \in 1 .. Len(results), FailedAt(k)
          PROVE  UNCHANGED <<Limit, accepted, Kept>>
      <3>1. k \in 1 .. Len(results') /\ results[k] = TooLong /\ results'[k] = TooLong
        BY <1>4, <2>3 DEF FailedAt
      <3>2. ASSUME NEW j \in 1 .. k - 1
            PROVE  results[j] # TooLong /\ results'[j] # TooLong
        <4>1. results[j] = accepted[j] /\ j \in 1 .. Len(accepted) /\ results'[j] = results[j]
          BY <1>4, <2>3 DEF FailedAt, Whole
        <4>2. accepted[j] \in Message
          BY <1>1, <4>1, WireFacts
        <4>. QED BY <4>1, <4>2, MessageFacts
      <3>3. Kept = SubSeq(results, 1, k)
        <4>1. Contains(results, TooLong)
          BY <3>1 DEF Contains
        <4>2. (CHOOSE j \in 1 .. Len(results) :
                 results[j] = TooLong /\ ~Contains(SubSeq(results, 1, j - 1), TooLong)) = k
          BY <1>a, <3>1, <3>2, FirstErrorIs
        <4>. QED BY <1>8, <4>1, <4>2 DEF Kept
      <3>4. Kept' = SubSeq(results', 1, k)
        <4>1. Contains(results', TooLong)
          BY <3>1 DEF Contains
        <4>2. (CHOOSE j \in 1 .. Len(results') :
                 results'[j] = TooLong /\ ~Contains(SubSeq(results', 1, j - 1), TooLong)) = k
          BY <1>a, <3>1, <3>2, FirstErrorIs
        <4>. QED BY <1>8, <4>1, <4>2 DEF Kept
      <3>5. SubSeq(results', 1, k) = SubSeq(results, 1, k)
        BY <1>4
      <3>. QED BY <1>3, <3>3, <3>4, <3>5
    <2>4. CASE InStep(old)
      <3>1. \A k \in 1 .. Len(results) : results[k] # TooLong
        BY <1>1, <2>4, NoErrorInStep
      <3>2. Kept = results
        BY <3>1 DEF Kept, Contains
      <3>3. CASE InStep(off)'
        <4>1. /\ N <= Len(accepted) /\ r = m /\ Len(m) < BufSize
          <5>1. N \in 1 .. Len(results') /\ Len(results') <= Len(accepted)
            BY <1>4, <3>3 DEF InStep, Whole
          <5>. QED BY <1>4, <3>3, <5>1 DEF InStep, Whole
        <4>2. r # TooLong
          <5>1. N \in 1 .. Len(accepted)
            BY <1>4, <4>1
          <5>2. m \in Message
            BY <1>1, <5>1, WireFacts
          <5>. QED BY <4>1, <5>2, MessageFacts
        <4>3. ASSUME NEW k \in 1 .. Len(results') PROVE results'[k] # TooLong
          <5>1. k \in 1 .. Len(results) \/ k = N
            BY <1>4
          <5>. QED BY <1>4, <3>1, <4>2, <5>1
        <4>4. Kept' = results'
          BY <4>3 DEF Kept, Contains
        <4>5. Len(m) <= Limit
          BY <1>4, <1>6, <2>1, <4>1
        <4>. QED BY <1>5, <3>2, <4>1, <4>4, <4>5
      <3>4. ASSUME NEW k \in 1 .. Len(results'), FailedAt(k)'
            PROVE  Channel!Get
        <4>1. k = N /\ results'[k] = TooLong
          <5>1. k \in 1 .. Len(results) \/ k = N
            BY <1>4
          <5>. QED BY <1>4, <3>1, <3>4, <5>1 DEF FailedAt
        <4>2. N <= Len(accepted) /\ Len(m) >= BufSize /\ r = TooLong
          BY <1>4, <3>4, <4>1 DEF FailedAt
        <4>3. ASSUME NEW j \in 1 .. k - 1 PROVE results'[j] # TooLong
          <5>1. j \in 1 .. Len(results)
            BY <1>4, <4>1
          <5>. QED BY <1>4, <3>1, <5>1
        <4>4. Kept' = SubSeq(results', 1, k)
          <5>1. Contains(results', TooLong)
            BY <4>1 DEF Contains
          <5>2. (CHOOSE j \in 1 .. Len(results') :
                   results'[j] = TooLong /\ ~Contains(SubSeq(results', 1, j - 1), TooLong)) = k
            BY <1>a, <4>1, <4>3, FirstErrorIs
          <5>. QED BY <1>8, <5>1, <5>2 DEF Kept
        <4>5. SubSeq(results', 1, k) = results'
          <5>1. k = Len(results')
            BY <1>4, <4>1
          <5>. QED BY <1>a, <5>1
        <4>6. ~ Len(m) <= Limit
          BY <1>4, <1>6, <2>1, <4>2
        <4>. QED BY <1>5, <3>2, <4>2, <4>4, <4>5, <4>6
      <3>. QED BY <2>1, <3>3, <3>4 DEF ByDelim
    <2>. QED BY <2>2, <2>3, <2>4 DEF ByDelim
  <1>9. framer \in {"delim", "length"}
    BY <1>1 DEF Types, TypeOK
  <1>. QED BY <1>7, <1>8, <1>9

(* Whatever the framer and wherever the stream is cut, what the receiver   *)
(* gets is what Framer.h promised it: the messages put, each whole and in  *)
(* their order, an error in the place of one that does not fit; of the     *)
(* delimiter framers this is so up to the first error.                     *)
THEOREM FramersImplementChannel ==
  Spec => ImplementsChannel
  <1>1. Init => Channel!Init
    <2> SUFFICES ASSUME Init PROVE Channel!Init
      OBVIOUS
    <2>1. results = <<>> /\ accepted = <<>>
      BY DEF Init
    <2>2. Len(results) = 0
      BY <2>1
    <2>3. Kept = <<>>
      BY <2>1, <2>2 DEF Kept, Contains
    <2>4. Limit \in Nat
      BY FramingAssumption DEF Limit
    <2>. QED BY <2>1, <2>3, <2>4 DEF Channel!Init
  <1>2. FramingInv /\ FramingInv' /\ [Next]_vars => [Channel!Next]_(Channel!channelVars)
    <2> SUFFICES ASSUME FramingInv, FramingInv', [Next]_vars
                 PROVE  Channel!Next \/ UNCHANGED <<Limit, accepted, Kept>>
      BY DEF Channel!channelVars
    <2>1. ASSUME UNCHANGED <<framer, accepted, results>>
          PROVE  UNCHANGED <<Limit, accepted, Kept>>
      BY <2>1 DEF Limit, Kept
    <2>2. ASSUME NEW r \in Seq(Bytes) \cup {TooLong}, Return(r), UNCHANGED <<framer, accepted>>
          PROVE  Channel!Next \/ UNCHANGED <<Limit, accepted, Kept>>
      BY <2>2, ReturnIsGet DEF Channel!Next
    <2>3. CASE UNCHANGED vars
      BY <2>1, <2>3 DEF vars
    <2>4. CASE PutMsg
      <3>1. PICK m \in Message : accepted' = Append(accepted, m)
        BY <2>4 DEF PutMsg
      <3>2. UNCHANGED <<Limit, Kept>>
        BY <2>4 DEF PutMsg, Limit, Kept
      <3>. QED BY <3>1, <3>2 DEF Channel!Next, Channel!Put
    <2>5. CASE Close \/ Killed
      BY <2>1, <2>5 DEF Close, Killed
    <2>6. CASE GetEOF \/ ReadEnds \/ ReadSize \/ Overrun
      BY <2>1, <2>6 DEF GetEOF, ReadEnds, ReadSize, Overrun
    <2>7. Types
      BY DEF FramingInv, Types
    <2>8. CASE GetDelim
      BY <2>2, <2>7, <2>8, WireFacts DEF GetDelim
    <2>9. CASE GetOther
      <3>1. UNCHANGED <<framer, accepted>> /\ (UNCHANGED results \/ Return(TooLong))
        BY <2>9 DEF GetOther
      <3>. QED BY <2>1, <2>2, <3>1
    <2>10. CASE ReadBody
      <3>1. UNCHANGED <<framer, accepted>>
        BY <2>10 DEF ReadBody
      <3>2. CASE size > BufSize
        <4>1. UNCHANGED results
          BY <2>10, <3>2 DEF ReadBody
        <4>. QED BY <2>1, <3>1, <4>1
      <3>3. CASE ~ size > BufSize
        <4>1. Return(SubSeq(wire, pos + 1, pos + size)) /\ Left >= size
          BY <2>10, <3>3 DEF ReadBody
        <4>2. /\ wire \in Seq(Bytes) /\ pos \in Nat /\ pos + size \in Nat /\ pos <= pos + size
              /\ pos + size <= Len(wire)
          BY <2>7, <4>1, WireFacts
        <4>3. SubSeq(wire, pos + 1, pos + size) \in Seq(Bytes)
          BY <4>2, PartFacts
        <4>. QED BY <2>2, <3>1, <4>1, <4>3
      <3>. QED BY <3>2, <3>3
    <2>11. CASE ReadExtra
      BY <2>2, <2>11 DEF ReadExtra
    <2>. QED BY <2>3, <2>4, <2>5, <2>6, <2>8, <2>9, <2>10, <2>11 DEF Next, Receive
  <1>. QED BY <1>1, <1>2, FramingInvHolds, PTL DEF Spec, ImplementsChannel, Channel!Spec

-----------------------------------------------------------------------------
(* What becomes of the messages that are too long.  First, flattening a    *)
(* sequence of sequences: Least gives induction, as a statement about the  *)
(* set of numbers for which something holds.                               *)
LEMMA Least ==
  ASSUME NEW T, T \subseteq Nat, T # {}
  PROVE  \E x \in T : \A y \in T : x <= y
  <1>1. IsWellFoundedOn(OpToRel(<, Nat), Nat)
    BY NatLessThanWellFounded
  <1>2. PICK x \in T : \A y \in T : ~ (<<y, x>> \in OpToRel(<, Nat))
    BY <1>1, WFMin
  <1>3. ASSUME NEW y \in T PROVE x <= y
    <2>1. ~ (y < x)
      BY <1>2 DEF OpToRel
    <2>2. x \in Nat /\ y \in Nat
      OBVIOUS
    <2>. QED BY <2>1, <2>2
  <1>. QED BY <1>3

LEMMA Course ==
  ASSUME NEW T, \A n \in Nat : (\A m \in Nat : m < n => m \in T) => n \in T
  PROVE  \A n \in Nat : n \in T
  <1>1. SUFFICES ASSUME Nat \ T # {} PROVE FALSE
    OBVIOUS
  <1>2. PICK x \in Nat \ T : \A y \in Nat \ T : x <= y
    BY <1>1, Least
  <1>3. \A m \in Nat : m < x => m \in T
    BY <1>2
  <1>. QED BY <1>2, <1>3

(* f[n] is the first n sequences of ss in one.                             *)
Joins(f, ss, S) ==
  /\ f \in [0 .. Len(ss) -> Seq(S)] /\ f[0] = <<>>
  /\ \A k \in 1 .. Len(ss) : f[k] = f[k - 1] \o ss[k]

LEMMA FlattenIs ==
  ASSUME NEW S, NEW ss \in Seq(Seq(S)), NEW f, Joins(f, ss, S)
  PROVE  FlattenSeq(ss) = f[Len(ss)]
  <1> DEFINE N == Len(ss)
             Flat(g) == g = [i \in 1 .. N |-> IF i = 1 THEN ss[i] ELSE g[i - 1] \o ss[i]]
  <1>1. N \in Nat /\ \A i \in 1 .. N : ss[i] \in Seq(S)
    BY ElementOfSeq
  <1>2. /\ f \in [0 .. N -> Seq(S)] /\ f[0] = <<>>
        /\ \A k \in 1 .. N : f[k] = f[k - 1] \o ss[k]
    BY DEF Joins
  <1>a. ASSUME 1 \in 1 .. N PROVE f[1] = ss[1]
    <2>1. f[1] = f[1 - 1] \o ss[1]
      BY <1>2, <1>a
    <2>2. f[1] = <<>> \o ss[1] /\ ss[1] \in Seq(S)
      <3>1. 1 - 1 = 0
        OBVIOUS
      <3>. QED BY <1>1, <1>2, <1>a, <2>1, <3>1
    <2>. QED BY <2>2, ConcatEmptySeq
  <1>3. CASE N = 0
    BY <1>1, <1>2, <1>3 DEF FlattenSeq
  <1>4. CASE N # 0
    <2> DEFINE g == [i \in 1 .. N |-> f[i]]
    <2>1. Flat(g)
      <3>1. ASSUME NEW i \in 1 .. N
            PROVE  f[i] = IF i = 1 THEN ss[i] ELSE g[i - 1] \o ss[i]
        <4>1. CASE i = 1
          BY <1>a, <4>1
        <4>2. CASE i # 1
          <5>1. i - 1 \in 1 .. N /\ g[i - 1] = f[i - 1]
            BY <1>1, <4>2
          <5>. QED BY <1>2, <4>2, <5>1
        <4>. QED BY <4>1, <4>2
      <3>. QED BY <3>1
    <2> DEFINE h == CHOOSE x : Flat(x)
    <2>2. Flat(h)
      <3> HIDE DEF g, Flat
      <3>. QED BY <2>1
    <2> HIDE DEF h
    <2>3. ASSUME NEW i \in 1 .. N
          PROVE  h[i] = IF i = 1 THEN ss[i] ELSE h[i - 1] \o ss[i]
      BY <2>2
    <2> DEFINE T == {n \in Nat : n \in 1 .. N => h[n] = f[n]}
    <2>4. ASSUME NEW n \in Nat, \A m \in Nat : m < n => m \in T PROVE n \in T
      <3>1. SUFFICES ASSUME n \in 1 .. N PROVE h[n] = f[n]
        OBVIOUS
      <3>2. h[n] = IF n = 1 THEN ss[n] ELSE h[n - 1] \o ss[n]
        BY <2>3, <3>1
      <3>3. CASE n = 1
        BY <1>a, <3>1, <3>2, <3>3
      <3>4. CASE n # 1
        <4>1. n - 1 \in Nat /\ n - 1 < n /\ n - 1 \in 1 .. N
          BY <1>1, <3>1, <3>4
        <4>2. h[n - 1] = f[n - 1]
          BY <2>4, <4>1
        <4>. QED BY <1>2, <3>1, <3>2, <3>4, <4>2
      <3>. QED BY <3>3, <3>4
    <2>5. \A n \in Nat : n \in T
      <3> HIDE DEF T
      <3>. QED BY <2>4, Course
    <2>6. h[N] = f[N]
      BY <1>1, <1>4, <2>5
    <2>7. FlattenSeq(ss) = h[N]
      BY <1>4 DEF FlattenSeq, h
    <2>. QED BY <2>6, <2>7
  <1>. QED BY <1>3, <1>4

(* How a sequence begins.                                                  *)
Begins(s, t) == Len(s) <= Len(t) /\ \A q \in 1 .. Len(s) : s[q] = t[q]

LEMMA BeginsConcat ==
  ASSUME NEW S, NEW s \in Seq(S), NEW t \in Seq(S)
  PROVE  Begins(s, s \o t)
  <1>1. /\ Len(s \o t) = Len(s) + Len(t)
        /\ \A i \in 1 .. Len(s) + Len(t) : (s \o t)[i] = IF i <= Len(s) THEN s[i] ELSE t[i - Len(s)]
    BY ConcatProperties
  <1>2. Len(s) \in Nat /\ Len(t) \in Nat
    OBVIOUS
  <1> DEFINE u == s \o t
  <1>3. /\ Len(u) = Len(s) + Len(t)
        /\ \A i \in 1 .. Len(s) + Len(t) : u[i] = IF i <= Len(s) THEN s[i] ELSE t[i - Len(s)]
    BY <1>1
  <1> HIDE DEF u
  <1>4. Begins(s, u)
    BY <1>2, <1>3 DEF Begins
  <1>. QED BY <1>4 DEF u

LEMMA BeginsTrans ==
  ASSUME NEW S, NEW s \in Seq(S), NEW t \in Seq(S), NEW u \in Seq(S),
         Begins(s, t), Begins(t, u)
  PROVE  Begins(s, u)
  BY DEF Begins

LEMMA BeginsBoth ==
  ASSUME NEW S, NEW s \in Seq(S), NEW t \in Seq(S), NEW u \in Seq(S), Begins(t, u)
  PROVE  Begins(s \o t, s \o u)
  <1> DEFINE x == s \o t
             y == s \o u
  <1>1. /\ Len(x) = Len(s) + Len(t)
        /\ \A i \in 1 .. Len(s) + Len(t) : x[i] = IF i <= Len(s) THEN s[i] ELSE t[i - Len(s)]
    BY ConcatProperties
  <1>2. /\ Len(y) = Len(s) + Len(u)
        /\ \A i \in 1 .. Len(s) + Len(u) : y[i] = IF i <= Len(s) THEN s[i] ELSE u[i - Len(s)]
    BY ConcatProperties
  <1>3. Len(s) \in Nat /\ Len(t) \in Nat /\ Len(u) \in Nat
    OBVIOUS
  <1> HIDE DEF x, y
  <1>4. Len(t) <= Len(u) /\ \A q \in 1 .. Len(t) : t[q] = u[q]
    BY DEF Begins
  <1>5. ASSUME NEW i \in 1 .. Len(x) PROVE x[i] = y[i]
    <2>1. CASE i <= Len(s)
      BY <1>1, <1>2, <1>3, <1>4, <2>1
    <2>2. CASE ~ i <= Len(s)
      <3>1. i - Len(s) \in 1 .. Len(t) /\ i \in 1 .. Len(s) + Len(u)
        BY <1>1, <1>3, <1>4, <2>2
      <3>. QED BY <1>1, <1>2, <1>4, <2>2, <3>1
    <2>. QED BY <2>1, <2>2
  <1>6. Len(x) <= Len(y)
    BY <1>1, <1>2, <1>3, <1>4
  <1>7. Begins(x, y)
    BY <1>5, <1>6 DEF Begins
  <1>. QED BY <1>7 DEF x, y

LEMMA BeginsIsPrefix ==
  ASSUME NEW S, NEW s \in Seq(S), NEW t \in Seq(S), Begins(s, t)
  PROVE  IsPrefix(s, t)
  <1>1. Len(s) \in Nat /\ Len(t) \in Nat /\ Len(s) <= Len(t)
    BY DEF Begins
  <1> DEFINE u == SubSeq(s, 0 + 1, Len(s))
             w == SubSeq(t, 0 + 1, Len(s))
  <1>2. /\ u \in Seq(S) /\ Len(u) = Len(s) - 0
        /\ \A q \in 1 .. Len(s) - 0 : u[q] = s[0 + q]
    BY <1>1, PartOf
  <1>3. /\ w \in Seq(S) /\ Len(w) = Len(s) - 0
        /\ \A q \in 1 .. Len(s) - 0 : w[q] = t[0 + q]
    BY <1>1, PartOf
  <1>4. u = w
    <2> HIDE DEF u, w
    <2>1. Len(u) = Len(w)
      BY <1>2, <1>3
    <2>2. ASSUME NEW q \in 1 .. Len(u) PROVE u[q] = w[q]
      <3>1. q \in 1 .. Len(s) /\ q \in 1 .. Len(s) - 0 /\ 0 + q = q
        BY <1>1, <1>2
      <3>2. s[q] = t[q]
        BY <3>1 DEF Begins
      <3>. QED BY <1>2, <1>3, <3>1, <3>2
    <2>. QED BY <1>2, <1>3, <2>1, <2>2, SeqEqual
  <1>. QED BY <1>1, <1>4 DEF IsPrefix

-----------------------------------------------------------------------------
(* The pieces.  f[k] is what the first k messages become; of the message   *)
(* behind those the receiver of a delimiter framer has had e errors and    *)
(* then what is in buf.                                                    *)
Result == Seq(Bytes) \cup {TooLong}

Errors(e) == [k \in 1 .. e |-> TooLong]

Built(f) ==
  /\ f \in [0 .. Len(accepted) -> Seq(Result)] /\ f[0] = <<>>
  /\ \A k \in 1 .. Len(accepted) : f[k] = f[k - 1] \o Pieces(accepted[k])
  /\ \A k \in 0 .. Len(accepted) : Begins(f[k], f[Len(accepted)])

Returned(f, n, e) ==
  /\ n \in 0 .. Len(accepted) /\ e \in Nat
  /\ results = f[n] \o Errors(e)
  /\ e > 0 => framer = "delim" /\ n < Len(accepted) /\ e * BufSize <= Len(accepted[n + 1])
  /\ framer = "length" => n = Len(results)

InHand(off, n, e) ==
  framer = "delim" /\ pc = "head" =>
    /\ pos = off[n + 1] + e * BufSize + Len(buf)
    /\ buf # <<>> => /\ n < Len(accepted) /\ e * BufSize + Len(buf) <= Len(accepted[n + 1])
                     /\ \A q \in 1 .. Len(buf) : buf[q] = accepted[n + 1][e * BufSize + q]

Pieced ==
  \E off, f, n, e : Layout(off) /\ Built(f) /\ Returned(f, n, e) /\ InHand(off, n, e)

LEMMA ErrorFacts ==
  ASSUME NEW e \in Nat
  PROVE  /\ Errors(e) \in Seq(Result) /\ Len(Errors(e)) = e
         /\ \A k \in 1 .. e : Errors(e)[k] = TooLong
         /\ Append(Errors(e), TooLong) = Errors(e + 1)
         /\ Errors(0) = <<>>
  <1>1. /\ Errors(e) \in Seq(Result) /\ Len(Errors(e)) = e
        /\ \A k \in 1 .. e : Errors(e)[k] = TooLong
    BY DEF Errors, Result
  <1>2. /\ Errors(e + 1) \in Seq(Result) /\ Len(Errors(e + 1)) = e + 1
        /\ \A k \in 1 .. e + 1 : Errors(e + 1)[k] = TooLong
    BY DEF Errors, Result
  <1>3. Append(Errors(e), TooLong) = Errors(e + 1)
    <2>1. TooLong \in Result
      BY DEF Result
    <2> DEFINE u == Append(Errors(e), TooLong)
               w == Errors(e + 1)
    <2>2. /\ u \in Seq(Result) /\ Len(u) = e + 1
          /\ \A i \in 1 .. e : u[i] = TooLong
          /\ u[e + 1] = TooLong
      BY <1>1, <2>1, AppendProperties
    <2> HIDE DEF u, w
    <2>3. w \in Seq(Result) /\ Len(w) = e + 1 /\ \A k \in 1 .. e + 1 : w[k] = TooLong
      BY <1>2 DEF w
    <2>4. \A i \in 1 .. Len(u) : u[i] = w[i]
      BY <2>2, <2>3
    <2>5. u = w
      BY <2>2, <2>3, <2>4, SeqEqual
    <2>. QED BY <2>5 DEF u, w
  <1>4. Errors(0) = <<>>
    <2>1. Errors(0) \in Seq(Result) /\ Len(Errors(0)) = 0
      BY DEF Errors, Result
    <2>. QED BY <2>1
  <1>. QED BY <1>1, <1>3, <1>4

(* Whole buffers of a message, and what is left of it.                     *)
LEMMA Buffers ==
  ASSUME NEW n \in Nat, NEW b \in Nat, b > 0
  PROVE  /\ n \div b \in Nat /\ n % b \in Nat /\ n % b < b /\ n % b <= n
         /\ \A e \in Nat : e * b <= n => e <= n \div b
         /\ \A e, r \in Nat : e * b + r = n /\ r < b => n \div b = e /\ n % b = r
  <1>1. n \div b \in Nat /\ n % b \in 0 .. b - 1 /\ n = b * (n \div b) + (n % b)
    OBVIOUS
  <1> DEFINE d == n \div b
             t == n % b
  <1>2. d \in Nat /\ t \in 0 .. b - 1 /\ n = b * d + t
    BY <1>1
  <1> HIDE DEF d, t
  <1>3. ASSUME NEW e \in Nat, e * b <= n PROVE e <= d
    <2>1. SUFFICES ASSUME e >= d + 1 PROVE FALSE
      BY <1>2
    <2>2. e * b >= (d + 1) * b
      BY <1>2, <2>1
    <2>3. (d + 1) * b = b * d + b
      BY <1>2
    <2>4. e * b \in Nat /\ b * d \in Nat /\ (d + 1) * b \in Nat
      BY <1>2
    <2>. QED BY <1>2, <1>3, <2>2, <2>3, <2>4
  <1>4. ASSUME NEW e \in Nat, NEW r \in Nat, e * b + r = n, r < b PROVE d = e /\ t = r
    <2>1. e * b \in Nat /\ b * d \in Nat /\ b * e = e * b
      BY <1>2
    <2>2. e <= d
      BY <1>3, <1>4, <2>1
    <2>3. e >= d
      <3>1. SUFFICES ASSUME d >= e + 1 PROVE FALSE
        BY <1>2
      <3>2. b * d >= b * (e + 1)
        BY <1>2, <3>1
      <3>3. b * (e + 1) = b * e + b /\ b * (e + 1) \in Nat
        BY <1>2
      <3>. QED BY <1>2, <1>4, <2>1, <3>2, <3>3
    <2>4. d = e
      BY <1>2, <2>2, <2>3
    <2>5. b * d = e * b
      BY <2>1, <2>4
    <2>. QED BY <1>2, <1>4, <2>1, <2>4, <2>5
  <1>5. t <= n
    <2>1. b * d \in Nat
      BY <1>2
    <2>. QED BY <1>2, <2>1
  <1>. QED BY <1>2, <1>3, <1>4, <1>5 DEF d, t

LEMMA PiecesFacts ==
  ASSUME NEW m \in Seq(Bytes), NEW e \in Nat
  PROVE  /\ Pieces(m) \in Seq(Result)
         /\ framer = "delim" /\ e * BufSize <= Len(m) => Begins(Errors(e), Pieces(m))
         /\ framer # "delim" => Pieces(m) = <<IF Len(m) <= BufSize THEN m ELSE TooLong>>
         /\ framer = "delim" => \A r \in Nat :
              e * BufSize + r = Len(m) /\ r < BufSize => Pieces(m) = Errors(e) \o <<LastN(m, r)>>
  <1>1. Len(m) \in Nat /\ BufSize \in Nat /\ BufSize > 0
    BY FramingAssumption
  <1> DEFINE d == Len(m) \div BufSize
             t == Len(m) % BufSize
  <1>2. /\ d \in Nat /\ t \in Nat /\ t < BufSize /\ t <= Len(m)
        /\ e * BufSize <= Len(m) => e <= d
        /\ \A r \in Nat : e * BufSize + r = Len(m) /\ r < BufSize => d = e /\ t = r
    BY <1>1, Buffers
  <1>3. CASE framer = "delim"
    <2>1. Pieces(m) = Errors(d) \o <<LastN(m, t)>>
      BY <1>3 DEF Pieces, Errors
    <2> HIDE DEF d, t
    <2>2. LastN(m, t) \in Result
      <3>1. Len(m) - t \in Nat /\ Len(m) - t <= Len(m)
        BY <1>1, <1>2
      <3>2. SubSeq(m, Len(m) - t + 1, Len(m)) \in Seq(Bytes)
        BY <1>1, <3>1, PartFacts
      <3>. QED BY <3>2 DEF LastN, Result
    <2> DEFINE x == LastN(m, t)
               l == <<x>>
    <2>3. l \in Seq(Result)
      BY <2>2
    <2>4. Errors(d) \in Seq(Result) /\ Len(Errors(d)) = d /\ \A k \in 1 .. d : Errors(d)[k] = TooLong
      BY <1>2, ErrorFacts
    <2>5. Pieces(m) \in Seq(Result) /\ Begins(Errors(d), Pieces(m))
      <3> HIDE DEF l
      <3>1. Pieces(m) = Errors(d) \o l
        BY <2>1 DEF l
      <3>. QED BY <2>3, <2>4, <3>1, ConcatProperties, BeginsConcat
    <2>6. ASSUME e * BufSize <= Len(m) PROVE Begins(Errors(e), Pieces(m))
      <3>1. Errors(e) \in Seq(Result) /\ Len(Errors(e)) = e /\ \A k \in 1 .. e : Errors(e)[k] = TooLong
        BY ErrorFacts
      <3>2. e <= d
        BY <1>2, <2>6
      <3>3. Begins(Errors(e), Errors(d))
        BY <1>2, <2>4, <3>1, <3>2 DEF Begins
      <3>. QED BY <2>4, <2>5, <3>1, <3>3, BeginsTrans
    <2>7. ASSUME NEW r \in Nat, e * BufSize + r = Len(m), r < BufSize
          PROVE  Pieces(m) = Errors(e) \o <<LastN(m, r)>>
      <3>1. d = e /\ t = r
        BY <1>2, <2>7
      <3>. QED BY <2>1, <3>1
    <2>. QED BY <1>3, <2>5, <2>6, <2>7
  <1>4. CASE framer # "delim"
    <2>1. Pieces(m) = <<IF Len(m) <= BufSize THEN m ELSE TooLong>>
      BY <1>4 DEF Pieces
    <2>2. (IF Len(m) <= BufSize THEN m ELSE TooLong) \in Result
      BY DEF Result
    <2>. QED BY <1>4, <2>1, <2>2
  <1>. QED BY <1>3, <1>4

(* Layout leaves no choice of the places.                                  *)
LEMMA SamePlaces ==
  ASSUME Types, NEW off, Layout(off), NEW off2, Layout(off2)', UNCHANGED framer,
         Len(accepted') \in Nat, Len(accepted) <= Len(accepted'),
         \A k \in 1 .. Len(accepted) : accepted'[k] = accepted[k]
  PROVE  \A k \in 1 .. Len(accepted) + 1 : off2[k] = off[k]
  <1> DEFINE A == Len(accepted)
  <1>1. A \in Nat
    BY WireFacts
  <1>2. off[1] = 0 /\ \A k \in 1 .. A : off[k + 1] = off[k] + Size(accepted[k])
    BY DEF Layout
  <1>3. off2[1] = 0 /\ \A k \in 1 .. A : off2[k + 1] = off2[k] + Size(accepted[k])
    <2>1. \A x : Size(x)' = Size(x)
      BY DEF Size
    <2>2. off2[1] = 0 /\ \A k \in 1 .. Len(accepted') : off2[k + 1] = off2[k] + Size(accepted[k])'
      BY DEF Layout
    <2>3. ASSUME NEW k \in 1 .. A PROVE off2[k + 1] = off2[k] + Size(accepted[k])
      <3>1. k \in 1 .. Len(accepted') /\ accepted'[k] = accepted[k]
        BY <1>1
      <3>2. off2[k + 1] = off2[k] + Size(accepted[k])'
        BY <2>2, <3>1
      <3>3. Size(accepted[k])' = Size(accepted[k])
        BY <3>1 DEF Size
      <3>. QED BY <3>2, <3>3
    <2>. QED BY <2>2, <2>3
  <1> DEFINE T == {k \in Nat : k \in 1 .. A + 1 => off2[k] = off[k]}
  <1>4. ASSUME NEW k \in Nat, \A j \in Nat : j < k => j \in T PROVE k \in T
    <2>1. SUFFICES ASSUME k \in 1 .. A + 1 PROVE off2[k] = off[k]
      OBVIOUS
    <2>2. CASE k = 1
      BY <1>2, <1>3, <2>2
    <2>3. CASE k # 1
      <3>1. k - 1 \in Nat /\ k - 1 < k /\ k - 1 \in 1 .. A /\ k - 1 \in 1 .. A + 1
            /\ (k - 1) + 1 = k
        BY <1>1, <2>1, <2>3
      <3>2. off2[k - 1] = off[k - 1]
        BY <1>4, <3>1
      <3>3. /\ off[(k - 1) + 1] = off[k - 1] + Size(accepted[k - 1])
            /\ off2[(k - 1) + 1] = off2[k - 1] + Size(accepted[k - 1])
        BY <1>2, <1>3, <3>1
      <3>. QED BY <3>1, <3>2, <3>3
    <2>. QED BY <2>2, <2>3
  <1>5. \A k \in Nat : k \in T
    <2> HIDE DEF T
    <2>. QED BY <1>4, Course
  <1>. QED BY <1>1, <1>5

LEMMA SameLayout ==
  ASSUME FramingInv, FramingInv', UNCHANGED <<framer, accepted>>, NEW off, Layout(off)
  PROVE  Layout(off)'
  <1>1. Types
    BY DEF FramingInv, Types
  <1>2. PICK off2 : Layout(off2)'
    BY DEF FramingInv, Places
  <1>3. Len(accepted) \in Nat
    BY <1>1, WireFacts
  <1>4. \A k \in 1 .. Len(accepted) + 1 : off2[k] = off[k]
    BY <1>1, <1>2, <1>3, SamePlaces
  <1>5. off \in [1 .. Len(accepted) + 1 -> Nat] /\ off2 \in [1 .. Len(accepted) + 1 -> Nat]
    BY <1>2 DEF Layout
  <1>6. off2 = off
    BY <1>4, <1>5
  <1>. QED BY <1>2, <1>6

LEMMA BuiltKept ==
  ASSUME NEW f, Built(f), UNCHANGED <<framer, accepted>>
  PROVE  Built(f)'
  <1>1. \A m : Pieces(m)' = Pieces(m)
    BY DEF Pieces, LastN
  <1>. QED BY <1>1 DEF Built

LEMMA PutMsgKeepsPieced ==
  ASSUME FramingInv, FramingInv', Pieced, PutMsg
  PROVE  Pieced'
  <1> DEFINE A == Len(accepted)
  <1>1. Types
    BY DEF FramingInv, Types
  <1>2. PICK off, f, n, e : Layout(off) /\ Built(f) /\ Returned(f, n, e) /\ InHand(off, n, e)
    BY DEF Pieced
  <1>3. PICK off2 : Layout(off2)'
    BY DEF FramingInv, Places
  <1>4. PICK m \in Message : accepted' = Append(accepted, m)
    BY DEF PutMsg
  <1>5. UNCHANGED <<framer, goesOn, ended, pos, buf, size, pc, results>>
    BY DEF PutMsg
  <1>6. /\ A \in Nat /\ Len(accepted') = A + 1 /\ accepted'[A + 1] = m
        /\ \A k \in 1 .. A : accepted'[k] = accepted[k]
    BY <1>1, <1>4, WireFacts, AppendProperties
  <1>7. \A k \in 1 .. A + 1 : off2[k] = off[k]
    BY <1>1, <1>2, <1>3, <1>5, <1>6, SamePlaces
  <1>8. /\ f \in [0 .. A -> Seq(Result)] /\ f[0] = <<>>
        /\ \A k \in 1 .. A : f[k] = f[k - 1] \o Pieces(accepted[k])
        /\ \A k \in 0 .. A : Begins(f[k], f[A])
    BY <1>2 DEF Built
  <1>9. PICK x : x = Pieces(m)
    OBVIOUS
  <1>10. x \in Seq(Result)
    BY <1>9, MessageFacts, PiecesFacts
  <1>11. PICK f2 : f2 = [k \in 0 .. A + 1 |-> IF k = A + 1 THEN f[A] \o x ELSE f[k]]
    OBVIOUS
  <1>12. /\ f[A] \in Seq(Result) /\ f[A] \o x \in Seq(Result) /\ Begins(f[A], f[A] \o x)
         /\ f2[A + 1] = f[A] \o x
         /\ \A k \in 0 .. A : f2[k] = f[k] /\ f[k] \in Seq(Result)
    <2>1. f[A] \in Seq(Result)
      BY <1>6, <1>8
    <2>2. f[A] \o x \in Seq(Result) /\ Begins(f[A], f[A] \o x)
      BY <1>10, <2>1, ConcatProperties, BeginsConcat
    <2>3. ASSUME NEW k \in 0 .. A PROVE f2[k] = f[k] /\ f[k] \in Seq(Result)
      BY <1>6, <1>8, <1>11
    <2>4. f2[A + 1] = f[A] \o x
      <3>1. A + 1 \in 0 .. A + 1
        BY <1>6
      <3>. QED BY <1>11, <3>1
    <2>. QED BY <2>1, <2>2, <2>3, <2>4
  <1>13. \A y : Pieces(y)' = Pieces(y)
    BY <1>5 DEF Pieces, LastN
  <1>14. Built(f2)'
    <2>1. f2 \in [0 .. A + 1 -> Seq(Result)]
      <3>1. ASSUME NEW k \in 0 .. A + 1
            PROVE  (IF k = A + 1 THEN f[A] \o x ELSE f[k]) \in Seq(Result)
        <4>1. k # A + 1 => k \in 0 .. A
          BY <1>6
        <4>. QED BY <1>12, <4>1
      <3>. QED BY <1>11, <3>1
    <2>2. f2[0] = <<>>
      BY <1>6, <1>8, <1>12
    <2>3. ASSUME NEW k \in 1 .. A + 1 PROVE f2[k] = f2[k - 1] \o Pieces(accepted[k])'
      <3>1. k - 1 \in 0 .. A /\ f2[k - 1] = f[k - 1]
        BY <1>6, <1>12
      <3>2. Pieces(accepted[k])' = Pieces(accepted'[k])
        BY <1>13, <1>5 DEF Pieces, LastN
      <3>3. CASE k \in 1 .. A
        <4>1. k \in 0 .. A /\ f2[k] = f[k] /\ accepted'[k] = accepted[k]
          BY <1>6, <1>12, <3>3
        <4>2. f[k] = f[k - 1] \o Pieces(accepted[k])
          BY <1>8, <3>3
        <4>. QED BY <3>1, <3>2, <4>1, <4>2
      <3>4. CASE k \notin 1 .. A
        <4>1. k = A + 1 /\ k - 1 = A
          BY <1>6, <3>4
        <4>. QED BY <1>6, <1>9, <1>12, <3>1, <3>2, <4>1
      <3>. QED BY <3>3, <3>4
    <2>4. ASSUME NEW k \in 0 .. A + 1 PROVE Begins(f2[k], f2[A + 1])
      <3>1. CASE k \in 0 .. A
        <4>1. Begins(f[k], f[A]) /\ f[k] \in Seq(Result) /\ f2[k] = f[k]
          BY <1>8, <1>12, <3>1
        <4>. QED BY <1>12, <4>1, BeginsTrans
      <3>2. CASE k \notin 0 .. A
        <4>1. k = A + 1
          BY <1>6, <3>2
        <4>2. Len(f[A] \o x) \in Nat
          BY <1>12
        <4>. QED BY <1>12, <4>1, <4>2 DEF Begins
      <3>. QED BY <3>1, <3>2
    <2>. QED BY <1>6, <2>1, <2>2, <2>3, <2>4 DEF Built
  <1>15. /\ n \in 0 .. A /\ e \in Nat /\ n \in 0 .. A + 1 /\ n + 1 \in 1 .. A + 1
         /\ n < A => n < A + 1 /\ accepted'[n + 1] = accepted[n + 1]
         /\ f2[n] = f[n] /\ off2[n + 1] = off[n + 1]
    <2>1. n \in 0 .. A /\ e \in Nat
      BY <1>2 DEF Returned
    <2>2. n \in 0 .. A + 1 /\ n + 1 \in 1 .. A + 1 /\ (n < A => n < A + 1 /\ n + 1 \in 1 .. A)
      BY <1>6, <2>1
    <2>. QED BY <1>6, <1>7, <1>12, <2>1, <2>2
  <1>16. Returned(f2, n, e)'
    BY <1>2, <1>5, <1>6, <1>15 DEF Returned, Errors
  <1>17. InHand(off2, n, e)'
    BY <1>2, <1>5, <1>6, <1>15 DEF InHand
  <1>. QED BY <1>3, <1>14, <1>16, <1>17 DEF Pieced

(* Steps that return nothing and leave the receiver where it is.           *)
LEMMA QuietKeepsPieced ==
  ASSUME FramingInv, FramingInv', Pieced, UNCHANGED <<framer, accepted, results>>,
         framer = "delim" /\ pc' = "head" => UNCHANGED <<pos, buf, pc>>
  PROVE  Pieced'
  <1>1. PICK off, f, n, e : Layout(off) /\ Built(f) /\ Returned(f, n, e) /\ InHand(off, n, e)
    BY DEF Pieced
  <1>2. Layout(off)' /\ Built(f)'
    BY <1>1, SameLayout, BuiltKept
  <1>3. Returned(f, n, e)'
    BY <1>1 DEF Returned, Errors
  <1>4. InHand(off, n, e)'
    BY <1>1 DEF InHand
  <1>. QED BY <1>2, <1>3, <1>4 DEF Pieced

(* A result behind those of f[n] and e errors.                             *)
LEMMA OneMore ==
  ASSUME NEW s \in Seq(Result), NEW e \in Nat, NEW r \in Result,
         NEW x \in Seq(Result), x = Errors(e) \o <<r>>
  PROVE  Append(s \o Errors(e), r) = s \o x /\ s \o x = (s \o x) \o Errors(0)
  <1>1. Errors(e) \in Seq(Result) /\ <<r>> \in Seq(Result) /\ Errors(0) = <<>>
    <2>1. Errors(e) \in Seq(Result) /\ Errors(0) = <<>>
      BY ErrorFacts
    <2>2. <<r>> \in Seq(Result)
      OBVIOUS
    <2>. QED BY <2>1, <2>2
  <1> DEFINE y == Errors(e)
             l == <<r>>
  <1>2. s \o y \in Seq(Result) /\ s \o x \in Seq(Result)
    BY <1>1, ConcatProperties
  <1>3. Append(s \o y, r) = (s \o y) \o l
    BY <1>2, AppendIsConcat
  <1>4. (s \o y) \o l = s \o (y \o l)
    <2>1. y \in Seq(Result) /\ l \in Seq(Result)
      BY <1>1
    <2> HIDE DEF y, l
    <2>. QED BY <2>1, ConcatAssociative
  <1>5. (s \o x) \o Errors(0) = s \o x
    BY <1>1, <1>2, ConcatEmptySeq
  <1>. QED BY <1>3, <1>4, <1>5

LEMMA OneError ==
  ASSUME NEW s \in Seq(Result), NEW e \in Nat
  PROVE  Append(s \o Errors(e), TooLong) = s \o Errors(e + 1)
  <1>1. TooLong \in Result /\ Errors(e) \in Seq(Result)
    BY ErrorFacts DEF Result
  <1> DEFINE y == Errors(e)
             l == <<TooLong>>
  <1>2. s \o y \in Seq(Result) /\ l \in Seq(Result)
    BY <1>1, ConcatProperties
  <1>3. Append(s \o y, TooLong) = (s \o y) \o l
    BY <1>1, <1>2, AppendIsConcat
  <1>4. (s \o y) \o l = s \o (y \o l)
    <2>1. y \in Seq(Result)
      BY <1>1
    <2> HIDE DEF y, l
    <2>. QED BY <1>2, <2>1, ConcatAssociative
  <1>5. Append(y, TooLong) = y \o l
    BY <1>1, AppendIsConcat
  <1>6. Append(y, TooLong) = Errors(e + 1)
    BY ErrorFacts
  <1>7. s \o (y \o l) = s \o Errors(e + 1)
    BY <1>5, <1>6, Zenon
  <1>. QED BY <1>3, <1>4, <1>7, Zenon

(* What is next on the wire for a delimiter framer.                        *)
LEMMA NextInPiece ==
  ASSUME Types, NEW off, Layout(off), NEW f, NEW n, NEW e, Built(f), Returned(f, n, e), InHand(off, n, e),
         framer = "delim", pc = "head", Left > 0, NEW d, d = e * BufSize
  PROVE  /\ n + 1 \in 1 .. Len(accepted) /\ d \in Nat /\ pos = off[n + 1] + d + Len(buf)
         /\ d + Len(buf) <= Len(accepted[n + 1])
         /\ \A q \in 1 .. Len(buf) : buf[q] = accepted[n + 1][d + q]
         /\ off[n + 1] \in Nat /\ off[(n + 1) + 1] = off[n + 1] + Len(accepted[n + 1]) + 1
         /\ accepted[n + 1] \in Seq(Bytes) /\ Len(accepted[n + 1]) \in Nat
         /\ IF d + Len(buf) = Len(accepted[n + 1]) THEN wire[pos + 1] = DELIM
            ELSE wire[pos + 1] = accepted[n + 1][d + Len(buf) + 1] /\ wire[pos + 1] # DELIM
  <1>1. /\ Len(accepted) \in Nat /\ Len(wire) \in Nat /\ Len(buf) \in Nat /\ BufSize \in Nat
        /\ pos \in Nat /\ pos < Len(wire)
    BY WireFacts
  <1>2. n \in 0 .. Len(accepted) /\ e \in Nat
        /\ (e > 0 => n < Len(accepted) /\ d <= Len(accepted[n + 1]))
    BY DEF Returned
  <1>3. d \in Nat /\ (e = 0 => d = 0)
    BY <1>1, <1>2
  <1>4. /\ pos = off[n + 1] + d + Len(buf)
        /\ buf # <<>> => /\ n < Len(accepted) /\ d + Len(buf) <= Len(accepted[n + 1])
                         /\ \A q \in 1 .. Len(buf) : buf[q] = accepted[n + 1][d + q]
    BY DEF InHand
  <1>5. buf = <<>> => Len(buf) = 0
    OBVIOUS
  <1>6. off[n + 1] \in Nat
    <2>1. off \in [1 .. Len(accepted) + 1 -> Nat]
      BY DEF Layout
    <2>2. n + 1 \in 1 .. Len(accepted) + 1
      BY <1>1, <1>2
    <2>. QED BY <2>1, <2>2
  <1>7. n + 1 \in 1 .. Len(accepted)
    <2>1. n + 1 \in 1 .. Len(accepted) + 1 /\ d + Len(buf) \in Nat
      BY <1>1, <1>2, <1>3
    <2>2. n + 1 <= Len(accepted) \/ d + Len(buf) = 0
      BY <1>1, <1>2, <1>3, <1>4, <1>5
    <2>3. off[n + 1] + (d + Len(buf)) < Len(wire)
      BY <1>1, <1>3, <1>4, <1>6
    <2>. QED BY <2>1, <2>2, <2>3, LastPlace
  <1> DEFINE m == accepted[n + 1]
  <1>8. /\ off[(n + 1) + 1] = off[n + 1] + Size(m)
        /\ m \in Seq(Bytes) /\ Len(m) \in Nat /\ Fit(m)
        /\ \A p \in 1 .. Size(m) :
             off[n + 1] + p <= Len(wire) => wire[off[n + 1] + p] = Coded(m, p)
    BY <1>7, PlaceFacts
  <1>9. d + Len(buf) <= Len(m) /\ \A q \in 1 .. Len(buf) : buf[q] = m[d + q]
    <2>1. CASE buf # <<>>
      BY <1>4, <2>1
    <2>2. CASE buf = <<>>
      <3>1. Len(buf) = 0 /\ d <= Len(m)
        BY <1>2, <1>3, <1>5, <1>8, <2>2
      <3>. QED BY <1>3, <3>1
    <2>. QED BY <2>1, <2>2
  <1>10. Size(m) = Len(m) + 1
    BY DEF Size
  <1> HIDE DEF m
  <1>11. wire[pos + 1] = Coded(m, d + Len(buf) + 1)
    <2>1. /\ d + Len(buf) + 1 \in 1 .. Size(m) /\ off[n + 1] + (d + Len(buf) + 1) = pos + 1
          /\ pos + 1 <= Len(wire)
      <3>1. Len(m) \in Nat /\ d + Len(buf) <= Len(m)
        BY <1>8, <1>9
      <3>2. pos = off[n + 1] + d + Len(buf)
        BY <1>4
      <3>3. d + Len(buf) + 1 \in 1 .. Len(m) + 1
        BY <1>1, <1>3, <3>1
      <3>4. off[n + 1] + (d + Len(buf) + 1) = pos + 1
        BY <1>1, <1>3, <1>6, <3>2
      <3>5. pos + 1 <= Len(wire)
        BY <1>1
      <3>. QED BY <1>10, <3>3, <3>4, <3>5
    <2>. QED BY <1>8, <2>1
  <1>12. off[(n + 1) + 1] = off[n + 1] + Len(m) + 1
    <2>1. off[(n + 1) + 1] = off[n + 1] + Size(m) /\ Len(m) \in Nat
      BY <1>8
    <2>. QED BY <1>6, <1>10, <2>1
  <1>13. CASE d + Len(buf) = Len(m)
    <2>1. wire[pos + 1] = DELIM
      BY <1>1, <1>3, <1>11, <1>13 DEF Coded
    <2>. QED BY <1>3, <1>4, <1>6, <1>7, <1>8, <1>9, <1>12, <1>13, <2>1 DEF m
  <1>14. CASE d + Len(buf) # Len(m)
    <2>1. d + Len(buf) + 1 \in 1 .. Len(m)
      <3>1. Len(m) \in Nat /\ d + Len(buf) <= Len(m)
        BY <1>8, <1>9
      <3>. QED BY <1>1, <1>3, <1>14, <3>1
    <2>2. wire[pos + 1] = m[d + Len(buf) + 1] /\ m[d + Len(buf) + 1] # DELIM
      BY <1>8, <1>11, <2>1 DEF Coded, Fit
    <2>. QED BY <1>3, <1>4, <1>6, <1>7, <1>8, <1>9, <1>12, <1>14, <2>2 DEF m
  <1>. QED BY <1>13, <1>14

LEMMA GetDelimKeepsPieced ==
  ASSUME FramingInv, FramingInv', Pieced, GetDelim
  PROVE  Pieced'
  <1>1. Types
    BY DEF FramingInv, Types
  <1>2. PICK off, f, n, e : Layout(off) /\ Built(f) /\ Returned(f, n, e) /\ InHand(off, n, e)
    BY DEF Pieced
  <1>3. /\ framer = "delim" /\ pc = "head" /\ Left > 0 /\ wire[pos + 1] = DELIM
        /\ pos' = pos + 1 /\ Return(buf) /\ UNCHANGED <<framer, accepted>>
    BY DEF GetDelim
  <1>4. Layout(off)' /\ Built(f)'
    BY <1>2, <1>3, SameLayout, BuiltKept
  <1>5. PICK d : d = e * BufSize
    OBVIOUS
  <1> DEFINE m == accepted[n + 1]
             r == Len(buf)
  <1>6. /\ n + 1 \in 1 .. Len(accepted) /\ d \in Nat /\ pos = off[n + 1] + d + r
        /\ d + r = Len(m)
        /\ \A q \in 1 .. r : buf[q] = m[d + q]
        /\ off[n + 1] \in Nat /\ off[(n + 1) + 1] = off[n + 1] + Len(m) + 1
        /\ m \in Seq(Bytes) /\ Len(m) \in Nat
    BY <1>1, <1>2, <1>3, <1>5, NextInPiece
  <1>7. r \in Nat /\ r < BufSize /\ buf \in Seq(Bytes)
    BY <1>1, <1>3, WireFacts DEF Types, TypeOK
  <1>8. n \in Nat /\ e \in Nat /\ Len(accepted) \in Nat
    BY <1>1, <1>2, WireFacts DEF Returned
  <1>9. LastN(m, r) = buf
    <2> DEFINE u == SubSeq(m, d + 1, Len(m))
    <2>1. m \in Seq(Bytes) /\ d \in Nat /\ Len(m) \in Nat /\ d <= Len(m) /\ Len(m) <= Len(m)
      BY <1>6, <1>7
    <2>2. u \in Seq(Bytes) /\ Len(u) = Len(m) - d /\ \A q \in 1 .. Len(m) - d : u[q] = m[d + q]
      <3> HIDE DEF m
      <3>. QED BY <2>1, PartFacts
    <2>3. Len(m) - r = d /\ Len(m) - d = r
      BY <1>6, <1>7
    <2>4. LastN(m, r) = u
      BY <2>3 DEF LastN
    <2> HIDE DEF u
    <2>5. u = buf
      <3>1. Len(u) = Len(buf) /\ \A q \in 1 .. Len(u) : u[q] = buf[q]
        BY <1>6, <2>2, <2>3
      <3>. QED BY <1>7, <2>2, <3>1, SeqEqual
    <2>. QED BY <2>4, <2>5
  <1>10. Pieces(m) = Errors(e) \o <<buf>> /\ Pieces(m) \in Seq(Result)
    <2>1. e * BufSize + r = Len(m)
      BY <1>5, <1>6
    <2>2. m \in Seq(Bytes) /\ e \in Nat /\ r \in Nat /\ r < BufSize /\ framer = "delim"
      BY <1>3, <1>6, <1>7, <1>8
    <2> HIDE DEF m, r
    <2>3. Pieces(m) \in Seq(Result) /\ Pieces(m) = Errors(e) \o <<LastN(m, r)>>
      BY ONLY <2>1, <2>2, PiecesFacts
    <2>. QED BY <1>9, <2>3, Zenon
  <1>11. /\ f[n] \in Seq(Result) /\ f[n + 1] = f[n] \o Pieces(m) /\ results = f[n] \o Errors(e)
    <2>1. n \in 0 .. Len(accepted) /\ (n + 1) - 1 = n
      BY <1>6, <1>8
    <2>2. f \in [0 .. Len(accepted) -> Seq(Result)] /\ f[n + 1] = f[(n + 1) - 1] \o Pieces(m)
      BY <1>2, <1>6 DEF Built
    <2>. QED BY <1>2, <2>1, <2>2 DEF Returned
  <1>12. results' = f[n + 1] \o Errors(0)
    <2>1. results' = Append(results, buf) /\ buf \in Result
      BY <1>3, <1>7 DEF Return, Result
    <2>2. Append(f[n] \o Errors(e), buf) = f[n] \o Pieces(m)
          /\ f[n] \o Pieces(m) = (f[n] \o Pieces(m)) \o Errors(0)
      <3> HIDE DEF m
      <3>. QED BY <1>8, <1>10, <1>11, <2>1, OneMore
    <2>. QED BY <1>11, <2>1, <2>2
  <1>13. Returned(f, n + 1, 0)'
    <2>1. framer' # "length" /\ n + 1 \in 0 .. Len(accepted')
      BY <1>3, <1>6
    <2>. QED BY <1>12, <2>1 DEF Returned, Errors
  <1>14. InHand(off, n + 1, 0)'
    <2>1. buf' = <<>> /\ Len(buf') = 0
      BY <1>3 DEF Return
    <2>2. pos' = off[(n + 1) + 1]
      BY <1>3, <1>6, <1>7
    <2>3. off[(n + 1) + 1] + 0 * BufSize + 0 = off[(n + 1) + 1]
      <3>1. off[(n + 1) + 1] \in Nat
        <4>1. off[n + 1] \in Nat /\ Len(m) \in Nat /\ off[(n + 1) + 1] = off[n + 1] + Len(m) + 1
          BY <1>6
        <4>. QED BY <4>1
      <3>2. 0 * BufSize = 0
        <4>1. BufSize \in Nat
          BY FramingAssumption
        <4>. QED BY <4>1
      <3>. QED BY <3>1, <3>2
    <2>. QED BY <2>1, <2>2, <2>3 DEF InHand
  <1>. QED BY <1>4, <1>13, <1>14 DEF Pieced

LEMMA GetOtherKeepsPieced ==
  ASSUME FramingInv, FramingInv', Pieced, GetOther
  PROVE  Pieced'
  <1>1. Types
    BY DEF FramingInv, Types
  <1>2. PICK off, f, n, e : Layout(off) /\ Built(f) /\ Returned(f, n, e) /\ InHand(off, n, e)
    BY DEF Pieced
  <1>3. /\ framer = "delim" /\ pc = "head" /\ Left > 0 /\ wire[pos + 1] # DELIM
        /\ pos' = pos + 1 /\ UNCHANGED <<framer, accepted>>
    BY DEF GetOther
  <1>4. Layout(off)' /\ Built(f)'
    BY <1>2, <1>3, SameLayout, BuiltKept
  <1>5. PICK d : d = e * BufSize
    OBVIOUS
  <1> DEFINE m == accepted[n + 1]
             r == Len(buf)
  <1>6. /\ n + 1 \in 1 .. Len(accepted) /\ d \in Nat /\ pos = off[n + 1] + d + r
        /\ d + r <= Len(m) /\ d + r # Len(m)
        /\ wire[pos + 1] = m[d + r + 1]
        /\ \A q \in 1 .. r : buf[q] = m[d + q]
        /\ off[n + 1] \in Nat /\ Len(m) \in Nat
    <2>1. /\ n + 1 \in 1 .. Len(accepted) /\ d \in Nat /\ pos = off[n + 1] + d + r
          /\ d + r <= Len(m)
          /\ \A q \in 1 .. r : buf[q] = m[d + q]
          /\ off[n + 1] \in Nat /\ Len(m) \in Nat
          /\ IF d + r = Len(m) THEN wire[pos + 1] = DELIM
             ELSE wire[pos + 1] = m[d + r + 1] /\ wire[pos + 1] # DELIM
      <3>1. framer = "delim" /\ pc = "head" /\ Left > 0
        BY <1>3
      <3>2. /\ n + 1 \in 1 .. Len(accepted) /\ d \in Nat /\ pos = off[n + 1] + d + r
            /\ d + r <= Len(m)
            /\ \A q \in 1 .. r : buf[q] = m[d + q]
            /\ off[n + 1] \in Nat /\ off[(n + 1) + 1] = off[n + 1] + Len(m) + 1
            /\ m \in Seq(Bytes) /\ Len(m) \in Nat
            /\ IF d + r = Len(m) THEN wire[pos + 1] = DELIM
               ELSE wire[pos + 1] = m[d + r + 1] /\ wire[pos + 1] # DELIM
        BY <1>1, <1>2, <1>5, <3>1, NextInPiece
      <3>. QED BY ONLY <3>2
    <2> HIDE DEF m, r
    <2>2. wire[pos + 1] # DELIM
      BY <1>3
    <2>. QED BY <2>1, <2>2
  <1>7. r \in Nat /\ buf \in Seq(Bytes) /\ BufSize \in Nat /\ wire[pos + 1] \in Bytes
        /\ r < BufSize
    <2>1. pos + 1 \in 1 .. Len(wire)
      BY <1>1, <1>3, WireFacts
    <2>2. r < BufSize
      BY <1>3 DEF FramingInv, TypeOK
    <2>. QED BY <1>1, <2>1, <2>2, WireFacts
  <1>8. n \in Nat /\ e \in Nat /\ Len(accepted) \in Nat /\ n \in 0 .. Len(accepted)
    BY <1>1, <1>2, WireFacts DEF Returned
  <1>9. n < Len(accepted) /\ d + r + 1 <= Len(m) /\ pos' = off[n + 1] + d + (r + 1)
    <2>1. d + r <= Len(m) /\ d + r # Len(m) /\ pos = off[n + 1] + d + r
      BY <1>6
    <2>2. n < Len(accepted)
      BY <1>6, <1>8
    <2>3. d + r + 1 <= Len(m)
      <3>1. d \in Nat /\ r \in Nat /\ Len(m) \in Nat
        BY <1>6, <1>7
      <3>. QED BY <2>1, <3>1
    <2>4. pos' = off[n + 1] + d + (r + 1)
      <3>1. d \in Nat /\ r \in Nat /\ off[n + 1] \in Nat /\ pos' = pos + 1
        BY <1>3, <1>6, <1>7
      <3>. QED BY <2>1, <3>1
    <2>. QED BY <2>2, <2>3, <2>4
  <1>10. CASE r + 1 < BufSize
    <2>1. buf' = Append(buf, wire[pos + 1]) /\ UNCHANGED <<pc, results>>
      BY <1>10 DEF GetOther
    <2>2. /\ Len(buf') = r + 1 /\ buf'[r + 1] = wire[pos + 1]
          /\ \A q \in 1 .. r : buf'[q] = buf[q]
      BY <1>7, <2>1, AppendProperties
    <2>3. ASSUME NEW q \in 1 .. Len(buf') PROVE buf'[q] = m[d + q]
      <3>1. CASE q \in 1 .. r
        BY <1>6, <2>2, <3>1
      <3>2. CASE q \notin 1 .. r
        <4>1. q = r + 1 /\ d + q = d + r + 1
          <5>1. d \in Nat /\ r \in Nat /\ q \in 1 .. r + 1
            BY <1>6, <1>7, <2>2
          <5>. QED BY <3>2, <5>1
        <4>. QED BY <1>6, <2>2, <4>1
      <3>. QED BY <3>1, <3>2
    <2>4. Returned(f, n, e)'
      BY <1>2, <1>3, <2>1 DEF Returned, Errors
    <2>5. pos' = off[n + 1] + e * BufSize + Len(buf')
      BY <1>5, <1>9, <2>2
    <2>6. n < Len(accepted') /\ e * BufSize + Len(buf') <= Len(accepted'[n + 1])
      <3>1. d + (r + 1) = d + r + 1
        BY <1>6, <1>7
      <3>. QED BY <1>3, <1>5, <1>9, <2>2, <3>1
    <2>7. \A q \in 1 .. Len(buf') : buf'[q] = accepted'[n + 1][e * BufSize + q]
      BY <1>3, <1>5, <2>3
    <2>8. InHand(off, n, e)'
      BY <2>5, <2>6, <2>7 DEF InHand
    <2>. QED BY <1>4, <2>4, <2>8 DEF Pieced
  <1>11. CASE ~ r + 1 < BufSize
    <2>1. Return(TooLong)
      BY <1>11 DEF GetOther
    <2>2. results' = Append(f[n] \o Errors(e), TooLong)
      BY <1>2, <2>1 DEF Return, Returned
    <2>3. results' = f[n] \o Errors(e + 1)
      <3>1. f[n] \in Seq(Result)
        <4>1. f \in [0 .. Len(accepted) -> Seq(Result)]
          BY <1>2 DEF Built
        <4>. QED BY <1>8, <4>1
      <3>. QED BY <1>8, <2>2, <3>1, OneError
    <2>4. (e + 1) * BufSize = d + (r + 1) /\ r + 1 = BufSize
      <3>1. (e + 1) * BufSize = e * BufSize + BufSize
        BY <1>7, <1>8
      <3>2. r + 1 = BufSize
        BY <1>7, <1>11
      <3>. QED BY <1>5, <3>1, <3>2
    <2>5. (e + 1) * BufSize <= Len(m)
      <3>1. d + (r + 1) = d + r + 1
        BY <1>6, <1>7
      <3>. QED BY <1>9, <2>4, <3>1
    <2>6. Returned(f, n, e + 1)'
      <3>1. framer' = "delim" /\ e + 1 \in Nat /\ n \in 0 .. Len(accepted') /\ n < Len(accepted')
        BY <1>3, <1>8, <1>9
      <3>. QED BY <1>3, <2>3, <2>5, <3>1 DEF Returned, Errors
    <2>7. InHand(off, n, e + 1)'
      <3>1. buf' = <<>> /\ Len(buf') = 0
        BY <2>1 DEF Return
      <3>2. d + (r + 1) \in Nat
        BY <1>6, <1>7
      <3>3. pos' = off[n + 1] + (e + 1) * BufSize + Len(buf')
        <4>1. /\ off[n + 1] \in Nat /\ pos' = off[n + 1] + d + (r + 1)
              /\ d \in Nat /\ r + 1 \in Nat /\ (e + 1) * BufSize = d + (r + 1)
          BY <1>6, <1>7, <1>9, <2>4
        <4>2. pos' = off[n + 1] + (d + (r + 1)) + 0
          BY ONLY <3>2, <4>1
        <4>. QED BY ONLY <3>1, <4>1, <4>2
      <3>. QED BY <3>1, <3>3 DEF InHand
    <2>. QED BY <1>4, <2>6, <2>7 DEF Pieced
  <1>. QED BY <1>10, <1>11

(* LengthFramer.c returns one result for a message.                        *)
LEMMA LengthKeepsPieced ==
  ASSUME FramingInv, FramingInv', Pieced, framer = "length", UNCHANGED <<framer, accepted>>,
         NEW r \in Seq(Bytes) \cup {TooLong}, Return(r)
  PROVE  Pieced'
  <1>1. Types
    BY DEF FramingInv, Types
  <1>2. PICK off, f, n, e : Layout(off) /\ Built(f) /\ Returned(f, n, e) /\ InHand(off, n, e)
    BY DEF Pieced
  <1>3. Layout(off)' /\ Built(f)'
    BY <1>2, SameLayout, BuiltKept
  <1>4. PICK off2 : ByLength(off2)'
    BY DEF FramingInv, Places, Reader
  <1>5. /\ n = Len(results) /\ e \in Nat /\ ~ (e > 0) /\ results = f[n] \o Errors(e)
        /\ n \in 0 .. Len(accepted)
    BY <1>2 DEF Returned
  <1>6. e = 0
    BY <1>5
  <1>7. /\ Len(results') = n + 1 /\ results'[n + 1] = r /\ results' = Append(results, r)
        /\ n \in Nat /\ Len(accepted) \in Nat
    BY <1>1, <1>5, ReturnTypes, WireFacts DEF Return
  <1> DEFINE m == accepted[n + 1]
  <1>8. n + 1 \in 1 .. Len(accepted) /\ r = IF Len(m) <= BufSize THEN m ELSE TooLong
    <2>1. n + 1 <= Len(accepted)
      BY <1>4, <1>7 DEF ByLength
    <2>2. n + 1 \in 1 .. Len(results')
      BY <1>7
    <2>. QED BY <1>4, <1>7, <2>1, <2>2 DEF ByLength
  <1>9. Pieces(m) = <<r>>
    BY <1>8 DEF Pieces
  <1>10. f[n] \in Seq(Result) /\ f[n + 1] = f[n] \o Pieces(m)
    <2>1. (n + 1) - 1 = n
      BY <1>7
    <2>. QED BY <1>2, <1>5, <1>8, <2>1 DEF Built
  <1>11. results' = f[n + 1] \o Errors(0)
    <2>1. r \in Result /\ Pieces(m) \in Seq(Result)
      BY <1>9 DEF Result
    <2>2. Errors(0) = <<>> /\ Pieces(m) = Errors(0) \o <<r>>
      <3>1. Errors(0) = <<>> /\ <<r>> \in Seq(Result)
        BY <2>1, ErrorFacts
      <3> DEFINE l == <<r>>
      <3>2. <<>> \o l = l
        <4>1. l \in Seq(Result)
          BY <3>1
        <4> HIDE DEF l
        <4>. QED BY <4>1, ConcatEmptySeq
      <3>. QED BY <1>9, <3>1, <3>2
    <2> HIDE DEF m
    <2>3. Append(f[n] \o Errors(0), r) = f[n] \o Pieces(m)
          /\ f[n] \o Pieces(m) = (f[n] \o Pieces(m)) \o Errors(0)
      BY <1>10, <2>1, <2>2, OneMore
    <2>. QED BY <1>5, <1>6, <1>7, <1>10, <2>3
  <1>12. Returned(f, n + 1, 0)'
    <2>1. n + 1 \in 0 .. Len(accepted') /\ 0 \in Nat /\ ~ (0 > 0)
      BY <1>8
    <2>. QED BY <1>7, <1>11, <2>1 DEF Returned, Errors
  <1>13. InHand(off, n + 1, 0)'
    BY DEF InHand
  <1>. QED BY <1>3, <1>12, <1>13 DEF Pieced

LEMMA ReceiveKeepsPieced ==
  ASSUME FramingInv, FramingInv', Pieced, Receive
  PROVE  Pieced'
  <1>1. Types
    BY DEF FramingInv, Types
  <1>2. UNCHANGED <<framer, accepted>>
    BY DEF Receive, GetEOF, GetDelim, GetOther, ReadEnds, ReadSize, ReadBody, ReadExtra, Overrun
  <1>3. CASE GetEOF
    <2>1. pc' # "head" /\ UNCHANGED results
      BY <1>3 DEF GetEOF
    <2>. QED BY <1>2, <2>1, QuietKeepsPieced
  <1>4. CASE GetDelim \/ GetOther
    BY <1>4, GetDelimKeepsPieced, GetOtherKeepsPieced
  <1>5. CASE ReadEnds \/ ReadSize \/ Overrun
    <2>1. framer = "length" /\ UNCHANGED results
      BY <1>5 DEF ReadEnds, ReadSize, Overrun
    <2>. QED BY <1>2, <2>1, QuietKeepsPieced
  <1>6. CASE ReadBody
    <2>1. framer = "length"
      BY <1>6 DEF ReadBody
    <2>2. CASE size > BufSize
      <3>1. UNCHANGED results
        BY <1>6, <2>2 DEF ReadBody
      <3>. QED BY <1>2, <2>1, <3>1, QuietKeepsPieced
    <2>3. CASE ~ size > BufSize
      <3>1. Return(SubSeq(wire, pos + 1, pos + size)) /\ Left >= size
        BY <1>6, <2>3 DEF ReadBody
      <3>2. /\ wire \in Seq(Bytes) /\ pos \in Nat /\ pos + size \in Nat /\ pos <= pos + size
            /\ pos + size <= Len(wire)
        BY <1>1, <3>1, WireFacts
      <3>3. SubSeq(wire, pos + 1, pos + size) \in Seq(Bytes)
        BY <3>2, PartFacts
      <3>. QED BY <1>2, <2>1, <3>1, <3>3, LengthKeepsPieced
    <2>. QED BY <2>2, <2>3
  <1>7. CASE ReadExtra
    <2>1. framer = "length" /\ Return(TooLong)
      BY <1>7 DEF ReadExtra
    <2>. QED BY <1>2, <2>1, LengthKeepsPieced
  <1>. QED BY <1>3, <1>4, <1>5, <1>6, <1>7 DEF Receive

LEMMA PiecedAlways ==
  Spec => []Pieced
  <1>1. Init => Pieced
    <2> SUFFICES ASSUME Init PROVE Pieced
      OBVIOUS
    <2>1. /\ wire = <<>> /\ accepted = <<>> /\ buf = <<>> /\ results = <<>>
          /\ ended = "no" /\ pos = 0
      BY DEF Init
    <2>2. Len(wire) = 0 /\ Len(accepted) = 0 /\ Len(buf) = 0 /\ Len(results) = 0
      BY <2>1
    <2>3. PICK off : off = [k \in 1 .. 1 |-> 0]
      OBVIOUS
    <2>4. PICK f : f = [k \in 0 .. 0 |-> <<>>]
      OBVIOUS
    <2>5. Layout(off)
      BY <2>1, <2>2, <2>3 DEF Layout
    <2>6. f[0] = <<>> /\ <<>> \in Seq(Result)
      BY <2>4
    <2>7. Built(f)
      <3>1. f \in [0 .. 0 -> Seq(Result)]
        BY <2>4, <2>6
      <3>2. Begins(f[0], f[0])
        BY <2>6 DEF Begins
      <3>. QED BY <2>2, <2>6, <3>1, <3>2 DEF Built
    <2>8. Returned(f, 0, 0)
      <3>1. <<>> = <<>> \o Errors(0)
        <4>1. Errors(0) = <<>>
          BY ErrorFacts
        <4>. QED BY <2>6, <4>1, ConcatEmptySeq
      <3>. QED BY <2>1, <2>2, <2>6, <3>1 DEF Returned
    <2>9. InHand(off, 0, 0)
      <3>1. off[0 + 1] = 0
        BY <2>3
      <3>2. 0 * BufSize = 0
        BY FramingAssumption
      <3>. QED BY <2>1, <2>2, <3>1, <3>2 DEF InHand
    <2>. QED BY <2>5, <2>7, <2>8, <2>9 DEF Pieced
  <1>2. FramingInv /\ FramingInv' /\ Pieced /\ [Next]_vars => Pieced'
    <2> SUFFICES ASSUME FramingInv, FramingInv', Pieced, [Next]_vars PROVE Pieced'
      OBVIOUS
    <2>1. CASE UNCHANGED vars
      BY <2>1, QuietKeepsPieced DEF vars
    <2>2. CASE PutMsg
      BY <2>2, PutMsgKeepsPieced
    <2>3. CASE Close
      BY <2>3, QuietKeepsPieced DEF Close
    <2>4. CASE Killed
      BY <2>4, QuietKeepsPieced DEF Killed
    <2>5. CASE Receive
      BY <2>5, ReceiveKeepsPieced
    <2>. QED BY <2>1, <2>2, <2>3, <2>4, <2>5 DEF Next
  <1>. QED BY <1>1, <1>2, FramingInvHolds, PTL DEF Spec

(* What the first messages become, all in one.                             *)
LEMMA FlattenBuilt ==
  ASSUME Types, NEW f, Built(f)
  PROVE  FlattenSeq([k \in 1 .. Len(accepted) |-> Pieces(accepted[k])]) = f[Len(accepted)]
  <1> DEFINE A == Len(accepted)
             ss == [k \in 1 .. A |-> Pieces(accepted[k])]
  <1>1. A \in Nat /\ \A k \in 1 .. A : accepted[k] \in Seq(Bytes)
    BY WireFacts, MessageFacts
  <1>2. \A k \in 1 .. A : Pieces(accepted[k]) \in Seq(Result)
    BY <1>1, PiecesFacts
  <1>3. ss \in Seq(Seq(Result)) /\ Len(ss) = A
    BY <1>1, <1>2
  <1>4. /\ f \in [0 .. A -> Seq(Result)] /\ f[0] = <<>>
        /\ \A k \in 1 .. A : f[k] = f[k - 1] \o ss[k]
    BY DEF Built
  <1> HIDE DEF ss
  <1>5. Joins(f, ss, Result)
    BY <1>3, <1>4 DEF Joins
  <1>6. FlattenSeq(ss) = f[A]
    BY <1>3, <1>5, FlattenIs
  <1>. QED BY <1>6 DEF ss

(* Whatever the sender puts and wherever the stream is cut, the receiver   *)
(* sees pieces of the messages put, in their order and nothing else, also  *)
(* when it calls GetNextMsg() again after an error.                        *)
THEOREM PiecesCorrect ==
  Spec => []ResultsArePieces
  <1>1. FramingInv /\ Pieced => ResultsArePieces
    <2> SUFFICES ASSUME FramingInv, Pieced PROVE ResultsArePieces
      OBVIOUS
    <2> DEFINE A == Len(accepted)
               ss == [k \in 1 .. A |-> Pieces(accepted[k])]
    <2>1. Types
      BY DEF FramingInv, Types
    <2>2. PICK off, f, n, e : Built(f) /\ Returned(f, n, e)
      BY DEF Pieced
    <2>3. A \in Nat /\ \A k \in 1 .. A : accepted[k] \in Seq(Bytes)
      BY <2>1, WireFacts, MessageFacts
    <2>6. /\ f \in [0 .. A -> Seq(Result)] /\ f[0] = <<>>
          /\ \A k \in 1 .. A : f[k] = f[k - 1] \o Pieces(accepted[k])
          /\ \A k \in 0 .. A : Begins(f[k], f[A])
      BY <2>2 DEF Built
    <2>8. FlattenSeq(ss) = f[A]
      BY <2>1, <2>2, FlattenBuilt
    <2>9. /\ n \in 0 .. A /\ e \in Nat /\ results = f[n] \o Errors(e)
          /\ e > 0 => framer = "delim" /\ n < A /\ e * BufSize <= Len(accepted[n + 1])
      BY <2>2 DEF Returned
    <2>10. f[n] \in Seq(Result) /\ f[A] \in Seq(Result) /\ Begins(f[n], f[A])
      <3>1. n \in 0 .. A /\ A \in 0 .. A
        BY <2>3, <2>9
      <3>2. f \in [0 .. A -> Seq(Result)] /\ \A k \in 0 .. A : Begins(f[k], f[A])
        BY <2>6
      <3>. QED BY <3>1, <3>2
    <2>11. Errors(e) \in Seq(Result)
      BY <2>9, ErrorFacts
    <2>12. CASE e = 0
      <3>1. results = f[n]
        <4>1. Errors(e) = <<>>
          BY <2>12, ErrorFacts
        <4>. QED BY <2>9, <2>10, <4>1, ConcatEmptySeq
      <3>2. IsPrefix(results, f[A])
        BY <2>10, <3>1, BeginsIsPrefix
      <3>. QED BY <2>8, <3>2 DEF ResultsArePieces
    <2>13. CASE e # 0
      <3>1. framer = "delim" /\ n + 1 \in 1 .. A /\ e * BufSize <= Len(accepted[n + 1])
            /\ (n + 1) - 1 = n /\ n + 1 \in 0 .. A
        BY <2>3, <2>9, <2>13
      <3> DEFINE x == Pieces(accepted[n + 1])
      <3>2. Begins(Errors(e), x) /\ x \in Seq(Result)
        BY <2>3, <2>9, <3>1, PiecesFacts
      <3>3. f[n + 1] = f[n] \o x /\ f[n + 1] \in Seq(Result) /\ Begins(f[n + 1], f[A])
        BY <2>6, <3>1
      <3> HIDE DEF x
      <3>4. Begins(f[n] \o Errors(e), f[n] \o x)
        BY <2>10, <2>11, <3>2, BeginsBoth
      <3>5. results \in Seq(Result)
        BY <2>9, <2>10, <2>11, ConcatProperties
      <3>6. Begins(results, f[n + 1])
        BY <2>9, <3>3, <3>4, Zenon
      <3>7. IsPrefix(results, f[A])
        BY <2>10, <3>3, <3>5, <3>6, BeginsTrans, BeginsIsPrefix
      <3>. QED BY <2>8, <3>7 DEF ResultsArePieces
    <2>. QED BY <2>12, <2>13
  <1>. QED BY <1>1, FramingInvHolds, PiecedAlways, PTL

-----------------------------------------------------------------------------
(* Where the receiver stops.                                               *)
LEMMA AllIn ==
  ASSUME Types, NEW f, Built(f), Returned(f, Len(accepted), 0)
  PROVE  AllReturned
  <1>1. f[Len(accepted)] \in Seq(Result)
    <2>1. Len(accepted) \in 0 .. Len(accepted)
      BY WireFacts
    <2>. QED BY <2>1 DEF Built
  <1>2. results = f[Len(accepted)]
    <2>1. results = f[Len(accepted)] \o Errors(0) /\ Errors(0) = <<>>
      BY ErrorFacts DEF Returned
    <2>. QED BY <1>1, <2>1, ConcatEmptySeq
  <1>. QED BY <1>2, FlattenBuilt DEF AllReturned

(* A delimiter framer at the end of a stream that was closed.              *)
LEMMA DelimEnd ==
  ASSUME FramingInv, Pieced, framer = "delim", pc = "head", EOF, ended # "killed"
  PROVE  buf = <<>> /\ AllReturned
  <1>1. Types
    BY DEF FramingInv, Types
  <1>2. PICK off, f, n, e : Layout(off) /\ Built(f) /\ Returned(f, n, e) /\ InHand(off, n, e)
    BY DEF Pieced
  <1>3. PICK d : d = e * BufSize
    OBVIOUS
  <1>4. /\ n \in 0 .. Len(accepted) /\ e \in Nat /\ d \in Nat /\ Len(accepted) \in Nat
        /\ pos \in Nat /\ Len(wire) \in Nat /\ Len(buf) \in Nat /\ pos = Len(wire)
        /\ e = 0 => d = 0
    <2>1. BufSize \in Nat /\ e \in Nat
      BY <1>1, <1>2, WireFacts DEF Returned
    <2>2. d \in Nat /\ (e = 0 => d = 0)
      BY <1>3, <2>1
    <2>. QED BY <1>1, <1>2, <2>1, <2>2, WireFacts DEF Returned, EOF
  <1>5. /\ pos = off[n + 1] + d + Len(buf)
        /\ buf # <<>> => n < Len(accepted) /\ d + Len(buf) <= Len(accepted[n + 1])
        /\ e > 0 => n < Len(accepted) /\ d <= Len(accepted[n + 1])
    BY <1>2, <1>3 DEF InHand, Returned
  <1>6. n = Len(accepted)
    <2>1. SUFFICES ASSUME n < Len(accepted) PROVE FALSE
      BY <1>4
    <2>2. n + 1 \in 1 .. Len(accepted)
      BY <1>4, <2>1
    <2>3. off[(n + 1) + 1] <= Len(wire)
      BY <1>2, <2>2, WholeOnWire
    <2>4. /\ off[n + 1] \in Nat /\ Len(accepted[n + 1]) \in Nat
          /\ off[(n + 1) + 1] = off[n + 1] + (Len(accepted[n + 1]) + 1)
      BY <1>1, <1>2, <2>2, PlaceFacts DEF Size
    <2>5. d + Len(buf) <= Len(accepted[n + 1])
      <3>1. CASE buf # <<>>
        BY <1>5, <3>1
      <3>2. CASE buf = <<>>
        <4>1. Len(buf) = 0
          BY <3>2
        <4>2. d <= Len(accepted[n + 1])
          BY <1>4, <1>5, <2>4
        <4>. QED BY <1>4, <4>1, <4>2
      <3>. QED BY <3>1, <3>2
    <2>6. ASSUME NEW p \in Nat, NEW o \in Nat, NEW l \in Nat, NEW r \in Nat, NEW w \in Nat,
                 p = w, p = o + d + r, d + r <= l, o + (l + 1) <= w
          PROVE  FALSE
      BY ONLY <1>4, <2>6
    <2>7. off[n + 1] + (Len(accepted[n + 1]) + 1) <= Len(wire)
      BY <2>3, <2>4
    <2>. QED BY ONLY <1>4, <1>5, <2>4, <2>5, <2>6, <2>7
  <1>7. e = 0 /\ buf = <<>>
    BY <1>4, <1>5, <1>6
  <1>8. Returned(f, Len(accepted), 0)
    BY <1>2, <1>6, <1>7, Zenon
  <1>. QED BY <1>1, <1>2, <1>7, <1>8, AllIn

(* LengthFramer.c finds the end of such a stream between two messages.     *)
LEMMA LengthEnd ==
  ASSUME FramingInv, Pieced, ReadEnds, ended # "killed"
  PROVE  AllReturned
  <1>1. Types /\ framer = "length"
    BY DEF FramingInv, Types, ReadEnds
  <1>2. PICK off, f, n, e : Layout(off) /\ Built(f) /\ Returned(f, n, e)
    BY DEF Pieced
  <1>3. PICK off2 : Layout(off2) /\ ByLength(off2)
    BY <1>1 DEF FramingInv, Places, Reader
  <1>4. /\ pos \in Nat /\ Len(wire) \in Nat /\ Left = Len(wire) - pos /\ size \in Nat
        /\ BufSize \in Nat /\ Len(accepted) \in Nat /\ Len(results) \in Nat
        /\ Len(results) <= Len(accepted) /\ Next1 = Len(results) + 1
    BY <1>1, <1>3, WireFacts DEF ByLength, Next1
  <1>5. ASSUME Next1 \in 1 .. Len(accepted)
        PROVE  off2[Next1] \in Nat /\ Len(accepted[Next1]) \in Nat
               /\ off2[Next1] + (Len(accepted[Next1]) + 2) <= Len(wire)
    <2>1. off2[Next1 + 1] <= Len(wire)
      BY <1>3, <1>5, WholeOnWire
    <2>2. /\ off2[Next1] \in Nat /\ Len(accepted[Next1]) \in Nat
          /\ off2[Next1 + 1] = off2[Next1] + (Len(accepted[Next1]) + 2)
      BY <1>1, <1>3, <1>5, PlaceFacts DEF Size
    <2>. QED BY <2>1, <2>2
  <1>6. pc = "head" /\ Left < 2
    <2>1. SUFFICES ASSUME pc = "body" PROVE FALSE
      BY DEF ReadEnds, Short
    <2>2. (Left < size /\ size <= BufSize) \/ (Left < BufSize /\ size > BufSize)
      <3>1. (Short(size) /\ size <= BufSize) \/ (Short(BufSize) /\ size > BufSize)
        BY <2>1 DEF ReadEnds
      <3>. QED BY <3>1 DEF Short
    <2>3. /\ Next1 \in 1 .. Len(accepted) /\ size = Len(accepted[Next1])
          /\ pos = off2[Next1] + 2
      BY <1>3, <1>4, <2>1 DEF ByLength
    <2>4. off2[Next1] \in Nat /\ off2[Next1] + (size + 2) <= Len(wire)
      BY <1>5, <2>3
    <2>5. Left < size
      BY ONLY <1>4, <2>2
    <2>. QED BY ONLY <1>4, <2>3, <2>4, <2>5
  <1>7. pos = off2[Next1]
    BY <1>3, <1>6 DEF ByLength, AtEnd
  <1>8. Len(results) = Len(accepted)
    <2>1. SUFFICES ASSUME Next1 \in 1 .. Len(accepted) PROVE FALSE
      BY <1>4
    <2>. QED BY <1>4, <1>5, <1>6, <1>7, <2>1
  <1>9. Returned(f, Len(accepted), 0)
    <2>1. n = Len(results) /\ e \in Nat /\ ~ (e > 0)
      BY <1>1, <1>2 DEF Returned
    <2>2. n = Len(accepted) /\ e = 0
      BY <1>8, <2>1
    <2>. QED BY <1>2, <2>2, Zenon
  <1>. QED BY <1>1, <1>2, <1>9, AllIn

LEMMA ReturnStops ==
  ASSUME Types, NEW r \in Seq(Bytes) \cup {TooLong}, Return(r), UNCHANGED goesOn
  PROVE  StopIsExplained'
  <1>1. /\ pc' = IF ~goesOn /\ r \in {TooLong, <<>>} THEN "stopped" ELSE "head"
        /\ Len(results') = Len(results) + 1 /\ results'[Len(results) + 1] = r
        /\ Len(results) \in Nat
    BY ReturnTypes DEF Return
  <1>2. results' # <<>> /\ Last(results') = r
    <2>1. Len(results') # 0
      BY <1>1
    <2>. QED BY <1>1, <2>1 DEF Last
  <1>. QED BY <1>1, <1>2 DEF StopIsExplained

LEMMA StopsStep ==
  ASSUME FramingInv, Pieced, StopIsExplained, [Next]_vars
  PROVE  StopIsExplained'
  <1>1. Types
    BY DEF FramingInv, Types
  <1>2. ASSUME UNCHANGED <<framer, accepted, results>> PROVE AllReturned' = AllReturned
    BY <1>2 DEF AllReturned, Pieces, LastN
  <1>3. CASE UNCHANGED vars
    BY <1>2, <1>3 DEF vars, StopIsExplained
  <1>4. CASE PutMsg
    BY <1>4 DEF PutMsg, StopIsExplained
  <1>5. CASE Close
    BY <1>5 DEF Close, StopIsExplained
  <1>6. CASE Killed
    BY <1>6 DEF Killed, StopIsExplained
  <1>7. CASE GetEOF
    <2>1. /\ framer = "delim" /\ pc = "head" /\ EOF
          /\ pc' = IF buf = <<>> THEN "stopped" ELSE "exited"
          /\ UNCHANGED <<framer, accepted, results, ended>>
      BY <1>7 DEF GetEOF
    <2>2. SUFFICES ASSUME ended # "killed" PROVE StopIsExplained'
      BY <2>1 DEF StopIsExplained
    <2>3. buf = <<>> /\ AllReturned
      BY <2>1, <2>2, DelimEnd
    <2>4. ended = "closed"
      BY <2>1, <2>2 DEF FramingInv, TypeOK, EOF
    <2>. QED BY <1>2, <2>1, <2>3, <2>4 DEF StopIsExplained
  <1>8. CASE GetDelim
    <2>1. Return(buf) /\ buf \in Seq(Bytes) \cup {TooLong} /\ UNCHANGED goesOn
      BY <1>1, <1>8, WireFacts DEF GetDelim
    <2>. QED BY <1>1, <2>1, ReturnStops
  <1>9. CASE GetOther
    <2>1. pc' = "head" \/ Return(TooLong)
      BY <1>9 DEF GetOther
    <2>2. CASE pc' = "head"
      BY <2>2 DEF StopIsExplained
    <2>3. CASE Return(TooLong)
      BY <1>1, <1>9, <2>3, ReturnStops DEF GetOther
    <2>. QED BY <2>1, <2>2, <2>3
  <1>10. CASE ReadEnds
    <2>1. pc' = "stopped" /\ UNCHANGED <<framer, accepted, results, ended>>
      BY <1>10 DEF ReadEnds
    <2>2. SUFFICES ASSUME ended # "killed" PROVE StopIsExplained'
      BY <2>1 DEF StopIsExplained
    <2>3. AllReturned
      BY <1>10, <2>2, LengthEnd
    <2>4. ended = "closed"
      BY <1>10, <2>2 DEF FramingInv, TypeOK, ReadEnds, Short
    <2>. QED BY <1>2, <2>1, <2>3, <2>4 DEF StopIsExplained
  <1>11. CASE ReadSize
    BY <1>11 DEF ReadSize, StopIsExplained
  <1>12. CASE ReadBody
    <2>1. CASE size > BufSize
      <3>1. pc' = "extra"
        BY <1>12, <2>1 DEF ReadBody
      <3>. QED BY <3>1 DEF StopIsExplained
    <2>2. CASE ~ size > BufSize
      <3>1. Return(SubSeq(wire, pos + 1, pos + size)) /\ Left >= size /\ UNCHANGED goesOn
        BY <1>12, <2>2 DEF ReadBody
      <3>2. /\ wire \in Seq(Bytes) /\ pos \in Nat /\ pos + size \in Nat /\ pos <= pos + size
            /\ pos + size <= Len(wire)
        BY <1>1, <3>1, WireFacts
      <3>3. SubSeq(wire, pos + 1, pos + size) \in Seq(Bytes)
        BY <3>2, PartFacts
      <3>. QED BY <1>1, <3>1, <3>3, ReturnStops
    <2>. QED BY <2>1, <2>2
  <1>13. CASE ReadExtra
    BY <1>1, <1>13, ReturnStops DEF ReadExtra
  <1>14. CASE Overrun
    BY <1>14 DEF Overrun, StopIsExplained
  <1>. QED BY <1>3, <1>4, <1>5, <1>6, <1>7, <1>8, <1>9, <1>10, <1>11, <1>12, <1>13, <1>14
       DEF Next, Receive

(* The excess that overruns waste[] is that of a message put.              *)
LEMMA OverrunOfLong ==
  ASSUME FramingInv
  PROVE  OverrunIsExplained
  <1>1. SUFFICES ASSUME pc = "overrun"
                 PROVE  /\ Len(results) < Len(accepted)
                        /\ Len(accepted[Len(results) + 1]) > BufSize + Waste
    BY DEF OverrunIsExplained
  <1>2. PICK off : Reader(off)
    BY DEF FramingInv, Places
  <1>3. ByLength(off)
    BY <1>1, <1>2 DEF Reader, ByDelim
  <1>4. Len(results) \in Nat /\ Len(accepted) \in Nat
    BY WireFacts DEF FramingInv, Types
  <1>5. Len(results) + 1 <= Len(accepted) /\ size = Len(accepted[Len(results) + 1])
    BY <1>1, <1>3 DEF ByLength, Next1
  <1>6. size > BufSize + Waste
    BY <1>1 DEF FramingInv, Large
  <1>. QED BY <1>4, <1>5, <1>6

(* Unless the sender was killed the receiver stops only where the stream   *)
(* ends, never in the middle of a message and with the pieces of every     *)
(* message put, or at an error or an empty message.  LengthFramer.c        *)
(* overruns its array only in a message longer than BufSize + Waste.       *)
THEOREM StopsCorrect ==
  Spec => []StopsAtTheEnd
  <1>1. Init => StopIsExplained
    BY DEF Init, StopIsExplained
  <1>2. FramingInv /\ Pieced /\ StopIsExplained /\ [Next]_vars => StopIsExplained'
    BY StopsStep
  <1>3. FramingInv /\ StopIsExplained => StopsAtTheEnd
    BY OverrunOfLong DEF StopsAtTheEnd
  <1>. QED BY <1>1, <1>2, <1>3, FramingInvHolds, PiecedAlways, PTL DEF Spec

-----------------------------------------------------------------------------
(* Text2.  A set of a few numbers, and how many words begin in a text that *)
(* starts with a message.                                                  *)
LEMMA SetOfOneMore ==
  ASSUME NEW S, IsFiniteSet(S), NEW x, x \notin S
  PROVE  IsFiniteSet(S \cup {x}) /\ Cardinality(S \cup {x}) = Cardinality(S) + 1
  BY FS_AddElement

LEMMA FewNumbers ==
  /\ IsFiniteSet({1}) /\ Cardinality({1}) = 1
  /\ IsFiniteSet({1, 3}) /\ Cardinality({1, 3}) = 2
  /\ IsFiniteSet({1, 3, 5}) /\ Cardinality({1, 3, 5}) = 3
  /\ IsFiniteSet({1, 3, 6}) /\ Cardinality({1, 3, 6}) = 3
  /\ IsFiniteSet({1, 3, 5, 7}) /\ Cardinality({1, 3, 5, 7}) = 4
  /\ IsFiniteSet({1, 3, 5, 7, 9}) /\ Cardinality({1, 3, 5, 7, 9}) = 5
  <1>1. IsFiniteSet({1}) /\ Cardinality({1}) = 1
    BY FS_Singleton
  <1>2. {1, 3} = {1} \cup {3} /\ 3 \notin {1}
    OBVIOUS
  <1>3. IsFiniteSet({1, 3}) /\ Cardinality({1, 3}) = 2
    BY <1>1, <1>2, SetOfOneMore
  <1>4. {1, 3, 5} = {1, 3} \cup {5} /\ 5 \notin {1, 3} /\ {1, 3, 6} = {1, 3} \cup {6} /\ 6 \notin {1, 3}
    OBVIOUS
  <1>5. IsFiniteSet({1, 3, 5}) /\ Cardinality({1, 3, 5}) = 3
    BY <1>3, <1>4, SetOfOneMore
  <1>6. IsFiniteSet({1, 3, 6}) /\ Cardinality({1, 3, 6}) = 3
    BY <1>3, <1>4, SetOfOneMore
  <1>7. {1, 3, 5, 7} = {1, 3, 5} \cup {7} /\ 7 \notin {1, 3, 5}
    OBVIOUS
  <1>8. IsFiniteSet({1, 3, 5, 7}) /\ Cardinality({1, 3, 5, 7}) = 4
    BY <1>5, <1>7, SetOfOneMore
  <1>9. {1, 3, 5, 7, 9} = {1, 3, 5, 7} \cup {9} /\ 9 \notin {1, 3, 5, 7}
    OBVIOUS
  <1>10. IsFiniteSet({1, 3, 5, 7, 9}) /\ Cardinality({1, 3, 5, 7, 9}) = 5
    BY <1>8, <1>9, SetOfOneMore
  <1>. QED BY <1>1, <1>3, <1>5, <1>6, <1>8, <1>10

(* The n-th word begins behind a place before which fewer begin.           *)
LEMMA NthIsBehind ==
  ASSUME NEW text, NEW a \in Nat, NEW S, IsFiniteSet(S),
         \A q \in Starts(text) : q <= a => q \in S,
         NEW n \in Nat, n > Cardinality(S), NEW p \in Nth(text, n), p \in Nat
  PROVE  p > a
  <1>1. SUFFICES ASSUME p <= a PROVE FALSE
    OBVIOUS
  <1> DEFINE T == {q \in Starts(text) : q <= p}
  <1>2. T \subseteq S
    <2>1. ASSUME NEW q \in Starts(text), q <= p PROVE q <= a
      <3>1. q \in Int
        BY DEF Starts
      <3>. QED BY <1>1, <2>1, <3>1
    <2>. QED BY <2>1
  <1>3. Cardinality(T) = n
    BY DEF Nth
  <1> HIDE DEF T
  <1>4. Cardinality(T) <= Cardinality(S) /\ Cardinality(S) \in Nat
    BY <1>2, FS_Subset, FS_CardinalityType
  <1>. QED BY <1>3, <1>4

(* The symbols of a message, read with anything behind it.                 *)
LEMMA Begun ==
  ASSUME NEW m \in Seq(Nat), NEW s \in Seq(Nat)
  PROVE  /\ m \o s \in Seq(Nat) /\ Len(m) \in Nat /\ Len(m \o s) \in Nat
         /\ Len(m \o s) >= Len(m)
         /\ \A k \in 1 .. Len(m) : (m \o s)[k] = m[k]
  <1>1. /\ m \o s \in Seq(Nat) /\ Len(m \o s) = Len(m) + Len(s)
        /\ \A k \in 1 .. Len(m) + Len(s) :
             (m \o s)[k] = IF k <= Len(m) THEN m[k] ELSE s[k - Len(m)]
    BY ConcatProperties
  <1>2. Len(m) \in Nat /\ Len(s) \in Nat
    OBVIOUS
  <1>. QED BY <1>1, <1>2

(* Two sequences put together.                                             *)
LEMMA Concatenated ==
  ASSUME NEW S, NEW s \in Seq(S), NEW t \in Seq(S)
  PROVE  /\ s \o t \in Seq(S) /\ Len(s \o t) = Len(s) + Len(t)
         /\ \A k \in 1 .. Len(s) : (s \o t)[k] = s[k]
         /\ \A k \in 1 .. Len(t) : (s \o t)[Len(s) + k] = t[k]
  <1> DEFINE u == s \o t
  <1>1. /\ u \in Seq(S) /\ Len(u) = Len(s) + Len(t)
        /\ \A k \in 1 .. Len(s) + Len(t) : u[k] = IF k <= Len(s) THEN s[k] ELSE t[k - Len(s)]
    BY ConcatProperties
  <1>2. Len(s) \in Nat /\ Len(t) \in Nat
    OBVIOUS
  <1> HIDE DEF u
  <1>3. \A k \in 1 .. Len(s) : u[k] = s[k]
    BY <1>1, <1>2
  <1>4. ASSUME NEW k \in 1 .. Len(t) PROVE u[Len(s) + k] = t[k]
    <2>1. /\ Len(s) + k \in 1 .. Len(s) + Len(t) /\ ~ Len(s) + k <= Len(s)
          /\ (Len(s) + k) - Len(s) = k
      BY <1>2
    <2>. QED BY <1>1, <2>1
  <1>. QED BY <1>1, <1>3, <1>4 DEF u

(* The symbols of a request.                                               *)
LEMMA RequestIs ==
  ASSUME NEW v \in VoteInfo, ~v.isResponse
  PROVE  /\ Encode(v) \in Seq(Nat) /\ Len(Encode(v)) = 6
         /\ Encode(v)[2] = DELIM_STR /\ Encode(v)[4] = DELIM_STR /\ Encode(v)[5] = DELIM_STR
  <1>1. PICK x \in {INQ_STR, VOTE_STR} : x = IF v.isInquiry THEN INQ_STR ELSE VOTE_STR
    OBVIOUS
  <1> DEFINE a == <<MAGIC, DELIM_STR, x, DELIM_STR>>
             b == <<DELIM_STR, NUMBER>>
             e == a \o b
  <1>2. MAGIC \in Nat /\ DELIM_STR \in Nat /\ x \in Nat /\ NUMBER \in Nat
    BY DEF MAGIC, DELIM_STR, INQ_STR, VOTE_STR, NUMBER
  <1>3. /\ a \in Seq(Nat) /\ Len(a) = 4 /\ a[2] = DELIM_STR /\ a[4] = DELIM_STR
        /\ b \in Seq(Nat) /\ Len(b) = 2 /\ b[1] = DELIM_STR
    BY <1>2
  <1>4. Encode(v) = ((a \o <<>>) \o b) \o <<>>
    BY <1>1 DEF Encode, VoteInfo
  <1> HIDE DEF a, b
  <1>5. /\ e \in Seq(Nat) /\ Len(e) = Len(a) + Len(b)
        /\ \A k \in 1 .. Len(a) : e[k] = a[k]
        /\ \A k \in 1 .. Len(b) : e[Len(a) + k] = b[k]
    <2>1. a \in Seq(Nat) /\ b \in Seq(Nat)
      BY <1>3
    <2>. QED BY <2>1, Concatenated
  <1>6. a \o <<>> = a /\ e \o <<>> = e
    BY <1>3, <1>5, ConcatEmptySeq
  <1>7. Encode(v) = e
    BY <1>4, <1>6, Zenon
  <1> HIDE DEF e
  <1>8. /\ e \in Seq(Nat) /\ Len(e) = 4 + 2 /\ \A k \in 1 .. 4 : e[k] = a[k]
        /\ \A k \in 1 .. 2 : e[4 + k] = b[k]
    BY <1>3, <1>5
  <1>9. e[2] = a[2] /\ e[4] = a[4] /\ e[4 + 1] = b[1]
    BY <1>8
  <1>. QED BY <1>3, <1>7, <1>8, <1>9

(* And those of a response.                                                *)
LEMMA ResponseIs ==
  ASSUME NEW v \in VoteInfo, v.isResponse
  PROVE  /\ Encode(v) \in Seq(Nat) /\ Len(Encode(v)) = 9
         /\ Encode(v)[1] = MAGIC /\ Encode(v)[2] = DELIM_STR
         /\ Encode(v)[3] \in {INQ_STR, VOTE_STR} /\ Encode(v)[4] = DELIM_STR
         /\ Encode(v)[5] = RESPONSE_STR /\ Encode(v)[6] = DELIM_STR /\ Encode(v)[8] = DELIM_STR
  <1>1. PICK x \in {INQ_STR, VOTE_STR} : x = IF v.isInquiry THEN INQ_STR ELSE VOTE_STR
    OBVIOUS
  <1> DEFINE a == <<MAGIC, DELIM_STR, x, DELIM_STR>>
             c == <<RESPONSE_STR>>
             b == <<DELIM_STR, NUMBER>>
             p == a \o c
             q == p \o b
             e == q \o b
  <1>2. /\ MAGIC \in Nat /\ DELIM_STR \in Nat /\ x \in Nat /\ NUMBER \in Nat
        /\ RESPONSE_STR \in Nat
    BY DEF MAGIC, DELIM_STR, INQ_STR, VOTE_STR, NUMBER, RESPONSE_STR
  <1>3. /\ a \in Seq(Nat) /\ Len(a) = 4
        /\ a[1] = MAGIC /\ a[2] = DELIM_STR /\ a[3] = x /\ a[4] = DELIM_STR
        /\ b \in Seq(Nat) /\ Len(b) = 2 /\ b[1] = DELIM_STR
        /\ c \in Seq(Nat) /\ Len(c) = 1 /\ c[1] = RESPONSE_STR
    BY <1>2
  <1>4. Encode(v) = e
    BY <1>1 DEF Encode, VoteInfo
  <1> HIDE DEF a, b, c
  <1>5. /\ p \in Seq(Nat) /\ Len(p) = Len(a) + Len(c)
        /\ \A k \in 1 .. Len(a) : p[k] = a[k]
        /\ \A k \in 1 .. Len(c) : p[Len(a) + k] = c[k]
    <2>1. a \in Seq(Nat) /\ c \in Seq(Nat)
      BY <1>3
    <2>. QED BY <2>1, Concatenated
  <1> HIDE DEF p
  <1>6. /\ q \in Seq(Nat) /\ Len(q) = Len(p) + Len(b)
        /\ \A k \in 1 .. Len(p) : q[k] = p[k]
        /\ \A k \in 1 .. Len(b) : q[Len(p) + k] = b[k]
    <2>1. p \in Seq(Nat) /\ b \in Seq(Nat)
      BY <1>3, <1>5
    <2>. QED BY <2>1, Concatenated
  <1> HIDE DEF q
  <1>7. /\ e \in Seq(Nat) /\ Len(e) = Len(q) + Len(b)
        /\ \A k \in 1 .. Len(q) : e[k] = q[k]
        /\ \A k \in 1 .. Len(b) : e[Len(q) + k] = b[k]
    <2>1. q \in Seq(Nat) /\ b \in Seq(Nat)
      BY <1>3, <1>6
    <2>. QED BY <2>1, Concatenated
  <1> HIDE DEF e
  <1>8. /\ Len(p) = 5 /\ \A k \in 1 .. 4 : p[k] = a[k]
        /\ \A k \in 1 .. 1 : p[4 + k] = c[k]
    BY <1>3, <1>5
  <1>9. p[4 + 1] = c[1]
    BY <1>8
  <1>10. /\ Len(q) = 7 /\ \A k \in 1 .. 5 : q[k] = p[k]
         /\ \A k \in 1 .. 2 : q[5 + k] = b[k]
    BY <1>3, <1>6, <1>8
  <1>11. q[5 + 1] = b[1]
    BY <1>10
  <1>12. /\ Len(e) = 9 /\ \A k \in 1 .. 7 : e[k] = q[k]
         /\ \A k \in 1 .. 2 : e[7 + k] = b[k]
    BY <1>3, <1>7, <1>10
  <1>13. e[7 + 1] = b[1]
    BY <1>12
  <1>14. \A k \in 1 .. 4 : e[k] = a[k]
    BY <1>8, <1>10, <1>12
  <1>15. e[1] = a[1] /\ e[2] = a[2] /\ e[3] = a[3] /\ e[4] = a[4]
    BY <1>14
  <1>16. e[5] = c[1] /\ e[6] = b[1]
    BY <1>9, <1>10, <1>11, <1>12
  <1>17. e[8] = b[1]
    BY <1>13
  <1>. QED BY <1>3, <1>4, <1>7, <1>12, <1>15, <1>16, <1>17

(* A request: three words, and Decode() asks for a fourth.                 *)
LEMMA RequestMisread ==
  ASSUME NEW v \in VoteInfo, ~v.isResponse, NEW s \in Seq(Nat), NEW n \in Nat, n > 3,
         NEW p \in Nth(Encode(v) \o s, n)
  PROVE  p > Len(Encode(v)) /\ p > CandidatePlace(v)
  <1>1. PICK m \in Seq(Nat) : m = Encode(v)
    BY RequestIs
  <1>2. Len(m) = 6 /\ m[2] = DELIM_STR /\ m[4] = DELIM_STR /\ m[5] = DELIM_STR
    BY <1>1, RequestIs
  <1>3. PICK text : text = m \o s
    OBVIOUS
  <1>4. \A k \in 1 .. 6 : text[k] = m[k]
    BY <1>2, <1>3, Begun
  <1>5. text[2] = DELIM_STR /\ text[4] = DELIM_STR /\ text[5] = DELIM_STR
    BY <1>2, <1>4
  <1>6. ASSUME NEW q \in Starts(text), q <= 6 PROVE q \in {1, 3, 6}
    <2>1. q \in Nat /\ q >= 1 /\ text[q] # DELIM_STR
      BY <1>6 DEF Starts
    <2>2. q # 2 /\ q # 4 /\ q # 5
      BY <1>5, <2>1
    <2>. QED BY <1>6, <2>1, <2>2
  <1>7. p \in Nth(text, n) /\ p \in Nat
    <2>1. p \in Nth(text, n)
      BY <1>1, <1>3
    <2>. QED BY <2>1 DEF Nth, Starts
  <1>8. IsFiniteSet({1, 3, 6}) /\ n > Cardinality({1, 3, 6})
    BY FewNumbers
  <1>9. p > 6
    BY <1>6, <1>7, <1>8, NthIsBehind
  <1>. QED BY <1>1, <1>2, <1>9 DEF CandidatePlace

(* A response: five words, of which the third is the R.  Decode() asks for *)
(* a sixth, and takes the fifth for the candidate.                         *)
LEMMA ResponseMisread ==
  ASSUME NEW v \in VoteInfo, v.isResponse, NEW s \in Seq(Nat)
  PROVE  /\ HasR(Encode(v) \o s)
         /\ \A p \in Nth(Encode(v) \o s, 6) : p > Len(Encode(v))
         /\ \A p \in Nth(Encode(v) \o s, 5) : p > CandidatePlace(v)
  <1>1. PICK m \in Seq(Nat) : m = Encode(v)
    BY ResponseIs
  <1>2. /\ Len(m) = 9 /\ m[1] = MAGIC /\ m[2] = DELIM_STR /\ m[3] \in {INQ_STR, VOTE_STR}
        /\ m[4] = DELIM_STR /\ m[5] = RESPONSE_STR /\ m[6] = DELIM_STR /\ m[8] = DELIM_STR
    BY <1>1, ResponseIs
  <1>3. PICK text : text = m \o s
    OBVIOUS
  <1>4. /\ Len(text) \in Nat /\ Len(text) >= 9 /\ \A k \in 1 .. 9 : text[k] = m[k]
    BY <1>2, <1>3, Begun
  <1>5. /\ text[1] = MAGIC /\ text[2] = DELIM_STR /\ text[3] \in {INQ_STR, VOTE_STR}
        /\ text[4] = DELIM_STR /\ text[5] = RESPONSE_STR /\ text[6] = DELIM_STR
        /\ text[8] = DELIM_STR
    BY <1>2, <1>4
  <1>6. ASSUME NEW q \in Starts(text), q <= 9
        PROVE  q \in Nat /\ q \in {1, 3, 5, 7, 9}
    <2>1. q \in Nat /\ q >= 1 /\ text[q] # DELIM_STR
      BY <1>6 DEF Starts
    <2>2. q # 2 /\ q # 4 /\ q # 6 /\ q # 8
      BY <1>5, <2>1
    <2>. QED BY <1>6, <2>1, <2>2
  <1>7. \A q \in Starts(text) : q \in Nat
    BY DEF Starts
  <1>8. ASSUME NEW q \in Starts(text), q <= 7 PROVE q \in {1, 3, 5, 7}
    <2>1. q <= 9
      BY <1>7, <1>8
    <2>. QED BY <1>6, <1>8, <2>1
  <1>9. ASSUME NEW q \in Starts(text), q <= 5 PROVE q \in {1, 3, 5}
    <2>1. q <= 7
      BY <1>7, <1>9
    <2>. QED BY <1>8, <1>9, <2>1
  <1>10. ASSUME NEW p \in Nth(text, 6) PROVE p > 9
    <2>1. p \in Nat
      BY <1>7 DEF Nth
    <2>2. IsFiniteSet({1, 3, 5, 7, 9}) /\ 6 > Cardinality({1, 3, 5, 7, 9})
      BY FewNumbers
    <2>. QED BY <1>6, <2>1, <2>2, NthIsBehind
  <1>11. ASSUME NEW p \in Nth(text, 5) PROVE p > 7
    <2>1. p \in Nat
      BY <1>7 DEF Nth
    <2>2. IsFiniteSet({1, 3, 5, 7}) /\ 5 > Cardinality({1, 3, 5, 7})
      BY FewNumbers
    <2>. QED BY <1>8, <2>1, <2>2, NthIsBehind
  <1>12. HasR(text)
    <2>1. 1 \in Starts(text) /\ 3 \in Starts(text) /\ 5 \in Starts(text)
      <3>1. 1 \in 1 .. Len(text) /\ 3 \in 1 .. Len(text) /\ 5 \in 1 .. Len(text)
        <4>1. ASSUME NEW n \in Nat, n >= 9 PROVE 1 \in 1 .. n /\ 3 \in 1 .. n /\ 5 \in 1 .. n
          BY ONLY <4>1
        <4>. QED BY <1>4, <4>1
      <3>2. text[1] # DELIM_STR /\ text[3] # DELIM_STR /\ text[5] # DELIM_STR
        BY <1>5 DEF MAGIC, DELIM_STR, INQ_STR, VOTE_STR, RESPONSE_STR
      <3>3. text[3 - 1] = DELIM_STR /\ text[5 - 1] = DELIM_STR
        BY <1>5
      <3>. QED BY <3>1, <3>2, <3>3 DEF Starts
    <2>2. {q \in Starts(text) : q <= 5} = {1, 3, 5}
      BY <1>9, <2>1
    <2>3. 5 \in Nth(text, 3)
      BY <2>1, <2>2, FewNumbers DEF Nth
    <2>4. text[5] \in {RESPONSE_STR} /\ text[5 + 1] = DELIM_STR
      BY <1>5
    <2>. QED BY <2>3, <2>4 DEF HasR, NthIsIn
  <1>. QED BY <1>1, <1>2, <1>3, <1>10, <1>11, <1>12 DEF CandidatePlace

(* Decode() of VoteEncodingText2.c gets back nothing that its own Encode() *)
(* makes, whatever the VoteInfo and the buffer held before: if it accepts  *)
(* the message at all it has read a word behind it, and has taken another  *)
(* word than the candidate for the candidate.                              *)
THEOREM Text2MisreadsItsOwn == Spec => []OwnMessagesMisread
  <1>1. ASSUME NEW v \in VoteInfo, NEW s \in Seq(Nat), NEW r \in BOOLEAN
        PROVE  /\ \A p \in Nth(Encode(v) \o s, LastAt(Encode(v) \o s, r)) : p > Len(Encode(v))
               /\ \A p \in Nth(Encode(v) \o s, CandidateAt(Encode(v) \o s)) : p > CandidatePlace(v)
    <2> DEFINE text == Encode(v) \o s
               c == CandidateAt(text)
               l == LastAt(text, r)
    <2>1. c \in {4, 5} /\ l \in {4, 5, 6}
      BY DEF LastAt, CandidateAt
    <2>2. CASE ~v.isResponse
      <3> HIDE DEF text, c, l
      <3>1. c \in Nat /\ c > 3 /\ l \in Nat /\ l > 3
        BY <2>1
      <3>. QED BY <2>2, <3>1, RequestMisread DEF text, c, l
    <2>3. CASE v.isResponse
      <3>1. HasR(text)
        BY <2>3, ResponseMisread
      <3>2. c = 5 /\ l = 6
        BY <3>1 DEF LastAt, CandidateAt
      <3>. QED BY <2>3, <3>2, ResponseMisread
    <2>. QED BY <2>2, <2>3
  <1>2. \A s \in Stale : s \in Seq(Nat)
    BY StaleAssumption
  <1>3. \A v \in VoteInfo : v \in Misread
    BY <1>1, <1>2 DEF Misread
  <1>4. OwnMessagesMisread
    BY <1>3 DEF OwnMessagesMisread
  <1>. QED BY <1>4, PTL
=============================================================================
