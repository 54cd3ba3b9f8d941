------------------------- MODULE NoiseSocketProofs -------------------------
(***************************************************************************)
(* Proofs about NoiseSocket for every window and every size of a Noise     *)
(* message, and every bound on what is written and heard.                  *)
(***************************************************************************)
EXTENDS NoiseSocket, Integers, FiniteSetTheorems, SequenceTheorems, TLAPS

USE SizeAssumption

Ends    == {"final", "destroy", "pump"}
NoClose == \A k \in 1..Len(wire) : ~IsClose(wire[k])

FinalSent == \E k \in 1..Len(wire) : wire[k] = Shut("final")

(* The nonce of the message the next payload after p belongs to.           *)
Follows(p) == p.n + (IF p.last THEN 1 ELSE 0)
Expected   == IF wire = <<>> THEN 0 ELSE Follows(wire[Len(wire)])

-----------------------------------------------------------------------------
(* How a stream ends, and what an end leaves out of the reckoning.         *)
EndsOK ==
  /\ ~ended => up /\ NoClose /\ ~destroyed /\ ~hungUp
  /\ ended => hungUp \/ ~up \/ destroyed \/ FinalSent \/ eof
  /\ ended /\ up /\ NoClose => hungUp
  /\ FinalSent => ending

(* No credit is made: what left the window is on the wire or was lost.     *)
CreditOK == credit + Cardinality(Payloads) <= Window + granted

(* What the consumer wrote has been sent, waits, or was dropped at an end. *)
Counts(s, r, b, w) ==
  /\ Cardinality(Payloads) + s + r + b <= w
  /\ ~ended => Cardinality(Payloads) + s + r + b = w

WrittenOK == Counts(sealed, rest, buffered, written)

(* The wire goes on where it stopped, as long as it goes on at all: with a *)
(* message under way if a seal is parked, with the next one otherwise.     *)
FlowOK ==
  /\ sealed > 0 => sendNonce > 0
  /\ up /\ NoClose /\ (~ended \/ credit > 0) =>
       Expected = IF sealed > 0 THEN sendNonce - 1 ELSE sendNonce
  /\ ~ended /\ sealed = 0 /\ wire # <<>> => wire[Len(wire)].last

WriteInv == EndsOK /\ CreditOK /\ WrittenOK /\ FlowOK /\ PhoneHears

(* What waits to be read is what the phone said last, in order; the first  *)
(* damaged message is number `good`.                                       *)
InboxOK ==
  /\ readNonce + Len(inbox) = said
  /\ \A k \in 1..Len(inbox) :
       /\ inbox[k].n = readNonce + k - 1
       /\ inbox[k].n < good => inbox[k].ok
       /\ inbox[k].n = good => ~inbox[k].ok

(* What the pump has pushed, before and after it ends.                     *)
HeardOK ==
  /\ HeardWithoutGaps
  /\ ~eof => readNonce <= good
  /\ ~eof /\ ~destroyed => Len(heard) = readNonce
  /\ eof /\ ~destroyed /\ ~FinalSent => Len(heard) = good /\ (good < said \/ hungUp \/ ~up)

ReadInv == InboxOK /\ HeardOK

(* Inductive.                                                              *)
Inv == TypeOK /\ WriteInv /\ ReadInv

-----------------------------------------------------------------------------
(* Division by the size of a message: n payloads fill Messages(n) of them, *)
(* with the last one full or not.                                          *)
Messages(n) == n \div MaxMsg
Full(n)     == n % MaxMsg = 0

(* A number is a quotient times the size of a message and a remainder      *)
(* below it.                                                               *)
LEMMA Division ==
  ASSUME NEW M \in Nat \ {0}, NEW a \in Nat
  PROVE  \E q \in Nat, x \in 0..(M - 1) : q = a \div M /\ x = a % M /\ a = M * q + x
<1>1. PICK q \in Nat : q = a \div M
  OBVIOUS
<1>2. PICK x \in 0..(M - 1) : x = a % M
  OBVIOUS
<1>3. x = a - M * q
  BY <1>1, <1>2
<1>4. PICK b \in Int : b = M * q
  OBVIOUS
<1>5. a = b + x
  BY <1>3, <1>4
<1>6. a = M * q + x
  BY <1>4, <1>5
<1> QED
  BY <1>1, <1>2, <1>6

(* There is only one such quotient.                                        *)
LEMMA DivisionIsUnique ==
  ASSUME NEW M \in Nat \ {0}, NEW p \in Nat, NEW q \in Nat, NEW x \in 0..(M - 1), NEW y \in 0..(M - 1),
         M * p + x = M * q + y
  PROVE  p = q /\ x = y
<1>1. ASSUME NEW a \in Nat, NEW b \in Nat, a < b
      PROVE  M * a + M <= M * b
  <2>1. PICK d \in Nat : b = a + 1 + d
    <3>1. b - a - 1 \in Nat /\ b = a + 1 + (b - a - 1)
      BY <1>1
    <3> QED
      BY <3>1
  <2>2. M * b = M * a + M + M * d /\ M * d \in Nat /\ M * a \in Nat
    BY <2>1
  <2> QED
    BY <2>2
<1>2. M * p \in Nat /\ M * q \in Nat
  OBVIOUS
<1>3. ~(p < q) /\ ~(q < p)
  BY <1>1, <1>2
<1>4. p = q
  BY <1>3
<1> QED
  BY <1>2, <1>4

(* A quotient and a remainder are what Messages and Full see.              *)
LEMMA QuotientIs ==
  ASSUME NEW a \in Nat, NEW q \in Nat, NEW x \in 0..(MaxMsg - 1), a = MaxMsg * q + x
  PROVE  Messages(a) = q /\ (Full(a) <=> x = 0)
<1>1. PICK M \in Nat \ {0} : M = MaxMsg
  OBVIOUS
<1>2. a \div M = q /\ a % M = x
  BY <1>1, Division, DivisionIsUnique
<1> QED
  BY <1>1, <1>2 DEF Messages, Full

(* The same, for the number there is.                                      *)
LEMMA QuotientExists ==
  ASSUME NEW a \in Nat
  PROVE  /\ Messages(a) \in Nat
         /\ \E x \in 0..(MaxMsg - 1) : a = MaxMsg * Messages(a) + x
<1>1. PICK M \in Nat \ {0} : M = MaxMsg
  OBVIOUS
<1> QED
  BY <1>1, Division DEF Messages

(* The next message begins when this one is full.                          *)
LEMMA NextQuotient ==
  ASSUME NEW j \in Nat
  PROVE  Messages(j + 1) = Messages(j) + (IF Full(j + 1) THEN 1 ELSE 0)
<1> DEFINE q == Messages(j)
<1>1. q \in Nat
  BY QuotientExists
<1>2. PICK x \in 0..(MaxMsg - 1) : j = MaxMsg * q + x
  BY QuotientExists
<1> HIDE DEF q
<1>3. CASE x + 1 = MaxMsg
  <2>1. j + 1 = MaxMsg * (q + 1) + 0 /\ 0 \in 0..(MaxMsg - 1)
    BY <1>1, <1>2, <1>3
  <2>2. Messages(j + 1) = q + 1 /\ Full(j + 1)
    BY <1>1, <2>1, QuotientIs
  <2> QED
    BY <1>1, <2>2 DEF q
<1>4. CASE x + 1 # MaxMsg
  <2>1. x + 1 \in 0..(MaxMsg - 1) /\ j + 1 = MaxMsg * q + (x + 1) /\ x + 1 # 0
    BY <1>1, <1>2, <1>4
  <2>2. Messages(j + 1) = q /\ ~Full(j + 1)
    BY <1>1, <2>1, QuotientIs
  <2> QED
    BY <1>1, <2>1, <2>2 DEF q
<1> QED
  BY <1>3, <1>4

(* Rounded up, one more payload than n fills one message more than n does  *)
(* whole.                                                                  *)
LEMMA MessagesAre ==
  /\ Messages(0) = 0 /\ MessagesOf(0) = 0
  /\ \A n \in Nat : MessagesOf(n + 1) = Messages(n) + 1
<1>1. \A n : MessagesOf(n) = Messages(n + MaxMsg - 1)
  BY DEF MessagesOf, Messages
<1>2. Messages(0) = 0
  <2>1. 0 \in 0..(MaxMsg - 1) /\ 0 = MaxMsg * 0 + 0
    OBVIOUS
  <2> QED
    BY <2>1, QuotientIs
<1>3. MessagesOf(0) = 0
  <2>1. MaxMsg - 1 \in 0..(MaxMsg - 1) /\ 0 + MaxMsg - 1 \in Nat /\ 0 + MaxMsg - 1 = MaxMsg * 0 + (MaxMsg - 1)
    OBVIOUS
  <2> QED
    BY <1>1, <2>1, QuotientIs
<1>4. ASSUME NEW n \in Nat PROVE MessagesOf(n + 1) = Messages(n) + 1
  <2> DEFINE q == Messages(n)
  <2>1. q \in Nat
    BY QuotientExists
  <2>2. PICK x \in 0..(MaxMsg - 1) : n = MaxMsg * q + x
    BY QuotientExists
  <2> HIDE DEF q
  <2>3. n + 1 + MaxMsg - 1 \in Nat /\ n + 1 + MaxMsg - 1 = MaxMsg * (q + 1) + x /\ q + 1 \in Nat
    BY <2>1, <2>2
  <2>4. Messages(n + 1 + MaxMsg - 1) = q + 1
    BY <2>2, <2>3, QuotientIs
  <2> QED
    BY <1>1, <2>4 DEF q
<1> QED
  BY <1>2, <1>3, <1>4

-----------------------------------------------------------------------------
(* A payload is not a CLOSE, and a CLOSE not a payload.                    *)
LEMMA Frames ==
  /\ \A p \in Piece : ~IsClose(p)
  /\ \A by \in Ends : Shut(by) \in [close : Ends] /\ IsClose(Shut(by))
<1>1. ASSUME NEW p \in Piece PROVE ~IsClose(p)
  <2>1. DOMAIN p = {"n", "last"}
    BY DEF Piece
  <2> QED
    BY <2>1 DEF IsClose
<1>2. ASSUME NEW by \in Ends PROVE Shut(by) \in [close : Ends] /\ IsClose(Shut(by))
  BY DEF IsClose, Shut
<1> QED
  BY <1>1, <1>2

(* The payloads of a chunk: how many, and which messages they are of.      *)
Chunk(P, s, r) ==
  /\ P \in Seq(Piece) /\ Len(P) = s + r
  /\ \A k \in 1..s : P[k].n = sendNonce - 1 /\ (P[k].last <=> k = s)
  /\ \A j \in 0..(r - 1) : P[s + j + 1].n = sendNonce + Messages(j)
  /\ \A j \in 0..(r - 1) : P[s + j + 1].last <=> Full(j + 1) \/ j + 1 = r

(* The payloads of a seal under way and of a chunk after it: which message *)
(* each belongs to, and which end one.                                     *)
LEMMA PiecesAre ==
  ASSUME NEW s \in Nat, NEW r \in Nat, sendNonce \in Nat, s > 0 => sendNonce > 0
  PROVE  Chunk(Pieces(s, r), s, r)
<1> DEFINE P == Pieces(s, r)
<1>1. ASSUME NEW k \in 1..(s + r), k <= s
      PROVE  P[k] \in Piece /\ P[k].n = sendNonce - 1 /\ (P[k].last <=> k = s)
  <2>1. PICK b \in BOOLEAN : b = (k = s)
    OBVIOUS
  <2>2. P[k] = [n |-> sendNonce - 1, last |-> b] /\ sendNonce - 1 \in Nat
    BY <1>1, <2>1 DEF Pieces
  <2> HIDE DEF P
  <2>3. P[k] \in Piece
    BY <2>1, <2>2 DEF Piece
  <2>4. P[k].n = sendNonce - 1 /\ P[k].last = b
    BY <2>2
  <2> QED
    BY <2>1, <2>3, <2>4
<1>2. ASSUME NEW k \in 1..(s + r), k > s
      PROVE  /\ P[k] \in Piece /\ P[k].n = sendNonce + Messages(k - s - 1)
             /\ P[k].last <=> Full(k - s) \/ k = s + r
  <2>1. PICK b \in BOOLEAN : b = (Full(k - s) \/ k = s + r)
    OBVIOUS
  <2>2. k - s - 1 \in Nat /\ ~(k <= s)
    BY <1>2
  <2>3. PICK q \in Nat : q = Messages(k - s - 1)
    BY <2>2, QuotientExists
  <2>4. P[k] = [n |-> sendNonce + q, last |-> b]
    BY <2>1, <2>2, <2>3 DEF Pieces, Messages, Full
  <2> HIDE DEF P
  <2>5. P[k] \in Piece
    BY <2>1, <2>3, <2>4 DEF Piece
  <2>6. P[k].n = sendNonce + q /\ P[k].last = b
    BY <2>4
  <2> QED
    BY <2>1, <2>3, <2>5, <2>6
<1>3. ASSUME NEW k \in 1..(s + r) PROVE P[k] \in Piece
  BY <1>1, <1>2
<1>4. DOMAIN P = 1..(s + r) /\ P = [k \in 1..(s + r) |-> P[k]]
  BY DEF Pieces
<1> HIDE DEF P
<1>5. ASSUME NEW j \in 0..(r - 1)
      PROVE  /\ P[s + j + 1].n = sendNonce + Messages(j)
             /\ P[s + j + 1].last <=> Full(j + 1) \/ j + 1 = r
  <2>1. PICK k \in 1..(s + r) : k = s + j + 1
    OBVIOUS
  <2>2. k > s /\ k - s - 1 = j /\ k - s = j + 1 /\ (k = s + r <=> j + 1 = r)
    BY <2>1
  <2> QED
    BY <1>2, <2>1, <2>2
<1>6. P \in Seq(Piece) /\ Len(P) = s + r
  <2>1. P \in [1..(s + r) -> Piece]
    BY <1>3, <1>4
  <2>2. s + r \in Nat
    OBVIOUS
  <2> QED
    BY <2>1, <2>2, SeqDef, LenProperties
<1>7. \A k \in 1..s : P[k].n = sendNonce - 1 /\ (P[k].last <=> k = s)
  BY <1>1
<1> QED
  BY <1>5, <1>6, <1>7 DEF P, Chunk

(* The nonces of such a chunk: from the message under way, if one is, each  *)
(* payload's follows the one before, and the last closes the last message.  *)
Chained(P, s, r) ==
  /\ P[1].n = IF s > 0 THEN sendNonce - 1 ELSE sendNonce
  /\ \A k \in 1..(s + r - 1) : P[k + 1].n = Follows(P[k])
  /\ P[s + r].last
  /\ Follows(P[s + r]) = sendNonce + MessagesOf(r)

(* Each payload goes on with the message of the one before it, or with the *)
(* next; the whole chunk ends with a message.                              *)
LEMMA PiecesFollow ==
  ASSUME NEW s \in Nat, NEW r \in Nat, sendNonce \in Nat, s > 0 => sendNonce > 0, s + r > 0
  PROVE  Chained(Pieces(s, r), s, r)
<1> DEFINE P == Pieces(s, r)
<1>0. Chunk(P, s, r)
  BY PiecesAre
<1> HIDE DEF P
<1>1. \A k \in 1..s : P[k].n = sendNonce - 1 /\ (P[k].last <=> k = s)
  BY <1>0 DEF Chunk
<1>2. ASSUME NEW j \in 0..(r - 1)
      PROVE  P[s + j + 1].n = sendNonce + Messages(j) /\ (P[s + j + 1].last <=> Full(j + 1) \/ j + 1 = r)
  BY <1>0 DEF Chunk
<1>3. r > 0 => P[s + 1].n = sendNonce
  <2> SUFFICES ASSUME r > 0 PROVE P[s + 1].n = sendNonce
    OBVIOUS
  <2>1. 0 \in 0..(r - 1) /\ s + 0 + 1 = s + 1
    OBVIOUS
  <2>2. P[s + 0 + 1].n = sendNonce + Messages(0)
    BY <1>2, <2>1
  <2> QED
    BY <2>1, <2>2, MessagesAre
<1>4. P[1].n = IF s > 0 THEN sendNonce - 1 ELSE sendNonce
  <2>1. CASE s > 0
    BY <1>1, <2>1
  <2>2. CASE s = 0
    BY <1>3, <2>2
  <2> QED
    BY <2>1, <2>2
<1>5. ASSUME NEW k \in 1..(s + r - 1) PROVE P[k + 1].n = Follows(P[k])
  <2>1. CASE k < s
    BY <1>1, <2>1 DEF Follows
  <2>2. CASE k = s
    <3>1. r > 0 /\ k \in 1..s
      BY <2>2
    <3> QED
      BY <1>1, <1>3, <2>2, <3>1 DEF Follows
  <2>3. CASE k > s
    <3>1. PICK j \in 0..(r - 2) : k = s + j + 1
      <4>1. k - s - 1 \in 0..(r - 2) /\ k = s + (k - s - 1) + 1
        BY <2>3
      <4> QED
        BY <4>1
    <3>2. j \in 0..(r - 1) /\ j + 1 \in 0..(r - 1) /\ j + 1 # r /\ k + 1 = s + (j + 1) + 1 /\ j \in Nat
      BY <3>1
    <3>3. P[k].n = sendNonce + Messages(j) /\ (P[k].last <=> Full(j + 1))
      BY <1>2, <3>1, <3>2
    <3>4. P[k + 1].n = sendNonce + Messages(j + 1)
      BY <1>2, <3>2
    <3>5. Messages(j) \in Nat
      BY <3>2, QuotientExists
    <3>6. Messages(j + 1) = Messages(j) + (IF P[k].last THEN 1 ELSE 0)
      BY <3>2, <3>3, NextQuotient
    <3> QED
      BY <3>3, <3>4, <3>5, <3>6 DEF Follows
  <2> QED
    BY <2>1, <2>2, <2>3
<1>6. P[s + r].last /\ Follows(P[s + r]) = sendNonce + MessagesOf(r)
  <2>1. CASE r = 0
    <3>1. s + r \in 1..s /\ s + r = s
      BY <2>1
    <3> QED
      BY <1>1, <2>1, <3>1, MessagesAre DEF Follows
  <2>2. CASE r > 0
    <3>1. PICK j \in 0..(r - 1) : r = j + 1
      <4>1. r - 1 \in 0..(r - 1) /\ r = (r - 1) + 1
        BY <2>2
      <4> QED
        BY <4>1
    <3>2. s + r = s + j + 1 /\ j \in Nat
      BY <3>1
    <3>3. P[s + r].n = sendNonce + Messages(j) /\ P[s + r].last
      BY <1>2, <3>1, <3>2
    <3>4. MessagesOf(r) = Messages(j) + 1 /\ Messages(j) \in Nat
      BY <3>1, <3>2, MessagesAre, QuotientExists
    <3> QED
      BY <3>3, <3>4 DEF Follows
  <2> QED
    BY <2>1, <2>2
<1> HIDE DEF P
<1>7. Chained(P, s, r)
  BY <1>4, <1>5, <1>6 DEF Chained
<1> QED
  BY <1>7 DEF P

-----------------------------------------------------------------------------
(* The payloads on the wire can be counted.                                *)
LEMMA PayloadsFinite ==
  ASSUME TypeOK
  PROVE  IsFiniteSet(Payloads) /\ Cardinality(Payloads) \in Nat
<1>1. Len(wire) \in Nat
  BY LenProperties DEF TypeOK
<1>2. IsFiniteSet(1..Len(wire)) /\ Payloads \subseteq 1..Len(wire)
  BY <1>1, FS_Interval DEF Payloads
<1> QED
  BY <1>2, FS_Subset, FS_CardinalityType

(* Without a CLOSE, all that is on the wire is payload.                    *)
LEMMA PayloadsAreAll ==
  ASSUME TypeOK, NoClose
  PROVE  Cardinality(Payloads) = Len(wire)
<1>1. Len(wire) \in Nat
  BY LenProperties DEF TypeOK
<1>2. Payloads = 1..Len(wire)
  BY DEF NoClose, Payloads
<1>3. Cardinality(1..Len(wire)) = IF 1 > Len(wire) THEN 0 ELSE Len(wire) - 1 + 1
  BY <1>1, FS_Interval
<1> QED
  BY <1>1, <1>2, <1>3

(* What is on the wire after some payloads, and how much.                  *)
LEMMA EmitIs ==
  ASSUME TypeOK, NEW p \in Seq(Piece), wire' = wire \o p
  PROVE  /\ wire' \in Seq(Piece \cup [close : Ends])
         /\ Len(wire') = Len(wire) + Len(p) /\ Len(wire) \in Nat /\ Len(p) \in Nat
         /\ \A k \in 1..Len(wire) : wire'[k] = wire[k]
         /\ \A j \in 1..Len(p) : wire'[Len(wire) + j] = p[j] /\ p[j] \in Piece
         /\ Cardinality(Payloads') = Cardinality(Payloads) + Len(p)
         /\ NoClose' <=> NoClose
         /\ FinalSent' <=> FinalSent
<1>1. wire \in Seq(Piece \cup [close : Ends]) /\ p \in Seq(Piece \cup [close : Ends])
  <2>1. wire \in Seq(Piece \cup [close : Ends])
    BY DEF TypeOK, Ends
  <2>2. Piece \subseteq Piece \cup [close : Ends]
    OBVIOUS
  <2> HIDE DEF Piece
  <2>3. p \in Seq(Piece \cup [close : Ends])
    BY <2>2, SeqDef
  <2> QED
    BY <2>1, <2>3
<1>2. /\ wire' \in Seq(Piece \cup [close : Ends])
      /\ Len(wire') = Len(wire) + Len(p) /\ Len(wire) \in Nat /\ Len(p) \in Nat
      /\ \A k \in 1..Len(wire) : wire'[k] = wire[k]
  BY <1>1, ConcatProperties, LenProperties
<1>3. ASSUME NEW j \in 1..Len(p)
      PROVE  wire'[Len(wire) + j] = p[j] /\ p[j] \in Piece /\ ~IsClose(p[j])
  <2>1. PICK k \in 1..(Len(wire) + Len(p)) : k = Len(wire) + j /\ k > Len(wire) /\ k - Len(wire) = j
    BY <1>2
  <2>2. wire'[k] = p[k - Len(wire)]
    BY <1>1, <1>2, <2>1, ConcatProperties
  <2>3. p[j] \in Piece
    BY ElementOfSeq
  <2> QED
    BY <2>1, <2>2, <2>3, Frames
<1>4. ASSUME NEW k \in 1..Len(wire'), k > Len(wire)
      PROVE  ~IsClose(wire'[k])
  <2>1. PICK j \in 1..Len(p) : k = Len(wire) + j
    <3>1. k - Len(wire) \in 1..Len(p) /\ k = Len(wire) + (k - Len(wire))
      BY <1>2, <1>4
    <3> QED
      BY <3>1
  <2> QED
    BY <1>3, <2>1
<1>5. Cardinality(Payloads') = Cardinality(Payloads) + Len(p)
  <2> DEFINE New == (Len(wire) + 1)..(Len(wire) + Len(p))
  <2>1. Payloads' = Payloads \cup New
    <3>1. ASSUME NEW k \in 1..Len(wire') PROVE k \in Payloads' <=> k \in Payloads \cup New
      <4>1. CASE k <= Len(wire)
        BY <1>2, <4>1 DEF Payloads
      <4>2. CASE k > Len(wire)
        BY <1>2, <1>4, <4>2 DEF Payloads
      <4> QED
        BY <1>2, <4>1, <4>2
    <3>2. Payloads' \subseteq 1..Len(wire') /\ Payloads \cup New \subseteq 1..Len(wire')
      BY <1>2 DEF Payloads
    <3> QED
      BY <3>1, <3>2
  <2>2. Payloads \cap New = {}
    BY <1>2 DEF Payloads
  <2>3. IsFiniteSet(New) /\ Cardinality(New) = Len(p)
    <3>1. Len(wire) + 1 \in Int /\ Len(wire) + Len(p) \in Int
      BY <1>2
    <3>2. IsFiniteSet(New) /\ Cardinality(New) =
             IF Len(wire) + 1 > Len(wire) + Len(p) THEN 0 ELSE (Len(wire) + Len(p)) - (Len(wire) + 1) + 1
      BY <3>1, FS_Interval
    <3> QED
      BY <1>2, <3>2
  <2> HIDE DEF New
  <2>4. IsFiniteSet(Payloads) /\ Cardinality(Payloads) \in Nat
    BY PayloadsFinite
  <2>5. Cardinality(Payloads \cup New) =
          Cardinality(Payloads) + Cardinality(New) - Cardinality(Payloads \cap New)
    BY <2>3, <2>4, FS_Union
  <2>6. Cardinality(Payloads \cap New) = 0
    BY <2>2, FS_EmptySet
  <2> QED
    BY <1>2, <2>1, <2>3, <2>4, <2>5, <2>6
<1>6. NoClose' <=> NoClose
  <2>1. 1..Len(wire) \subseteq 1..Len(wire')
    BY <1>2
  <2>2. \A k \in 1..Len(wire') : k <= Len(wire) => k \in 1..Len(wire)
    BY <1>2
  <2>3. \A k \in 1..Len(wire') : k <= Len(wire) \/ k > Len(wire)
    BY <1>2
  <2> QED
    BY <1>2, <1>4, <2>1, <2>2, <2>3 DEF NoClose
<1>7. FinalSent' <=> FinalSent
  <2>1. IsClose(Shut("final"))
    BY Frames DEF Ends
  <2>2. 1..Len(wire) \subseteq 1..Len(wire')
    BY <1>2
  <2>3. \A k \in 1..Len(wire') : k \in 1..Len(wire) \/ k > Len(wire)
    BY <1>2
  <2> QED
    BY <1>2, <1>4, <2>1, <2>2, <2>3 DEF FinalSent
<1> QED
  BY <1>2, <1>3, <1>5, <1>6, <1>7

(* ... and after a CLOSE.                                                  *)
LEMMA CloseIs ==
  ASSUME TypeOK, NEW by \in Ends, wire' = Append(wire, Shut(by))
  PROVE  /\ wire' \in Seq(Piece \cup [close : Ends])
         /\ Len(wire') = Len(wire) + 1 /\ Len(wire) \in Nat
         /\ \A k \in 1..Len(wire) : wire'[k] = wire[k]
         /\ wire'[Len(wire) + 1] = Shut(by)
         /\ Payloads' = Payloads
         /\ ~NoClose'
         /\ FinalSent' <=> FinalSent \/ by = "final"
<1> DEFINE T == Piece \cup [close : Ends]
<1>1. wire \in Seq(T) /\ Shut(by) \in T
  BY Frames DEF TypeOK, Ends
<1> HIDE DEF T
<1>2. /\ wire' \in Seq(T) /\ Len(wire') = Len(wire) + 1 /\ Len(wire) \in Nat
      /\ \A k \in 1..Len(wire) : wire'[k] = wire[k]
      /\ wire'[Len(wire) + 1] = Shut(by)
  BY <1>1, AppendProperties, LenProperties
<1>3. IsClose(Shut(by))
  BY Frames
<1>4. \A k \in 1..Len(wire') : k \in 1..Len(wire) \/ k = Len(wire) + 1
  BY <1>2
<1>5. 1..Len(wire) \subseteq 1..Len(wire') /\ Len(wire) + 1 \in 1..Len(wire')
  BY <1>2
<1>6. Payloads' = Payloads
  BY <1>2, <1>3, <1>4, <1>5 DEF Payloads
<1>7. ~NoClose'
  BY <1>2, <1>3, <1>5 DEF NoClose
<1>8. FinalSent' <=> FinalSent \/ by = "final"
  <2>1. Shut(by) = Shut("final") <=> by = "final"
    BY DEF Shut
  <2> QED
    BY <1>2, <1>4, <1>5, <2>1 DEF FinalSent
<1> QED
  BY <1>2, <1>6, <1>7, <1>8 DEF T

(* The order on the wire, one frame at a time.                             *)
OrderedAt(k) ==
  (\A c \in 1..Len(wire) : IsClose(wire[c]) => k < c) =>
    wire[k].n = IF k = 1 THEN 0 ELSE Follows(wire[k - 1])

(* SealedInOrder is the order at each frame.                               *)
LEMMA OrderIs ==
  /\ SealedInOrder <=> \A k \in 1..Len(wire) : OrderedAt(k)
  /\ SealedInOrder' <=> \A k \in 1..Len(wire') : OrderedAt(k)'
<1>1. SealedInOrder <=> \A k \in 1..Len(wire) : OrderedAt(k)
  BY DEF SealedInOrder, OrderedAt, Follows
<1>2. SealedInOrder' <=> \A k \in 1..Len(wire') : OrderedAt(k)'
  BY DEF SealedInOrder, OrderedAt, Follows
<1> QED
  BY <1>1, <1>2

(* What the wire held keeps its order whatever follows.                    *)
LEMMA OldOrder ==
  ASSUME SealedInOrder, Len(wire) \in Nat, Len(wire') \in Nat, Len(wire) <= Len(wire'),
         \A k \in 1..Len(wire) : wire'[k] = wire[k]
  PROVE  \A k \in 1..Len(wire) : OrderedAt(k)'
<1> SUFFICES ASSUME NEW k \in 1..Len(wire),
                    \A c \in 1..Len(wire') : IsClose(wire'[c]) => k < c
             PROVE  wire'[k].n = IF k = 1 THEN 0 ELSE Follows(wire'[k - 1])
  BY DEF OrderedAt
<1>1. ASSUME NEW c \in 1..Len(wire), IsClose(wire[c]) PROVE k < c
  BY <1>1
<1>2. wire[k].n = IF k = 1 THEN 0 ELSE Follows(wire[k - 1])
  BY <1>1, OrderIs DEF OrderedAt
<1>3. k = 1 \/ k - 1 \in 1..Len(wire)
  OBVIOUS
<1> QED
  BY <1>2, <1>3

(* Payloads that go on where the wire stopped.                             *)
LEMMA EmitInOrder ==
  ASSUME TypeOK, PhoneHears, NEW p \in Seq(Piece), wire' = wire \o p,
         NoClose => /\ p # <<>> => p[1].n = Expected
                    /\ \A k \in 1..(Len(p) - 1) : p[k + 1].n = Follows(p[k]),
         FinalSent => written' = written
  PROVE  PhoneHears'
<1>1. /\ Len(wire') = Len(wire) + Len(p) /\ Len(wire) \in Nat /\ Len(p) \in Nat
      /\ \A k \in 1..Len(wire) : wire'[k] = wire[k]
      /\ \A j \in 1..Len(p) : wire'[Len(wire) + j] = p[j]
      /\ FinalSent' <=> FinalSent
      /\ \A j \in 1..Len(p) : p[j] \in Piece
  BY EmitIs
<1>2. SealedInOrder'
  <2>1. \A k \in 1..Len(wire) : OrderedAt(k)'
    BY <1>1, OldOrder DEF PhoneHears
  <2>2. ASSUME NEW j \in 1..Len(p), NEW k, k = Len(wire) + j PROVE OrderedAt(k)'
    <3> SUFFICES ASSUME \A c \in 1..Len(wire') : IsClose(wire'[c]) => k < c
                 PROVE  wire'[k].n = IF k = 1 THEN 0 ELSE Follows(wire'[k - 1])
      BY DEF OrderedAt
    <3>1. NoClose
      <4>1. ASSUME NEW c \in 1..Len(wire), IsClose(wire[c]) PROVE FALSE
        BY <1>1, <2>2, <4>1
      <4> QED
        BY <4>1 DEF NoClose
    <3>2. CASE j = 1
      <4>1. p # <<>> /\ p[1].n = Expected
        BY <1>1, <3>1, <3>2
      <4>2. k = Len(wire) + 1 /\ k - 1 = Len(wire) /\ (k = 1 <=> Len(wire) = 0)
        BY <1>1, <2>2, <3>2
      <4>3. wire'[k].n = Expected
        BY <1>1, <2>2, <3>2, <4>1
      <4>4. CASE wire = <<>>
        BY <4>2, <4>3, <4>4 DEF Expected
      <4>5. CASE wire # <<>>
        <5>1. Len(wire) # 0
          BY <4>5, EmptySeq DEF TypeOK
        <5>2. wire'[Len(wire)] = wire[Len(wire)]
          BY <1>1, <5>1
        <5> QED
          BY <4>2, <4>3, <4>5, <5>1, <5>2 DEF Expected
      <4> QED
        BY <4>4, <4>5
    <3>3. CASE j # 1
      <4>1. PICK i \in 1..(Len(p) - 1) : j = i + 1
        <5>1. j - 1 \in 1..(Len(p) - 1) /\ j = (j - 1) + 1
          BY <1>1, <3>3
        <5> QED
          BY <5>1
      <4>2. p[j].n = Follows(p[i]) /\ i \in 1..Len(p)
        BY <1>1, <3>1, <4>1
      <4>3. k - 1 = Len(wire) + i /\ k # 1
        BY <1>1, <2>2, <4>1
      <4> QED
        BY <1>1, <2>2, <4>2, <4>3
    <3> QED
      BY <3>2, <3>3
  <2>3. ASSUME NEW k \in 1..Len(wire') PROVE OrderedAt(k)'
    <3>1. CASE k \in 1..Len(wire)
      BY <2>1, <3>1
    <3>2. CASE k \notin 1..Len(wire)
      <4>1. PICK j \in 1..Len(p) : k = Len(wire) + j
        <5>1. k - Len(wire) \in 1..Len(p) /\ k = Len(wire) + (k - Len(wire))
          BY <1>1, <3>2
        <5> QED
          BY <5>1
      <4> QED
        BY <2>2, <4>1
    <3> QED
      BY <3>1, <3>2
  <2> QED
    BY <2>3, OrderIs
<1>3. EndedIsWhole'
  <2> SUFFICES ASSUME NEW k \in 1..Len(wire'), wire'[k] = Shut("final")
               PROVE  k = written' + 1 /\ (k > 1 => wire'[k - 1].last)
    BY DEF EndedIsWhole
  <2>1. k \in 1..Len(wire)
    <3>1. SUFFICES ASSUME k \notin 1..Len(wire) PROVE FALSE
      OBVIOUS
    <3>2. PICK j \in 1..Len(p) : k = Len(wire) + j
      <4>1. k - Len(wire) \in 1..Len(p) /\ k = Len(wire) + (k - Len(wire))
        BY <1>1, <3>1
      <4> QED
        BY <4>1
    <3> QED
      BY <1>1, <3>2, Frames DEF Ends
  <2>2. wire[k] = Shut("final") /\ FinalSent
    BY <1>1, <2>1 DEF FinalSent
  <2>3. k = written + 1 /\ (k > 1 => wire[k - 1].last) /\ written' = written
    BY <2>1, <2>2 DEF PhoneHears, EndedIsWhole
  <2>4. k = 1 \/ k - 1 \in 1..Len(wire)
    BY <2>1
  <2> QED
    BY <1>1, <2>1, <2>3, <2>4
<1> QED
  BY <1>2, <1>3 DEF PhoneHears

-----------------------------------------------------------------------------
(* How many messages a seal has begun after `sent` payloads, and how much  *)
(* of the chunk they hold.                                                 *)
Opened(s, sent)    == IF sent < s THEN 0 ELSE MessagesOf(sent - s + 1)
After(s, r, sent)  == Lesser(Opened(s, sent) * MaxMsg, r)

(* What a seal has in hand when it parks: part of a message, or one not    *)
(* begun, that has its nonce.                                              *)
InHand(s, r, sent) ==
  /\ Opened(s, sent) \in Nat /\ After(s, r, sent) \in 0..r
  /\ s + After(s, r, sent) - sent \in 1..MaxMsg
  /\ sendNonce + Opened(s, sent) > 0
  /\ Pieces(s, r)[sent + 1].n = sendNonce + Opened(s, sent) - 1

(* What is left when the credit runs out within a chunk: a message that is *)
(* under way, and what no message holds yet.                               *)
LEMMA ParkIs ==
  ASSUME NEW s \in Nat, s <= MaxMsg, NEW r \in Nat, NEW sent \in Nat,
         sendNonce \in Nat, s > 0 => sendNonce > 0,
         sent < s + r
  PROVE  InHand(s, r, sent)
<1> DEFINE P == Pieces(s, r)
           opened == Opened(s, sent)
           after  == After(s, r, sent)
<1>0. Chunk(P, s, r)
  BY PiecesAre
<1> HIDE DEF P
<1>1. CASE sent < s
  <2>1. opened = 0 /\ 0 * MaxMsg = 0
    BY <1>1 DEF Opened
  <2>2. after = 0
    BY <2>1 DEF After, Lesser
  <2>3. P[sent + 1].n = sendNonce - 1
    BY <1>0, <1>1 DEF Chunk
  <2> QED
    BY <1>1, <2>1, <2>2, <2>3 DEF P, InHand
<1>2. CASE sent >= s
  <2>1. PICK j \in 0..(r - 1) : sent = s + j
    <3>1. sent - s \in 0..(r - 1) /\ sent = s + (sent - s)
      BY <1>2
    <3> QED
      BY <3>1
  <2>2. PICK q \in Nat : q = Messages(j)
    BY QuotientExists
  <2>3. PICK x \in 0..(MaxMsg - 1) : j = MaxMsg * q + x
    BY <2>2, QuotientExists
  <2>4. opened = q + 1
    <3>1. sent - s + 1 = j + 1 /\ j \in Nat
      BY <2>1
    <3> QED
      BY <1>2, <2>2, <3>1, MessagesAre DEF Opened
  <2>5. PICK m \in Nat : m = MaxMsg * q
    OBVIOUS
  <2>6. opened * MaxMsg = m + MaxMsg
    BY <2>4, <2>5
  <2>7. after = IF m + MaxMsg < r THEN m + MaxMsg ELSE r
    BY <2>6 DEF After, Lesser
  <2>8. after \in 0..r /\ s + after - sent \in 1..MaxMsg
    BY <2>1, <2>3, <2>5, <2>7
  <2>9. P[s + j + 1].n = sendNonce + q
    BY <1>0, <2>2 DEF Chunk
  <2> QED
    BY <2>1, <2>4, <2>8, <2>9 DEF P, InHand
<1> QED
  BY <1>1, <1>2

(* A seal that goes on, to its end, to the end of the credit, or into a    *)
(* stream that has ended.                                                  *)
LEMMA SealOnStep ==
  ASSUME TypeOK, EndsOK, CreditOK, FlowOK, PhoneHears,
         NEW s \in Nat, NEW r \in Nat, NEW b \in Nat, NEW w \in Nat, w <= MaxWritten,
         s = sealed, SealOn(s, r), buffered' = b, written' = w,
         Counts(s, r, b, w), FinalSent => w = written,
         UNCHANGED <<readVars, ending, destroyed, ended, up, granted, hungUp>>
  PROVE  TypeOK' /\ WriteInv' /\ (FinalSent' <=> FinalSent)
<1> DEFINE P == Pieces(s, r)
<1>1. PICK c \in Nat, n \in Nat, m \in Nat :
        /\ c = credit /\ n = sendNonce /\ m = Cardinality(Payloads)
        /\ c <= Window /\ s <= MaxMsg /\ (s > 0 => n > 0)
  <2>1. credit \in Nat /\ credit <= Window /\ sendNonce \in Nat /\ sealed <= MaxMsg
    BY DEF TypeOK
  <2>2. Cardinality(Payloads) \in Nat
    BY PayloadsFinite
  <2>3. s > 0 => sendNonce > 0
    BY DEF FlowOK
  <2> QED
    BY <2>1, <2>2, <2>3
<1>2. PICK sent \in Nat :
        /\ sent = Lesser(credit, s + r)
        /\ sent <= c /\ sent <= s + r /\ (sent = c \/ sent = s + r)
  <2>1. Lesser(c, s + r) = IF c < s + r THEN c ELSE s + r
    BY DEF Lesser
  <2> QED
    BY <1>1, <2>1
<1>3. P \in Seq(Piece) /\ Len(P) = s + r
  <2>1. Chunk(P, s, r)
    BY <1>1, PiecesAre
  <2> HIDE DEF P
  <2> QED
    BY <2>1 DEF Chunk
<1>4. PICK p \in Seq(Piece) :
        p = SubSeq(P, 1, sent) /\ Len(p) = sent /\ \A k \in 1..sent : p[k] = P[k]
  <2> HIDE DEF P, Piece
  <2>1. ASSUME NEW k \in 1..sent PROVE P[k] \in Piece
    <3>1. k \in 1..Len(P)
      BY <1>2, <1>3
    <3> QED
      BY <1>3, <3>1, ElementOfSeq
  <2> DEFINE Q == SubSeq(P, 1, sent)
  <2>2. /\ Q \in Seq(Piece) /\ Len(Q) = IF 1 <= sent THEN sent - 1 + 1 ELSE 0
        /\ \A k \in 1..(sent - 1 + 1) : Q[k] = P[1 + k - 1]
    BY <2>1, SubSeqProperties
  <2> HIDE DEF Q
  <2>3. Len(Q) = sent
    BY <2>2
  <2>4. ASSUME NEW k \in 1..sent PROVE Q[k] = P[k]
    <3>1. k \in 1..(sent - 1 + 1) /\ 1 + k - 1 = k
      OBVIOUS
    <3> QED
      BY <2>2, <3>1
  <2> QED
    BY <2>2, <2>3, <2>4 DEF Q
<1>5. credit' = c - sent /\ wire' = IF up THEN wire \o p ELSE wire
  BY <1>1, <1>2, <1>4 DEF SealOn, Emit
<1>6. ASSUME s + r > 0
      PROVE  /\ P[1].n = IF s > 0 THEN n - 1 ELSE n
             /\ \A k \in 1..(s + r - 1) : P[k + 1].n = Follows(P[k])
             /\ P[s + r].last /\ Follows(P[s + r]) = n + MessagesOf(r)
  <2>1. sendNonce \in Nat /\ (s > 0 => sendNonce > 0)
    BY <1>1
  <2>2. Chained(P, s, r)
    BY <1>6, <2>1, PiecesFollow
  <2> HIDE DEF P
  <2> QED
    BY <1>1, <2>2 DEF Chained
<1> HIDE DEF P
<1>7. PICK q \in Nat : q = MessagesOf(r) /\ (r = 0 => q = 0)
  <2>1. CASE r = 0
    BY <2>1, MessagesAre
  <2>2. CASE r # 0
    <3>1. PICK j \in Nat : r = j + 1
      <4>1. r - 1 \in Nat /\ r = (r - 1) + 1
        BY <2>2
      <4> QED
        BY <4>1
    <3>2. MessagesOf(j + 1) = Messages(j) + 1 /\ Messages(j) \in Nat
      BY MessagesAre, QuotientExists
    <3> QED
      BY <2>2, <3>1, <3>2
  <2> QED
    BY <2>1, <2>2
(* The two ways out.                                                       *)
<1> DEFINE Done(S, R, N) == (sent = s + r \/ ended) /\ S = 0 /\ R = 0 /\ N = n + q
           Parks(S, R, N) == /\ sent < s + r /\ ~ended /\ S > 0 /\ S + R = s + r - sent
                             /\ N > 0 /\ P[sent + 1].n = N - 1
<1>8. PICK S \in Nat, R \in Nat, N \in Nat :
        /\ sealed' = S /\ rest' = R /\ sendNonce' = N /\ S <= MaxMsg
        /\ (Done(S, R, N) /\ busy' = FALSE) \/ (Parks(S, R, N) /\ busy' = TRUE)
  <2>1. PICK opened : opened = Opened(s, sent)
    OBVIOUS
  <2>2. PICK after : after = After(s, r, sent)
    OBVIOUS
  <2>3. CASE /\ sent = s + r \/ ended
             /\ busy' = FALSE /\ sealed' = 0 /\ rest' = 0 /\ sendNonce' = n + q
    <3>1. n + q \in Nat /\ 0 <= MaxMsg
      OBVIOUS
    <3>2. Done(0, 0, n + q)
      BY <2>3
    <3> HIDE DEF Done, Parks
    <3> QED
      BY <2>3, <3>1, <3>2
  <2>4. CASE /\ sent < s + r /\ ~ended /\ busy' = TRUE
             /\ sendNonce' = n + opened /\ sealed' = s + after - sent /\ rest' = r - after
    <3>1. /\ opened \in Nat /\ after \in 0..r /\ s + after - sent \in 1..MaxMsg
          /\ n + opened > 0 /\ P[sent + 1].n = n + opened - 1
      <4>1. sendNonce \in Nat /\ (s > 0 => sendNonce > 0) /\ s <= MaxMsg /\ sent < s + r
        BY <1>1, <2>4
      <4>2. InHand(s, r, sent)
        BY <4>1, ParkIs
      <4> QED
        BY <1>1, <2>1, <2>2, <4>2 DEF P, InHand
    <3>2. PICK o \in Nat, a \in Nat, S \in Nat : o = opened /\ a = after /\ S = s + after - sent
      BY <3>1
    <3>3. a <= r /\ S > 0 /\ S <= MaxMsg /\ r - a \in Nat /\ n + o \in Nat
      BY <3>1, <3>2
    <3>4. Parks(S, r - a, n + o)
      <4>1. S + (r - a) = s + r - sent
        BY <3>2
      <4> QED
        BY <2>4, <3>1, <3>2, <3>3, <4>1
    <3> HIDE DEF Done, Parks
    <3> QED
      BY <2>4, <3>2, <3>3, <3>4
  <2> QED
    BY <1>1, <1>2, <1>7, <2>1, <2>2, <2>3, <2>4 DEF SealOn, Opened, After
<1>9. PICK d \in Nat :
        /\ d <= sent /\ (up => d = sent)
        /\ wire' \in Seq(Piece \cup [close : Ends])
        /\ Cardinality(Payloads') = m + d
        /\ NoClose' <=> NoClose
        /\ FinalSent' <=> FinalSent
  <2>1. CASE up
    <3>1. /\ wire' \in Seq(Piece \cup [close : Ends])
          /\ Cardinality(Payloads') = Cardinality(Payloads) + Len(p)
          /\ NoClose' <=> NoClose
          /\ FinalSent' <=> FinalSent
      BY <1>5, <2>1, EmitIs
    <3> QED
      BY <1>1, <1>4, <2>1, <3>1
  <2>2. CASE ~up
    <3>1. 0 \in Nat /\ 0 <= sent /\ m = m + 0 /\ wire' = wire
      BY <1>5, <2>2
    <3>2. Payloads' = Payloads /\ NoClose' = NoClose /\ FinalSent' = FinalSent
      BY <3>1 DEF Payloads, NoClose, FinalSent
    <3>3. wire' \in Seq(Piece \cup [close : Ends])
      BY <3>1 DEF TypeOK, Ends
    <3> QED
      BY <1>1, <2>2, <3>1, <3>2, <3>3
  <2> QED
    BY <2>1, <2>2
<1>10. m + s + r + b <= w /\ (~ended => m + s + r + b = w)
  BY <1>1 DEF Counts
<1>11. S + R <= s + r - sent /\ (~ended => S + R = s + r - sent)
  BY <1>2, <1>8
<1>12. TypeOK'
  <2>1. c - sent \in 0..Window
    BY <1>1, <1>2
  <2>2. S \in 0..MaxMsg
    BY <1>8
  <2>3. R <= w /\ b <= w
    BY <1>10, <1>11
  <2>4. R \in 0..MaxWritten /\ b \in 0..MaxWritten /\ w \in 0..MaxWritten
    BY <2>3
  <2>5. busy' \in BOOLEAN /\ (S + R > 0 => busy')
    <3>1. CASE busy' = FALSE
      <4>1. ~(S + R > 0)
        BY <1>8, <3>1
      <4> QED
        BY <3>1, <4>1
    <3>2. CASE busy' = TRUE
      BY <3>2
    <3> QED
      BY <1>8, <3>1, <3>2
  <2> QED
    BY <1>5, <1>8, <1>9, <2>1, <2>2, <2>4, <2>5 DEF TypeOK, readVars, Ends
<1>13. EndsOK'
  BY <1>9 DEF EndsOK, readVars
<1>14. CreditOK'
  <2>1. PICK g \in Nat : g = granted
    BY DEF TypeOK
  <2>2. c + m <= Window + g
    BY <1>1, <2>1 DEF CreditOK
  <2>3. (c - sent) + (m + d) <= Window + g
    BY <1>2, <1>9, <2>2
  <2> QED
    BY <1>5, <1>9, <2>1, <2>3 DEF CreditOK
<1>15. WrittenOK'
  <2>1. ended' = ended /\ (~ended => up)
    BY DEF EndsOK
  <2>2. (m + d) + S + R + b <= w /\ (~ended => (m + d) + S + R + b = w)
    BY <1>2, <1>9, <1>10, <1>11, <2>1
  <2> QED
    BY <1>8, <1>9, <2>1, <2>2 DEF WrittenOK, Counts
(* Where the wire stops, seen from the next payload.                       *)
<1>16. ASSUME up, NoClose, ~ended \/ c > 0, s + r > 0
       PROVE  Expected = P[1].n
  BY <1>1, <1>6, <1>16 DEF FlowOK
<1>17. PhoneHears'
  <2>1. CASE up
    <3>1. ASSUME NoClose
          PROVE  /\ p # <<>> => p[1].n = Expected
                 /\ \A k \in 1..(Len(p) - 1) : p[k + 1].n = Follows(p[k])
      <4>1. ASSUME p # <<>> PROVE p[1].n = Expected
        <5>1. Len(p) # 0
          BY <4>1, EmptySeq
        <5>2. sent > 0 /\ s + r > 0 /\ c > 0
          BY <1>2, <1>4, <5>1
        <5> QED
          BY <1>4, <1>16, <2>1, <3>1, <5>2
      <4>2. ASSUME NEW k \in 1..(Len(p) - 1) PROVE p[k + 1].n = Follows(p[k])
        <5>1. k \in 1..(sent - 1)
          BY <1>4
        <5>2. k \in 1..(s + r - 1) /\ k \in 1..sent /\ k + 1 \in 1..sent /\ s + r > 0
          BY <1>2, <5>1
        <5>3. P[k + 1].n = Follows(P[k])
          BY <1>6, <5>2
        <5> QED
          BY <1>4, <5>2, <5>3
      <4> QED
        BY <4>1, <4>2
    <3>2. FinalSent => written' = written
      OBVIOUS
    <3> QED
      BY <1>5, <2>1, <3>1, <3>2, EmitInOrder
  <2>2. CASE ~up
    <3>1. wire' = wire
      BY <1>5, <2>2
    <3>2. SealedInOrder'
      BY <3>1 DEF PhoneHears, SealedInOrder
    <3>3. EndedIsWhole'
      BY <3>1 DEF PhoneHears, EndedIsWhole, FinalSent
    <3> QED
      BY <3>2, <3>3 DEF PhoneHears
  <2> QED
    BY <2>1, <2>2
<1>18. ASSUME up
       PROVE  /\ sent = 0 => wire' = wire
              /\ sent > 0 => wire' # <<>> /\ wire'[Len(wire')] = P[sent]
  <2>1. Len(wire') = Len(wire) + sent /\ Len(wire) \in Nat /\ \A j \in 1..sent : wire'[Len(wire) + j] = p[j]
    BY <1>4, <1>5, <1>18, EmitIs
  <2>2. CASE sent = 0
    <3>1. p = <<>>
      BY <1>4, <2>2, EmptySeq
    <3>2. wire \o <<>> = wire
      BY ConcatEmptySeq DEF TypeOK
    <3> QED
      BY <1>5, <1>18, <2>2, <3>1, <3>2
  <2>3. CASE sent > 0
    <3>1. wire' # <<>>
      <4>1. Len(wire') # 0
        BY <2>1, <2>3
      <4> QED
        BY <4>1, EmptySeq
    <3>2. wire'[Len(wire) + sent] = p[sent] /\ p[sent] = P[sent]
      BY <1>4, <2>1, <2>3
    <3> QED
      BY <2>1, <2>3, <3>1, <3>2
  <2> QED
    BY <2>2, <2>3
<1>19. ASSUME up, NoClose, ~ended \/ c - sent > 0
       PROVE  Expected' = IF S > 0 THEN N - 1 ELSE N
  <2>1. CASE Done(S, R, N)
    <3>1. sent = s + r /\ S = 0 /\ N = n + q
      BY <1>2, <1>19, <2>1
    <3>2. CASE sent = 0
      <4>1. wire' = wire /\ r = 0 /\ s = 0 /\ q = 0 /\ (~ended \/ c > 0)
        BY <1>2, <1>7, <1>18, <1>19, <3>1, <3>2
      <4>2. Expected' = Expected
        BY <4>1 DEF Expected
      <4>3. Expected = n
        BY <1>1, <1>19, <4>1 DEF FlowOK
      <4> QED
        BY <3>1, <4>1, <4>2, <4>3
    <3>3. CASE sent > 0
      <4>1. Expected' = Follows(P[sent])
        BY <1>18, <1>19, <3>3 DEF Expected
      <4>2. s + r > 0
        BY <3>1, <3>3
      <4> QED
        BY <1>6, <1>7, <3>1, <4>1, <4>2
    <3> QED
      BY <3>2, <3>3
  <2>2. CASE Parks(S, R, N)
    <3>1. ~ended /\ sent < s + r /\ S > 0 /\ P[sent + 1].n = N - 1
      BY <2>2
    <3>2. CASE sent = 0
      <4>1. Expected' = Expected
        BY <1>18, <1>19, <3>2 DEF Expected
      <4>2. Expected = P[1].n
        BY <1>16, <1>19, <3>1, <3>2
      <4> QED
        BY <3>1, <3>2, <4>1, <4>2
    <3>3. CASE sent > 0
      <4>1. Expected' = Follows(P[sent])
        BY <1>18, <1>19, <3>3 DEF Expected
      <4>2. sent \in 1..(s + r - 1) /\ s + r > 0
        BY <3>1, <3>3
      <4> QED
        BY <1>6, <3>1, <4>1, <4>2
    <3> QED
      BY <3>2, <3>3
  <2> QED
    BY <1>8, <2>1, <2>2
<1>20. ASSUME ~ended, S = 0, wire' # <<>>
       PROVE  wire'[Len(wire')].last
  <2>1. sent = s + r /\ up
    BY <1>8, <1>20 DEF EndsOK
  <2>2. CASE sent = 0
    BY <1>18, <1>20, <2>1, <2>2 DEF FlowOK
  <2>3. CASE sent > 0
    BY <1>6, <1>18, <2>1, <2>3
  <2> QED
    BY <2>2, <2>3
<1>21. FlowOK'
  <2>1. S > 0 => N > 0
    BY <1>8
  <2> QED
    BY <1>5, <1>8, <1>9, <1>19, <1>20, <2>1 DEF FlowOK
<1> QED
  BY <1>9, <1>12, <1>13, <1>14, <1>15, <1>17, <1>21 DEF WriteInv

(* What a CLOSE changes: it ends the wire's order, and a "final" one comes *)
(* after all that was written.                                             *)
LEMMA CloseStep ==
  ASSUME TypeOK, WriteInv, NEW by \in Ends, CloseStream(by),
         UNCHANGED <<writeVars, credit, up, granted, hungUp>>,
         by = "final" => ending /\ ~ended /\ ~busy /\ buffered = 0,
         destroyed => destroyed', eof => eof',
         by = "destroy" => destroyed', by = "pump" => eof'
  PROVE  /\ wire' \in Seq(Piece \cup [close : Ends]) /\ ended' = TRUE
         /\ FinalSent => FinalSent'
         /\ by # "final" => (FinalSent' <=> FinalSent)
         /\ WriteInv'
<1>1. CASE up /\ ~ended
  <2>1. /\ wire' \in Seq(Piece \cup [close : Ends])
        /\ Len(wire') = Len(wire) + 1 /\ Len(wire) \in Nat
        /\ \A k \in 1..Len(wire) : wire'[k] = wire[k]
        /\ wire'[Len(wire) + 1] = Shut(by)
        /\ Payloads' = Payloads
        /\ ~NoClose'
        /\ FinalSent' <=> FinalSent \/ by = "final"
    BY <1>1, CloseIs DEF CloseStream
  <2>2. EndsOK'
    <3>1. hungUp' \/ ~up' \/ destroyed' \/ FinalSent' \/ eof'
      BY <2>1 DEF Ends
    <3>2. FinalSent' => ending'
      BY <2>1 DEF WriteInv, EndsOK, writeVars
    <3> QED
      BY <2>1, <3>1, <3>2 DEF EndsOK, CloseStream
  <2>3. CreditOK'
    BY <2>1 DEF WriteInv, CreditOK
  <2>4. WrittenOK'
    <3>1. ended' = TRUE
      BY DEF CloseStream
    <3> QED
      BY <2>1, <3>1 DEF WriteInv, WrittenOK, Counts, writeVars
  <2>5. FlowOK'
    <3>1. ended' = TRUE
      BY DEF CloseStream
    <3> QED
      BY <2>1, <3>1 DEF WriteInv, FlowOK, writeVars
  <2>6. SealedInOrder'
    <3>1. \A k \in 1..Len(wire) : OrderedAt(k)'
      BY <2>1, OldOrder DEF WriteInv, PhoneHears
    <3>2. ASSUME NEW k, k = Len(wire) + 1 PROVE OrderedAt(k)'
      <4>1. IsClose(wire'[k]) /\ k \in 1..Len(wire') /\ ~(k < k)
        BY <2>1, <3>2, Frames
      <4> QED
        BY <4>1 DEF OrderedAt
    <3>3. ASSUME NEW k \in 1..Len(wire') PROVE OrderedAt(k)'
      <4>1. k \in 1..Len(wire) \/ k = Len(wire) + 1
        BY <2>1
      <4> QED
        BY <3>1, <3>2, <4>1
    <3> QED
      BY <3>3, OrderIs
  <2>7. EndedIsWhole'
    <3> SUFFICES ASSUME NEW k \in 1..Len(wire'), wire'[k] = Shut("final")
                 PROVE  k = written + 1 /\ (k > 1 => wire'[k - 1].last)
      BY DEF EndedIsWhole, writeVars
    <3>1. CASE k \in 1..Len(wire)
      <4>1. wire[k] = Shut("final")
        BY <2>1, <3>1
      <4>2. k = written + 1 /\ (k > 1 => wire[k - 1].last)
        BY <3>1, <4>1 DEF WriteInv, PhoneHears, EndedIsWhole
      <4>3. k > 1 => k - 1 \in 1..Len(wire)
        BY <3>1
      <4> QED
        BY <2>1, <4>2, <4>3
    <3>2. CASE k = Len(wire) + 1
      <4>1. by = "final"
        BY <2>1, <3>2 DEF Shut
      <4>2. ~ended /\ ~busy /\ buffered = 0 /\ NoClose
        BY <4>1 DEF WriteInv, EndsOK
      <4>3. sealed = 0 /\ rest = 0
        <5>1. ~(sealed + rest > 0)
          BY <4>2 DEF TypeOK
        <5>2. sealed \in Nat /\ rest \in Nat
          BY DEF TypeOK
        <5> QED
          BY <5>1, <5>2
      <4>4. Cardinality(Payloads) = Len(wire)
        BY <4>2, PayloadsAreAll
      <4>5. Len(wire) = written
        BY <2>1, <4>2, <4>3, <4>4 DEF WriteInv, WrittenOK, Counts
      <4>6. ASSUME k > 1 PROVE wire'[k - 1].last
        <5>1. Len(wire) \in 1..Len(wire) /\ k - 1 = Len(wire)
          BY <2>1, <3>2, <4>6
        <5>2. wire # <<>>
          BY <5>1, EmptySeq
        <5>3. wire[Len(wire)].last
          BY <4>2, <4>3, <5>2 DEF WriteInv, FlowOK
        <5> QED
          BY <2>1, <5>1, <5>3
      <4> QED
        BY <3>2, <4>5, <4>6
    <3> QED
      BY <2>1, <3>1, <3>2
  <2>8. PhoneHears'
    BY <2>6, <2>7 DEF PhoneHears
  <2> QED
    BY <2>1, <2>2, <2>3, <2>4, <2>5, <2>8 DEF WriteInv, CloseStream
<1>2. CASE ~(up /\ ~ended)
  <2>1. wire' = wire /\ ended' = TRUE /\ ended = TRUE /\ by # "final"
    BY <1>2 DEF CloseStream, WriteInv, EndsOK, TypeOK
  <2>2. Payloads' = Payloads /\ NoClose' = NoClose /\ FinalSent' = FinalSent /\ Expected' = Expected
    BY <2>1 DEF Payloads, NoClose, FinalSent, Expected
  <2>3. EndsOK'
    BY <2>1, <2>2 DEF WriteInv, EndsOK, writeVars
  <2>4. CreditOK' /\ WrittenOK' /\ FlowOK'
    BY <2>1, <2>2 DEF WriteInv, CreditOK, WrittenOK, Counts, FlowOK, writeVars
  <2>5. SealedInOrder' /\ EndedIsWhole'
    BY <2>1 DEF WriteInv, PhoneHears, SealedInOrder, EndedIsWhole, writeVars
  <2> QED
    BY <2>1, <2>2, <2>3, <2>4, <2>5 DEF WriteInv, PhoneHears, TypeOK, Ends
<1> QED
  BY <1>1, <1>2

(* What the consumer has heard stays right when an end comes: it excuses   *)
(* whatever is still to come.                                              *)
LEMMA ReadKept ==
  ASSUME ReadInv, UNCHANGED readVars, destroyed => destroyed', FinalSent => FinalSent',
         hungUp => hungUp', up' => up
  PROVE  ReadInv'
<1>1. InboxOK'
  BY DEF ReadInv, InboxOK, readVars
<1>2. HeardWithoutGaps'
  BY DEF ReadInv, HeardOK, HeardWithoutGaps, readVars
<1>3. HeardOK'
  BY <1>2 DEF ReadInv, HeardOK, readVars
<1> QED
  BY <1>1, <1>3 DEF ReadInv

(* A step that sends nothing.                                              *)
LEMMA WireKept ==
  ASSUME UNCHANGED wire
  PROVE  Payloads' = Payloads /\ NoClose' = NoClose /\ FinalSent' = FinalSent /\ Expected' = Expected
BY DEF Payloads, NoClose, FinalSent, Expected

(* What the phone hears rests on the wire and on what was written alone.   *)
LEMMA PhoneHearsKept ==
  ASSUME PhoneHears, UNCHANGED <<wire, written>>
  PROVE  PhoneHears'
<1>1. SealedInOrder'
  BY DEF PhoneHears, SealedInOrder
<1>2. EndedIsWhole'
  BY DEF PhoneHears, EndedIsWhole
<1> QED
  BY <1>1, <1>2 DEF PhoneHears

-----------------------------------------------------------------------------
(* The invariant holds when the socket opens.                              *)
LEMMA InvInit == Init => Inv
<1> SUFFICES ASSUME Init PROVE Inv
  OBVIOUS
<1>1. wire = <<>> /\ inbox = <<>> /\ heard = <<>> /\ Len(<<>>) = 0 /\ 1..0 = {}
  BY EmptySeq DEF Init
<1>2. TypeOK
  <2>1. /\ wire \in Seq(Piece \cup [close : {"final", "destroy", "pump"}])
        /\ inbox \in Seq([n : 0..MaxHeard, ok : BOOLEAN]) /\ heard \in Seq(0..MaxHeard)
    BY <1>1, EmptySeq
  <2>2. Window \in 0..Window /\ 0 \in 0..MaxWritten /\ 0 \in 0..MaxMsg /\ 0 \in 0..MaxHeard /\ 0 \in 0..0
    OBVIOUS
  <2>3. credit \in 0..Window /\ buffered \in 0..MaxWritten /\ rest \in 0..MaxWritten
        /\ granted \in 0..MaxWritten /\ written \in 0..MaxWritten /\ sealed \in 0..MaxMsg
        /\ readNonce \in 0..MaxHeard /\ said \in 0..MaxHeard /\ good \in 0..said /\ sendNonce \in Nat
    BY <2>2 DEF Init
  <2>4. sealed + rest > 0 => busy
    BY DEF Init
  <2> QED
    BY <2>1, <2>3, <2>4 DEF Init, TypeOK
<1>3. Payloads = {} /\ NoClose /\ ~FinalSent
  BY <1>1 DEF Payloads, NoClose, FinalSent
<1>4. Cardinality(Payloads) = 0
  BY <1>3, FS_EmptySet
<1>5. EndsOK /\ CreditOK /\ WrittenOK
  BY <1>3, <1>4 DEF Init, EndsOK, CreditOK, WrittenOK, Counts
<1>6. FlowOK
  BY <1>1 DEF Init, FlowOK, Expected
<1>7. PhoneHears
  BY <1>1 DEF PhoneHears, SealedInOrder, EndedIsWhole
<1>8. ReadInv
  BY <1>1 DEF Init, ReadInv, InboxOK, HeardOK, HeardWithoutGaps
<1> QED
  BY <1>2, <1>5, <1>6, <1>7, <1>8 DEF Inv, WriteInv

(* What the consumer writes goes to a seal, or waits for the one under way.*)
LEMMA WriteStep ==
  ASSUME Inv, NEW n \in 1..MaxChunk, Write(n)
  PROVE  Inv'
<1>1. PICK s \in Nat, r \in Nat, b \in Nat, w \in Nat :
        s = sealed /\ r = rest /\ b = buffered /\ w = written
  BY DEF Inv, TypeOK
<1>2. UNCHANGED <<readVars, ending, destroyed, ended, up, granted, hungUp>>
      /\ written' = w + n /\ w + n <= MaxWritten /\ ~ending
  BY <1>1 DEF Write
<1>3. ~FinalSent
  BY <1>2 DEF Inv, WriteInv, EndsOK
<1>4. PICK m \in Nat : m = Cardinality(Payloads)
  BY PayloadsFinite DEF Inv
<1>5. m + s + r + b <= w /\ (~ended => m + s + r + b = w)
  BY <1>1, <1>4 DEF Inv, WriteInv, WrittenOK, Counts
<1>6. CASE busy
  <2>1. buffered' = b + n /\ UNCHANGED <<busy, sealed, rest, sendNonce, credit, wire>>
    BY <1>1, <1>6 DEF Write
  <2>2. TypeOK'
    <3>1. b + n <= w + n
      BY <1>5
    <3>2. b + n \in 0..MaxWritten /\ w + n \in 0..MaxWritten
      BY <1>2, <3>1
    <3> QED
      BY <1>2, <2>1, <3>2 DEF Inv, TypeOK, readVars
  <2>3. WrittenOK'
    <3>1. m + s + r + (b + n) <= w + n /\ (~ended => m + s + r + (b + n) = w + n)
      BY <1>5
    <3> QED
      BY <1>1, <1>2, <1>4, <2>1, <3>1, WireKept DEF WrittenOK, Counts
  <2>4. EndsOK' /\ CreditOK' /\ FlowOK'
    BY <1>2, <2>1, WireKept DEF Inv, WriteInv, EndsOK, CreditOK, FlowOK, readVars
  <2>5. PhoneHears'
    <3>1. SealedInOrder'
      BY <2>1 DEF Inv, WriteInv, PhoneHears, SealedInOrder
    <3>2. EndedIsWhole'
      BY <1>3, <2>1 DEF EndedIsWhole, FinalSent
    <3> QED
      BY <3>1, <3>2 DEF PhoneHears
  <2>6. ReadInv'
    BY <1>2, <2>1, ReadKept, WireKept DEF Inv
  <2> QED
    BY <2>2, <2>3, <2>4, <2>5, <2>6 DEF Inv, WriteInv
<1>7. CASE ~busy
  <2>1. s = 0 /\ r = 0
    <3>1. ~(sealed + rest > 0)
      BY <1>7 DEF Inv, TypeOK
    <3> QED
      BY <1>1, <3>1
  <2>2. SealOn(0, n) /\ buffered' = b
    BY <1>1, <1>7 DEF Write
  <2>3. Counts(0, n, b, w + n)
    BY <1>4, <1>5, <2>1 DEF Counts
  <2>4. 0 \in Nat /\ n \in Nat /\ w + n \in Nat /\ 0 = sealed
    BY <1>1, <2>1
  <2>5. TypeOK' /\ WriteInv'
    BY <1>2, <1>3, <2>2, <2>3, <2>4, SealOnStep DEF Inv, WriteInv
  <2>6. ReadInv'
    BY <1>2, <1>3, ReadKept DEF Inv
  <2> QED
    BY <2>5, <2>6 DEF Inv
<1> QED
  BY <1>6, <1>7

(* Credit has come, and a parked seal goes on.                             *)
LEMMA SealResumesStep ==
  ASSUME Inv, SealResumes
  PROVE  Inv'
<1>1. PICK s \in Nat, r \in Nat, b \in Nat, w \in Nat :
        s = sealed /\ r = rest /\ b = buffered /\ w = written /\ w <= MaxWritten
  BY DEF Inv, TypeOK
<1>2. /\ UNCHANGED <<readVars, ending, destroyed, ended, up, granted, hungUp>>
      /\ SealOn(s, r) /\ buffered' = b /\ written' = w
  BY <1>1 DEF SealResumes
<1>3. Counts(s, r, b, w)
  BY <1>1 DEF Inv, WriteInv, WrittenOK
<1>4. TypeOK' /\ WriteInv' /\ (FinalSent' <=> FinalSent)
  BY <1>1, <1>2, <1>3, SealOnStep DEF Inv, WriteInv
<1> QED
  BY <1>2, <1>4, ReadKept DEF Inv

(* A destroyed socket drops what has been buffered.                        *)
LEMMA DrainStep ==
  ASSUME Inv, Drain
  PROVE  Inv'
<1>1. PICK b \in Nat, w \in Nat : b = buffered /\ w = written /\ w <= MaxWritten
  BY DEF Inv, TypeOK
<1>2. UNCHANGED <<readVars, ending, destroyed, ended, up, granted, hungUp>>
      /\ buffered' = 0 /\ written' = w /\ sealed = 0 /\ rest = 0
  <2>1. ~(sealed + rest > 0) /\ sealed \in Nat /\ rest \in Nat
    BY DEF Drain, Inv, TypeOK
  <2> QED
    BY <1>1, <2>1 DEF Drain
<1>3. PICK m \in Nat : m = Cardinality(Payloads)
  BY PayloadsFinite DEF Inv
<1>4. m + b <= w /\ (~ended => m + b = w)
  BY <1>1, <1>2, <1>3 DEF Inv, WriteInv, WrittenOK, Counts
<1>5. CASE destroyed
  <2>1. UNCHANGED <<busy, sealed, rest, sendNonce, credit, wire>> /\ ended
    BY <1>5 DEF Drain, Inv, WriteInv, EndsOK
  <2>2. TypeOK'
    BY <1>2, <2>1 DEF Inv, TypeOK, readVars, Drain
  <2>3. WrittenOK'
    BY <1>1, <1>2, <1>3, <1>4, <2>1, WireKept DEF WrittenOK, Counts
  <2>4. EndsOK' /\ CreditOK' /\ FlowOK' /\ PhoneHears'
    BY <1>1, <1>2, <2>1, WireKept, PhoneHearsKept DEF Inv, WriteInv, EndsOK, CreditOK, FlowOK, readVars
  <2>5. ReadInv'
    BY <1>2, <2>1, ReadKept, WireKept DEF Inv
  <2> QED
    BY <2>2, <2>3, <2>4, <2>5 DEF Inv, WriteInv
<1>6. CASE ~destroyed
  <2>1. SealOn(0, b)
    BY <1>1, <1>6 DEF Drain
  <2>2. Counts(0, b, 0, w)
    BY <1>3, <1>4 DEF Counts
  <2>3. TypeOK' /\ WriteInv' /\ (FinalSent' <=> FinalSent)
    BY <1>1, <1>2, <2>1, <2>2, SealOnStep DEF Inv, WriteInv
  <2> QED
    BY <1>2, <2>3, ReadKept DEF Inv
<1> QED
  BY <1>5, <1>6

(* end() and _final, destroy().                                            *)
LEMMA EndStep ==
  ASSUME Inv, EndSocket \/ Final \/ Destroy
  PROVE  Inv'
<1>1. CASE EndSocket
  <2>1. TypeOK'
    BY <1>1 DEF EndSocket, Inv, TypeOK, readVars
  <2>2. WriteInv'
    BY <1>1, WireKept, PhoneHearsKept
    DEF EndSocket, Inv, WriteInv, EndsOK, CreditOK, WrittenOK, Counts, FlowOK, readVars
  <2>3. ReadInv'
    BY <1>1, ReadKept, WireKept DEF EndSocket, Inv
  <2> QED
    BY <2>1, <2>2, <2>3 DEF Inv
<1>2. CASE Final
  <2>1. /\ wire' \in Seq(Piece \cup [close : Ends]) /\ ended' = TRUE
        /\ FinalSent => FinalSent'
        /\ WriteInv'
    BY <1>2, CloseStep DEF Final, Inv, readVars, Ends
  <2>2. TypeOK'
    BY <1>2, <2>1 DEF Final, Inv, TypeOK, readVars, writeVars, Ends
  <2>3. ReadInv'
    BY <1>2, <2>1, ReadKept DEF Final, Inv
  <2> QED
    BY <2>1, <2>2, <2>3 DEF Inv
<1>3. CASE Destroy
  <2>1. /\ wire' \in Seq(Piece \cup [close : Ends]) /\ ended' = TRUE
        /\ FinalSent => FinalSent'
        /\ WriteInv'
    BY <1>3, CloseStep DEF Destroy, Inv, readVars, Ends
  <2>2. TypeOK'
    BY <1>3, <2>1 DEF Destroy, Inv, TypeOK, readVars, writeVars, Ends
  <2>3. ReadInv'
    BY <1>3, <2>1, ReadKept DEF Destroy, Inv
  <2> QED
    BY <2>1, <2>2, <2>3 DEF Inv
<1> QED
  BY <1>1, <1>2, <1>3

(* The relay gives credit back, the phone hangs up, the link dies.         *)
LEMMA RelayStep ==
  ASSUME Inv, RelayGrants \/ PhoneHangsUp \/ LinkDies
  PROVE  Inv'
<1>1. PICK c \in Nat, m \in Nat, g \in Nat, w \in Nat :
        /\ c = credit /\ m = Cardinality(Payloads) /\ g = granted /\ w = written
        /\ c + m <= Window + g /\ m <= w /\ w <= MaxWritten
  <2>1. credit \in Nat /\ granted \in Nat /\ written \in Nat /\ written <= MaxWritten
        /\ sealed \in Nat /\ rest \in Nat /\ buffered \in Nat
    BY DEF Inv, TypeOK
  <2>2. PICK m \in Nat : m = Cardinality(Payloads)
    BY PayloadsFinite DEF Inv
  <2>3. PICK c \in Nat, g \in Nat, w \in Nat, x \in Nat, y \in Nat, z \in Nat :
          c = credit /\ g = granted /\ w = written /\ x = sealed /\ y = rest /\ z = buffered
    BY <2>1
  <2>4. c + m <= Window + g /\ m + x + y + z <= w
    BY <2>2, <2>3 DEF Inv, WriteInv, CreditOK, WrittenOK, Counts
  <2>5. m <= w
    BY <2>4
  <2> QED
    BY <2>1, <2>2, <2>3, <2>4, <2>5
<1>2. UNCHANGED <<writeVars, readVars, destroyed, wire>>
  BY DEF RelayGrants, PhoneHangsUp, LinkDies
<1>3. PhoneHears'
  BY <1>2, PhoneHearsKept DEF Inv, WriteInv, writeVars
<1>4. WrittenOK'
  <2>1. ended' = FALSE => ended = FALSE
    BY DEF RelayGrants, PhoneHangsUp, LinkDies
  <2>2. ended' \in BOOLEAN
    BY DEF RelayGrants, PhoneHangsUp, LinkDies, Inv, TypeOK
  <2> QED
    BY <1>2, <2>1, <2>2, WireKept DEF Inv, WriteInv, WrittenOK, Counts, writeVars
<1>5. CASE RelayGrants
  <2>1. credit' = c + 1 /\ granted' = g + 1 /\ g < m /\ up /\ ~hungUp /\ UNCHANGED <<ended, up, hungUp>>
    BY <1>1, <1>5 DEF RelayGrants
  <2>2. c + 1 <= Window /\ g + 1 <= MaxWritten
    BY <1>1, <2>1
  <2>3. TypeOK'
    <3>1. c + 1 \in 0..Window /\ g + 1 \in 0..MaxWritten
      BY <2>2
    <3> QED
      BY <1>2, <2>1, <3>1 DEF Inv, TypeOK, writeVars, readVars
  <2>4. CreditOK'
    <3>1. c + 1 + m <= Window + (g + 1)
      BY <1>1
    <3> QED
      BY <1>1, <1>2, <2>1, <3>1, WireKept DEF CreditOK
  <2>5. EndsOK'
    BY <1>2, <2>1, WireKept DEF Inv, WriteInv, EndsOK, writeVars, readVars
  <2>6. FlowOK'
    <3>1. ~(ended /\ NoClose)
      BY <2>1 DEF Inv, WriteInv, EndsOK
    <3> QED
      BY <1>2, <2>1, <3>1, WireKept DEF Inv, WriteInv, FlowOK, writeVars
  <2>7. ReadInv'
    BY <1>2, <2>1, ReadKept, WireKept DEF Inv
  <2> QED
    BY <1>3, <1>4, <2>3, <2>4, <2>5, <2>6, <2>7 DEF Inv, WriteInv
<1>6. CASE PhoneHangsUp
  <2>1. UNCHANGED <<credit, granted, up>> /\ ended' = TRUE /\ hungUp' = TRUE
    BY <1>6 DEF PhoneHangsUp
  <2>2. TypeOK'
    BY <1>2, <2>1 DEF Inv, TypeOK, writeVars, readVars
  <2>3. CreditOK'
    BY <1>2, <2>1, WireKept DEF Inv, WriteInv, CreditOK
  <2>4. EndsOK'
    <3>1. FinalSent => ending
      BY DEF Inv, WriteInv, EndsOK
    <3> QED
      BY <1>2, <2>1, <3>1, WireKept DEF EndsOK, writeVars
  <2>5. FlowOK'
    <3>1. UNCHANGED <<sealed, sendNonce, wire, up, credit>>
      BY <1>2, <2>1 DEF writeVars
    <3> QED
      BY <2>1, <3>1, WireKept DEF Inv, WriteInv, EndsOK, FlowOK
  <2>6. ReadInv'
    BY <1>2, <2>1, ReadKept, WireKept DEF Inv
  <2> QED
    BY <1>3, <1>4, <2>2, <2>3, <2>4, <2>5, <2>6 DEF Inv, WriteInv
<1>7. CASE LinkDies
  <2>1. UNCHANGED <<credit, granted, hungUp>> /\ ended' = TRUE /\ up' = FALSE
    BY <1>7 DEF LinkDies
  <2>2. TypeOK'
    BY <1>2, <2>1 DEF Inv, TypeOK, writeVars, readVars
  <2>3. CreditOK'
    BY <1>2, <2>1, WireKept DEF Inv, WriteInv, CreditOK
  <2>4. EndsOK'
    <3>1. FinalSent => ending
      BY DEF Inv, WriteInv, EndsOK
    <3> QED
      BY <1>2, <2>1, <3>1, WireKept DEF EndsOK, writeVars
  <2>5. FlowOK'
    <3>1. UNCHANGED <<sealed, sendNonce, wire>>
      BY <1>2 DEF writeVars
    <3> QED
      BY <2>1, <3>1, WireKept DEF Inv, WriteInv, FlowOK
  <2>6. ReadInv'
    BY <1>2, <2>1, ReadKept, WireKept DEF Inv
  <2> QED
    BY <1>3, <1>4, <2>2, <2>3, <2>4, <2>5, <2>6 DEF Inv, WriteInv
<1> QED
  BY <1>5, <1>6, <1>7

-----------------------------------------------------------------------------
Msgs == [n : 0..MaxHeard, ok : BOOLEAN]

(* The pump takes the oldest message: in order or, if damaged, the end.    *)
LEMMA PumpStep ==
  ASSUME Inv, Pump
  PROVE  Inv'
<1>1. PICK l \in Nat, h \in Nat, x \in Nat, g \in Nat, y \in Nat :
        l = Len(inbox) /\ h = Len(heard) /\ x = readNonce /\ g = good /\ y = said
  <2>1. inbox \in Seq(Msgs) /\ heard \in Seq(0..MaxHeard)
    BY DEF Inv, TypeOK, Msgs
  <2>2. Len(inbox) \in Nat /\ Len(heard) \in Nat
    BY <2>1, LenProperties
  <2> QED
    BY <2>2 DEF Inv, TypeOK
<1>2. /\ inbox' \in Seq(Msgs) /\ Len(inbox') = l - 1 /\ l > 0
      /\ \A k \in 1..(l - 1) : inbox'[k] = inbox[k + 1]
      /\ Head(inbox) = inbox[1] /\ inbox[1] \in Msgs
  <2>1. inbox \in Seq(Msgs) /\ inbox # <<>> /\ inbox' = Tail(inbox)
    BY DEF Pump, Inv, TypeOK, Msgs
  <2> HIDE DEF Msgs
  <2>2. Tail(inbox) \in Seq(Msgs) /\ Len(Tail(inbox)) = Len(inbox) - 1
        /\ \A k \in 1..(Len(inbox) - 1) : Tail(inbox)[k] = inbox[k + 1]
    BY <2>1, HeadTailProperties
  <2>3. Head(inbox) = inbox[1] /\ Head(inbox) \in Msgs
    BY <2>1, HeadTailProperties
  <2>4. Len(inbox) # 0
    BY <2>1, EmptySeq
  <2> QED
    BY <1>1, <2>1, <2>2, <2>3, <2>4
<1>3. /\ x + l = y /\ x <= g /\ g <= y /\ y <= MaxHeard
      /\ \A k \in 1..l : /\ inbox[k].n = x + k - 1
                         /\ inbox[k].n < g => inbox[k].ok
                         /\ inbox[k].n = g => ~inbox[k].ok
  <2>1. good <= said /\ said <= MaxHeard
    BY DEF Inv, TypeOK
  <2>2. readNonce <= good
    BY DEF Pump, Inv, ReadInv, HeardOK
  <2> QED
    BY <1>1, <2>1, <2>2 DEF Inv, ReadInv, InboxOK
<1>4. inbox[1].n = x /\ (x < g => inbox[1].ok) /\ (x = g => ~inbox[1].ok)
  <2>1. 1 \in 1..l /\ x + 1 - 1 = x
    BY <1>2
  <2> QED
    BY <1>3, <2>1
<1>5. readNonce' = x + 1 /\ x + 1 \in 0..MaxHeard /\ UNCHANGED <<said, good, destroyed>>
  <2>1. x + 1 <= MaxHeard
    BY <1>2, <1>3
  <2> QED
    BY <1>1, <2>1 DEF Pump
<1>6. InboxOK'
  <2>1. (x + 1) + (l - 1) = y
    BY <1>3
  <2>2. ASSUME NEW k \in 1..(l - 1)
        PROVE  /\ inbox'[k].n = (x + 1) + k - 1
               /\ inbox'[k].n < g => inbox'[k].ok
               /\ inbox'[k].n = g => ~inbox'[k].ok
    <3>1. k + 1 \in 1..l /\ x + (k + 1) - 1 = (x + 1) + k - 1
      OBVIOUS
    <3> QED
      BY <1>2, <1>3, <3>1
  <2> QED
    BY <1>1, <1>2, <1>5, <2>1, <2>2 DEF InboxOK
<1>7. ~eof /\ HeardWithoutGaps /\ (~destroyed => h = x)
  BY <1>1 DEF Pump, Inv, ReadInv, HeardOK
<1>8. heard \in Seq(0..MaxHeard) /\ x \in 0..MaxHeard
  BY <1>3 DEF Inv, TypeOK
<1>9. CASE Head(inbox).ok /\ Head(inbox).n = readNonce
  <2>1. heard' = (IF destroyed THEN heard ELSE Append(heard, x))
        /\ UNCHANGED <<writeVars, eof, ended, wire, said, good, destroyed, credit, up, granted, hungUp>>
    BY <1>2, <1>4, <1>9 DEF Pump
  <2>2. x < g
    BY <1>2, <1>3, <1>4, <1>9
  <2>3. /\ heard' \in Seq(0..MaxHeard)
        /\ ~destroyed => Len(heard') = h + 1
        /\ \A k \in 1..Len(heard') : heard'[k] = k - 1
    <3>1. CASE destroyed
      BY <1>7, <1>8, <2>1, <3>1 DEF HeardWithoutGaps
    <3>2. CASE ~destroyed
      <4>1. heard' \in Seq(0..MaxHeard) /\ Len(heard') = h + 1 /\ heard'[h + 1] = x
            /\ \A k \in 1..h : heard'[k] = heard[k]
        BY <1>1, <1>8, <2>1, <3>2, AppendProperties
      <4>2. h = x /\ \A k \in 1..h : heard[k] = k - 1
        BY <1>1, <1>7, <3>2 DEF HeardWithoutGaps
      <4>3. ASSUME NEW k \in 1..(h + 1) PROVE heard'[k] = k - 1
        <5>1. k \in 1..h \/ (k = h + 1 /\ k - 1 = x)
          BY <4>2
        <5> QED
          BY <4>1, <4>2, <5>1
      <4> QED
        BY <4>1, <4>3
    <3> QED
      BY <3>1, <3>2
  <2>4. HeardOK'
    <3>1. HeardWithoutGaps'
      BY <2>3 DEF HeardWithoutGaps
    <3>2. x + 1 <= g
      BY <2>2
    <3> QED
      BY <1>1, <1>5, <1>7, <2>1, <2>3, <3>1, <3>2 DEF HeardOK
  <2>5. TypeOK'
    BY <1>2, <1>5, <2>1, <2>3 DEF Inv, TypeOK, writeVars, Msgs
  <2>6. WriteInv'
    BY <2>1, WireKept, PhoneHearsKept
    DEF Inv, WriteInv, EndsOK, CreditOK, WrittenOK, Counts, FlowOK, writeVars
  <2> QED
    BY <1>6, <2>4, <2>5, <2>6 DEF Inv, ReadInv
<1>10. CASE ~(Head(inbox).ok /\ Head(inbox).n = readNonce)
  <2>1. eof' = TRUE /\ CloseStream("pump") /\ UNCHANGED heard
        /\ UNCHANGED <<writeVars, said, good, destroyed, credit, up, granted, hungUp>>
    BY <1>10 DEF Pump
  <2>2. x = g /\ g < y
    BY <1>1, <1>2, <1>3, <1>4, <1>10
  <2>3. /\ wire' \in Seq(Piece \cup [close : Ends]) /\ ended' = TRUE
        /\ FinalSent' <=> FinalSent
        /\ WriteInv'
    BY <2>1, CloseStep DEF Inv, Ends
  <2>4. TypeOK'
    BY <1>2, <1>5, <2>1, <2>3 DEF Inv, TypeOK, writeVars, Ends, Msgs
  <2>5. HeardOK'
    <3>1. HeardWithoutGaps'
      BY <1>7, <2>1 DEF HeardWithoutGaps
    <3> QED
      BY <1>1, <1>5, <1>7, <2>1, <2>2, <3>1 DEF HeardOK
  <2> QED
    BY <1>6, <2>3, <2>4, <2>5 DEF Inv, ReadInv
<1> QED
  BY <1>9, <1>10

(* The stream has ended and what it held is read: the consumer has heard   *)
(* all there was.                                                          *)
LEMMA PumpEndsStep ==
  ASSUME Inv, PumpEnds
  PROVE  Inv'
<1>1. UNCHANGED <<writeVars, inbox, readNonce, said, good, heard, destroyed, credit, ended, up, wire, granted, hungUp>>
      /\ eof' = TRUE /\ ~eof /\ ended /\ Len(inbox) = 0
  BY EmptySeq DEF PumpEnds
<1>2. TypeOK'
  BY <1>1 DEF Inv, TypeOK, writeVars
<1>3. WriteInv'
  BY <1>1, WireKept, PhoneHearsKept
  DEF Inv, WriteInv, EndsOK, CreditOK, WrittenOK, Counts, FlowOK, writeVars
<1>4. readNonce = good
  <2>1. readNonce \in Nat /\ good \in Nat /\ said \in Nat /\ good <= said
    BY DEF Inv, TypeOK
  <2>2. readNonce + 0 = said /\ readNonce <= good
    BY <1>1 DEF Inv, ReadInv, InboxOK, HeardOK
  <2> QED
    BY <2>1, <2>2
<1>5. InboxOK' /\ HeardWithoutGaps'
  BY <1>1 DEF Inv, ReadInv, InboxOK, HeardOK, HeardWithoutGaps
<1>6. HeardOK'
  <2>1. ~destroyed => Len(heard) = good
    BY <1>1, <1>4 DEF Inv, ReadInv, HeardOK
  <2>2. hungUp \/ ~up \/ destroyed \/ FinalSent
    BY <1>1 DEF Inv, WriteInv, EndsOK
  <2> QED
    BY <1>1, <1>5, <2>1, <2>2, WireKept DEF HeardOK
<1> QED
  BY <1>2, <1>3, <1>5, <1>6 DEF Inv, ReadInv

(* The phone says something, whole or damaged.                             *)
LEMMA PhoneSaysStep ==
  ASSUME Inv, NEW ok \in BOOLEAN, PhoneSays(ok)
  PROVE  Inv'
<1>1. PICK l \in Nat, x \in Nat, g \in Nat, y \in Nat :
        l = Len(inbox) /\ x = readNonce /\ g = good /\ y = said
  <2>1. inbox \in Seq(Msgs)
    BY DEF Inv, TypeOK, Msgs
  <2>2. Len(inbox) \in Nat
    BY <2>1, LenProperties
  <2> QED
    BY <2>2 DEF Inv, TypeOK
<1>2. UNCHANGED <<writeVars, readNonce, eof, heard, destroyed, credit, ended, up, wire, granted, hungUp>>
      /\ said' = y + 1 /\ y < MaxHeard /\ up /\ ~hungUp
      /\ good' = (IF ok /\ g = y THEN y + 1 ELSE g)
  BY <1>1 DEF PhoneSays
<1>3. PICK m \in Msgs : m.n = y /\ m.ok = ok /\ inbox' = Append(inbox, m)
  <2>1. y \in 0..MaxHeard
    BY <1>2
  <2>2. [n |-> y, ok |-> ok] \in Msgs
    BY <2>1 DEF Msgs
  <2> QED
    BY <1>1, <2>2 DEF PhoneSays
<1>4. /\ inbox' \in Seq(Msgs) /\ Len(inbox') = l + 1 /\ inbox'[l + 1] = m
      /\ \A k \in 1..l : inbox'[k] = inbox[k]
  <2>1. inbox \in Seq(Msgs)
    BY DEF Inv, TypeOK, Msgs
  <2> HIDE DEF Msgs
  <2> QED
    BY <1>1, <1>3, <2>1, AppendProperties
<1>5. /\ x + l = y /\ g <= y
      /\ \A k \in 1..l : /\ inbox[k].n = x + k - 1
                         /\ inbox[k].n < g => inbox[k].ok
                         /\ inbox[k].n = g => ~inbox[k].ok
  BY <1>1 DEF Inv, TypeOK, ReadInv, InboxOK
<1>6. PICK e \in Nat : e = good' /\ e <= y + 1 /\ (e = g \/ (ok /\ g = y /\ e = y + 1))
                       /\ (e = g /\ g = y => ~ok)
  BY <1>2, <1>5
<1>7. TypeOK'
  <2>1. y + 1 \in 0..MaxHeard /\ e \in 0..(y + 1)
    BY <1>2, <1>6
  <2> QED
    BY <1>2, <1>4, <1>6, <2>1 DEF Inv, TypeOK, writeVars, Msgs
<1>8. InboxOK'
  <2>1. x + (l + 1) = y + 1
    BY <1>5
  <2>2. ASSUME NEW k \in 1..(l + 1)
        PROVE  /\ inbox'[k].n = x + k - 1
               /\ inbox'[k].n < e => inbox'[k].ok
               /\ inbox'[k].n = e => ~inbox'[k].ok
    <3>1. CASE k \in 1..l
      <4>1. PICK z \in Nat : z = inbox[k].n /\ z < y /\ z = x + k - 1
        <5>1. x + k - 1 \in Nat /\ x + k - 1 < y
          BY <1>5, <3>1
        <5> QED
          BY <1>5, <3>1, <5>1
      <4>2. (z < g => inbox[k].ok) /\ (z = g => ~inbox[k].ok)
        BY <1>5, <3>1, <4>1
      <4>3. (z < e => z < g) /\ (z = e => z = g)
        BY <1>6, <4>1
      <4> QED
        BY <1>4, <3>1, <4>1, <4>2, <4>3
    <3>2. CASE k = l + 1
      <4>1. x + k - 1 = y
        BY <1>5, <3>2
      <4>2. (y < e => ok) /\ (y = e => ~ok)
        BY <1>5, <1>6
      <4> QED
        BY <1>3, <1>4, <3>2, <4>1, <4>2
    <3> QED
      BY <3>1, <3>2
  <2> QED
    BY <1>1, <1>2, <1>4, <1>6, <2>1, <2>2 DEF InboxOK
<1>9. HeardOK'
  <2>1. HeardWithoutGaps'
    BY <1>2 DEF Inv, ReadInv, HeardOK, HeardWithoutGaps
  <2>2. ~eof => x <= e
    <3>1. ~eof => x <= g
      BY <1>1 DEF Inv, ReadInv, HeardOK
    <3>2. g <= e
      BY <1>5, <1>6
    <3> QED
      BY <3>1, <3>2
  <2>3. ASSUME eof, ~destroyed, ~FinalSent
        PROVE  Len(heard) = e /\ e < y + 1
    <3>1. Len(heard) = g /\ g < y
      BY <1>1, <1>2, <2>3 DEF Inv, ReadInv, HeardOK
    <3>2. e = g
      BY <1>6, <3>1
    <3> QED
      BY <3>1, <3>2
  <2>4. ~eof /\ ~destroyed => Len(heard) = x
    BY <1>1 DEF Inv, ReadInv, HeardOK
  <2> QED
    BY <1>1, <1>2, <1>6, <2>1, <2>2, <2>3, <2>4, WireKept DEF HeardOK
<1>10. WriteInv'
  BY <1>2, WireKept, PhoneHearsKept
  DEF Inv, WriteInv, EndsOK, CreditOK, WrittenOK, Counts, FlowOK, writeVars
<1> QED
  BY <1>7, <1>8, <1>9, <1>10 DEF Inv, ReadInv

(* Every step of Next keeps the invariant.                                 *)
LEMMA InvNext == Inv /\ [Next]_vars => Inv'
<1> SUFFICES ASSUME Inv, [Next]_vars PROVE Inv'
  OBVIOUS
<1>1. CASE \/ \E n \in 1..MaxChunk : Write(n)
           \/ SealResumes \/ Drain \/ EndSocket \/ Final \/ Destroy
  BY <1>1, WriteStep, SealResumesStep, DrainStep, EndStep
<1>2. CASE Pump \/ PumpEnds \/ \E ok \in BOOLEAN : PhoneSays(ok)
  BY <1>2, PumpStep, PumpEndsStep, PhoneSaysStep
<1>3. CASE PhoneHangsUp \/ LinkDies \/ RelayGrants
  BY <1>3, RelayStep
<1>4. CASE UNCHANGED vars
  <2>1. TypeOK'
    BY <1>4 DEF vars, writeVars, readVars, Inv, TypeOK
  <2>2. WriteInv'
    BY <1>4, WireKept, PhoneHearsKept
    DEF vars, writeVars, readVars, Inv, WriteInv, EndsOK, CreditOK, WrittenOK, Counts, FlowOK
  <2>3. ReadInv'
    BY <1>4, ReadKept, WireKept DEF vars, Inv
  <2> QED
    BY <2>1, <2>2, <2>3 DEF Inv
<1> QED
  BY <1>1, <1>2, <1>3, <1>4 DEF Next

(* The invariant of the socket holds in every reachable state, for every   *)
(* window, every size of a message and every bound on what is written.     *)
THEOREM Invariance == Spec => []Inv
BY InvInit, InvNext, PTL DEF Spec

-----------------------------------------------------------------------------
(* TypeOK: in particular no credit is made and none overdrawn, and no more *)
(* is kept than was written, whatever waits behind a full window.          *)
THEOREM Types == Spec => []TypeOK
<1>1. Inv => TypeOK
  BY DEF Inv
<1> QED
  BY <1>1, Invariance, PTL

(* PhoneHears: the nonces on the wire follow each other up to the CLOSE,   *)
(* and an orderly CLOSE comes after all that was written, in whole         *)
(* messages.                                                               *)
THEOREM PhoneIsServed == Spec => []PhoneHears
<1>1. Inv => PhoneHears
  BY DEF Inv, WriteInv
<1> QED
  BY <1>1, Invariance, PTL

(* BridgeHears: the consumer gets the phone's messages without a gap, to   *)
(* the last one or the first damaged one.                                  *)
THEOREM ConsumerIsServed == Spec => []BridgeHears
<1>1. Inv => BridgeHears
  <2> SUFFICES ASSUME Inv PROVE BridgeHears
    OBVIOUS
  <2>1. HeardWithoutGaps
    BY DEF Inv, ReadInv, HeardOK
  <2>2. HeardToTheEnd
    <3>1. (\A k \in 1..Len(wire) : wire[k] # Shut("final")) => ~FinalSent
      BY DEF FinalSent
    <3> QED
      BY <3>1 DEF HeardToTheEnd, Inv, ReadInv, HeardOK
  <2> QED
    BY <2>1, <2>2 DEF BridgeHears
<1> QED
  BY <1>1, Invariance, PTL

=============================================================================
