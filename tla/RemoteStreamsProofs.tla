------------------------ MODULE RemoteStreamsProofs ------------------------
(***************************************************************************)
(* Proofs about RemoteStreams: its types and the books of the inboxes      *)
(* (BooksBalance), that no pump is out of everybody's reach (NoOrphans),   *)
(* and that no stream is over in silence unless its inbox overflowed       *)
(* (ToldUnlessOverrun).                                                    *)
(*                                                                         *)
(* The invariant has a layer for each of the three questions: InboxInv,    *)
(* what an inbox charges and whom it wakes; MapInv, the map against the    *)
(* pumps, which rests on the chain of deliveries naming each pump that     *)
(* awaits one exactly once; and SilenceInv, why a stream is over and why   *)
(* its signal is aborted.  The last rests on the first: what an inbox that *)
(* overflowed refused is never taken off its account.                      *)
(***************************************************************************)
EXTENDS RemoteStreams, TLAPS, SequenceTheorems, WellFoundedInduction

Write == [run : Run, kind : {"item", "end", "error"}]

(* An inbox that failed is empty; the account of the others is their       *)
(* items, within the ceiling.                                              *)
InboxInv ==
  /\ BytesAreItems /\ NoLostWakeup
  /\ \A r \in Run : failed[r] => items[r] = <<>>

(* Every delivery in the chain is awaited by the pump of its run, and no   *)
(* two of them by the same.                                                *)
Awaited(queue, stage) ==
  /\ \A k \in 1..Len(queue) : stage[queue[k].run] = queue[k].kind
  /\ \A j, k \in 1..Len(queue) : queue[j].run = queue[k].run => j = k

MapInv ==
  /\ Awaited(writes, pump)
  /\ \A i \in StreamId : streams[i] # None => Live(streams[i]) /\ idOf[streams[i]] = i
  /\ \A r \in Run : Live(r) => idOf[r] \in StreamId
  /\ ~Heard => \A i \in StreamId : streams[i] = None
  /\ NoOrphans

InboxOK == InboxTypeOK /\ InboxInv

(* The fields that are not the inboxes'.                                   *)
FieldsOK ==
  /\ socket \in {"open", "closing", "closed"} /\ disposed \in BOOLEAN
  /\ streams \in [StreamId -> Run \cup {None}] /\ idOf \in [Run -> StreamId \cup {None}]
  /\ pump \in [Run -> Stage] /\ aborted \in [Run -> BOOLEAN]
  /\ writes \in Seq(Write)
  /\ handed \in BOOLEAN /\ (handed => writes # <<>>)
  /\ settled \in [Run -> BOOLEAN]

(* A stream is over because it was aborted, or the phone has had its word. *)
OverHasReason ==
  socket = "open" => \A r \in Run : pump[r] = "done" => aborted[r] \/ settled[r]

(* While the phone is heard, only its cancel and an overflow abort.        *)
AbortHasReason ==
  Heard => \A r \in Run : aborted[r] => settled[r] \/ Overran(r)

SilenceInv == OverHasReason /\ AbortHasReason

Inv == FieldsOK /\ InboxOK /\ MapInv /\ SilenceInv

-----------------------------------------------------------------------------
(* A set of naturals with a member has a least one.                        *)
LEMMA Minimum ==
  ASSUME NEW T \in SUBSET Nat, T # {}
  PROVE  \E x \in T : \A y \in T : x <= y
<1>1. PICK x \in T : \A y \in T : <<y, x>> \notin OpToRel(<, Nat)
  BY NatLessThanWellFounded, WFMin
<1>2. \A y \in T : ~(y < x)
  BY <1>1 DEF OpToRel
<1> QED
  BY <1>2

(* The partial sums of q up to n, as a function that meets the recurrence. *)
Sums(q, n, f) ==
  /\ f \in [0..n -> Nat] /\ f[0] = 0
  /\ \A k \in 1..n : f[k] = f[k - 1] + q[k]

(* Partial sums exist: the least n without them would follow one with.     *)
LEMMA SumsExist ==
  ASSUME NEW q \in Seq(Nat)
  PROVE  \E f : Sums(q, Len(q), f)
<1> DEFINE T == {n \in 0..Len(q) : ~\E f : Sums(q, n, f)}
<1>0. Len(q) \in 0..Len(q) /\ T \in SUBSET Nat
  OBVIOUS
<1>1. SUFFICES ASSUME T # {} PROVE FALSE
  BY <1>0
<1>2. PICK n \in T : \A m \in T : n <= m
  BY <1>0, <1>1, Minimum
<1>3. n # 0
  <2>1. Sums(q, 0, [k \in 0..0 |-> 0])
    BY DEF Sums
  <2> QED
    BY <1>2, <2>1
<1>4. n - 1 \in 0..Len(q) /\ n - 1 \notin T
  BY <1>2, <1>3
<1>5. PICK f : Sums(q, n - 1, f)
  BY <1>4
<1> DEFINE g == [k \in 0..n |-> IF k = n THEN f[n - 1] + q[n] ELSE f[k]]
<1>6. n \in 1..Len(q) /\ q[n] \in Nat
  BY <1>2, <1>3
<1>7. f \in [0..n - 1 -> Nat] /\ f[0] = 0 /\ \A k \in 1..n - 1 : f[k] = f[k - 1] + q[k]
  BY <1>5 DEF Sums
<1>8. g \in [0..n -> Nat] /\ g[0] = 0
  BY <1>6, <1>7
<1>9. ASSUME NEW k \in 1..n PROVE g[k] = g[k - 1] + q[k]
  BY <1>6, <1>7
<1> QED
  BY <1>2, <1>8, <1>9 DEF Sums

(* The equation by which Total defines its function.                       *)
UpTo(q, h) == h = [k \in 0..Len(q) |-> IF k = 0 THEN 0 ELSE h[k - 1] + q[k]]
Chosen(q) == CHOOSE h : UpTo(q, h)

(* Total is the last of the partial sums, whichever function holds them.   *)
LEMMA TotalIs ==
  ASSUME NEW q \in Seq(Nat), NEW f, Sums(q, Len(q), f)
  PROVE  Total(q) = f[Len(q)] /\ Total(q) \in Nat
<1> DEFINE g == Chosen(q)
<1>1. Total(q) = g[Len(q)]
  BY DEF Total, Chosen, UpTo
<1>2. f \in [0..Len(q) -> Nat] /\ f[0] = 0 /\ \A k \in 1..Len(q) : f[k] = f[k - 1] + q[k]
  BY DEF Sums
<1>3. UpTo(q, f)
  BY <1>2 DEF UpTo
<1>4. UpTo(q, g)
  BY <1>3 DEF Chosen
<1> DEFINE T == {k \in 0..Len(q) : f[k] # g[k]}
<1>5. ASSUME T # {} PROVE FALSE
  <2>0. T \in SUBSET Nat
    OBVIOUS
  <2> HIDE DEF T
  <2>1. PICK k \in T : \A j \in T : k <= j
    BY <1>5, <2>0, Minimum
  <2> USE DEF T
  <2>2. k \in 0..Len(q) /\ f[k] # g[k]
    BY <2>1
  <2> HIDE DEF g
  <2>3. g[0] = 0 /\ \A j \in 1..Len(q) : g[j] = g[j - 1] + q[j]
    BY <1>4, SMTT(30) DEF UpTo
  <2>4. k # 0
    BY <1>2, <2>2, <2>3
  <2>5. f[k - 1] = g[k - 1]
    BY <2>1, <2>2, <2>4
  <2> QED
    BY <1>2, <2>2, <2>3, <2>4, <2>5
<1> HIDE DEF g
<1> QED
  BY <1>1, <1>2, <1>5

(* Nothing buffered totals nothing.                                        *)
LEMMA TotalOfNone == Total(<<>>) = 0
<1>1. Sums(<<>>, 0, [k \in 0..0 |-> 0])
  BY DEF Sums
<1>2. <<>> \in Seq(Nat) /\ Len(<<>>) = 0
  OBVIOUS
<1> QED
  BY <1>1, <1>2, TotalIs

(* One more item adds its bytes to the total.                              *)
LEMMA TotalOfMore ==
  ASSUME NEW q \in Seq(Nat), NEW n \in Nat
  PROVE  Total(Append(q, n)) = Total(q) + n
<1> DEFINE more == Append(q, n)
<1>1. /\ more \in Seq(Nat) /\ Len(more) = Len(q) + 1
      /\ more[Len(q) + 1] = n /\ \A k \in 1..Len(q) : more[k] = q[k]
  BY AppendProperties
<1>2. PICK f : Sums(q, Len(q), f)
  BY SumsExist
<1>3. f \in [0..Len(q) -> Nat] /\ f[0] = 0 /\ \A k \in 1..Len(q) : f[k] = f[k - 1] + q[k]
  BY <1>2 DEF Sums
<1>4. Total(q) = f[Len(q)]
  BY <1>2, TotalIs
<1> DEFINE g == [k \in 0..Len(q) + 1 |-> IF k = Len(q) + 1 THEN f[Len(q)] + n ELSE f[k]]
<1> HIDE DEF more
<1>5. g \in [0..Len(q) + 1 -> Nat] /\ g[0] = 0
  BY <1>3, SMTT(30)
<1>6. ASSUME NEW k \in 1..Len(q) + 1 PROVE g[k] = g[k - 1] + more[k]
  BY <1>1, <1>3
<1>7. Sums(more, Len(more), g)
  BY <1>1, <1>5, <1>6 DEF Sums
<1>8. g[Len(more)] = f[Len(q)] + n
  BY <1>1
<1> QED
  BY <1>1, <1>4, <1>7, <1>8, TotalIs DEF more

(* Taking the first item takes its bytes off the total.                    *)
LEMMA TotalOfLess ==
  ASSUME NEW q \in Seq(Nat), q # <<>>
  PROVE  Head(q) \in Nat /\ Total(q) = Head(q) + Total(Tail(q))
<1> DEFINE less == Tail(q)
<1>1. /\ less \in Seq(Nat) /\ Len(q) \in Nat \ {0} /\ Len(less) = Len(q) - 1
      /\ Head(q) = q[1] /\ q[1] \in Nat /\ \A k \in 1..Len(q) - 1 : less[k] = q[k + 1]
      /\ \A k \in 1..Len(q) : q[k] \in Nat
  BY HeadTailProperties, EmptySeq, ElementOfSeq
<1>2. PICK f : Sums(less, Len(less), f)
  BY <1>1, SumsExist
<1>3. /\ f \in [0..Len(q) - 1 -> Nat] /\ f[0] = 0
      /\ \A k \in 1..Len(q) - 1 : f[k] = f[k - 1] + q[k + 1]
  BY <1>1, <1>2 DEF Sums
<1>4. Total(less) = f[Len(q) - 1]
  BY <1>1, <1>2, TotalIs
<1> DEFINE g == [k \in 0..Len(q) |-> IF k = 0 THEN 0 ELSE q[1] + f[k - 1]]
<1> HIDE DEF less
<1>5. g \in [0..Len(q) -> Nat] /\ g[0] = 0
  BY <1>1, <1>3, SMTT(30)
<1>6. ASSUME NEW k \in 1..Len(q) PROVE g[k] = g[k - 1] + q[k]
  <2>0. g[k] = q[1] + f[k - 1]
    BY <1>1
  <2>1. CASE k = 1
    BY <1>1, <1>3, <1>5, <2>0, <2>1
  <2>2. CASE k # 1
    <3>1. k - 1 \in 1..Len(q) - 1
      BY <1>1, <2>2
    <3>2. f[k - 1] = f[k - 2] + q[k]
      <4>1. \A j \in 1..Len(q) - 1 : f[j] = f[j - 1] + q[j + 1]
        BY <1>3
      <4>2. f[k - 1] = f[(k - 1) - 1] + q[(k - 1) + 1]
        BY <3>1, <4>1
      <4>3. (k - 1) - 1 = k - 2 /\ (k - 1) + 1 = k
        OBVIOUS
      <4> QED
        BY <4>2, <4>3
    <3>3. g[k - 1] = q[1] + f[k - 2]
      BY <1>1, <3>1
    <3>4. f[k - 2] \in Nat /\ q[k] \in Nat
      <4>1. k - 2 \in 0..Len(q) - 1
        BY <1>1, <3>1
      <4> QED
        BY <1>1, <1>3, <4>1
    <3> QED
      BY <1>1, <2>0, <3>2, <3>3, <3>4
  <2> QED
    BY <2>1, <2>2
<1>7. Sums(q, Len(q), g)
  BY <1>5, <1>6 DEF Sums
<1>8. g[Len(q)] = q[1] + f[Len(q) - 1]
  BY <1>1
<1> QED
  BY <1>1, <1>4, <1>7, <1>8, TotalIs DEF less

-----------------------------------------------------------------------------
(* What holds of an inbox, run by run.                                     *)
InboxOf(r) ==
  /\ ~failed[r] => bytes[r] = Total(items[r]) /\ bytes[r] <= MaxBytes
  /\ reader[r] = "waiting" => items[r] = <<>> /\ ~failed[r] /\ ~ended[r]
  /\ failed[r] => items[r] = <<>>

(* The invariant of the inboxes is what holds of each.                     *)
LEMMA InboxEach == InboxOK <=> InboxTypeOK /\ \A r \in Run : InboxOf(r)
BY DEF InboxOK, InboxInv, InboxOf, BytesAreItems, NoLostWakeup

(* Failing some inboxes keeps every inbox in order.                        *)
LEMMA FailKeeps ==
  ASSUME InboxOK, NEW R \in SUBSET Run, Fail(R)
  PROVE  InboxOK'
<1>1. InboxTypeOK'
  <2>1. InboxTypeOK /\ <<>> \in Seq(1..MaxItem)
    BY DEF InboxOK
  <2>2. items' \in [Run -> Seq(1..MaxItem)]
    BY <2>1 DEF InboxTypeOK, Fail
  <2> QED
    BY <2>1, <2>2 DEF InboxTypeOK, Fail, Wake
<1>2. ASSUME NEW r \in Run PROVE InboxOf(r)'
  <2>1. InboxOf(r)
    BY InboxEach
  <2>2. /\ failed'[r] = (r \in R \/ failed[r])
        /\ items'[r] = IF r \in R /\ ~failed[r] THEN <<>> ELSE items[r]
        /\ reader'[r] = IF r \in R /\ ~failed[r] /\ reader[r] = "waiting" THEN "pulling" ELSE reader[r]
        /\ bytes' = bytes /\ ended' = ended
    BY DEF Fail, Wake
  <2> QED
    BY <2>1, <2>2 DEF InboxOf
<1> QED
  BY <1>1, <1>2 DEF InboxOK, InboxInv, InboxOf, BytesAreItems, NoLostWakeup

(* An item that fits keeps every inbox in order.                           *)
LEMMA PushKeeps ==
  ASSUME InboxOK, NEW r \in Run, NEW n \in 1..MaxItem, Push(r, n)
  PROVE  InboxOK'
<1>0. InboxTypeOK /\ items[r] \in Seq(1..MaxItem) /\ items[r] \in Seq(Nat) /\ bytes[r] \in Nat /\ n \in Nat
  <2>1. 1..MaxItem \subseteq Nat
    BY InboxAssumption
  <2>2. InboxTypeOK /\ items[r] \in Seq(1..MaxItem) /\ bytes[r] \in Nat
    BY DEF InboxOK, InboxTypeOK
  <2> QED
    BY <2>1, <2>2, SeqMonotonic
<1>1. Append(items[r], n) \in Seq(1..MaxItem) /\ Append(items[r], n) # <<>>
  BY <1>0, AppendProperties
<1>2. InboxTypeOK'
  BY <1>0, <1>1 DEF InboxTypeOK, Push, Wake
<1>3. ASSUME NEW q \in Run PROVE InboxOf(q)'
  <2>1. InboxOf(q)
    BY InboxEach
  <2>2. CASE q # r
    BY <1>0, <2>1, <2>2 DEF InboxOf, Push, Wake, InboxTypeOK
  <2>3. CASE q = r
    <3>1. Total(Append(items[r], n)) = Total(items[r]) + n
      BY <1>0, TotalOfMore
    <3>2. /\ items'[r] = Append(items[r], n) /\ bytes'[r] = bytes[r] + n /\ bytes'[r] <= MaxBytes
          /\ reader'[r] # "waiting" /\ ~failed[r] /\ failed' = failed
      BY <1>0, InboxAssumption DEF Push, Accepts, Overflows, Wake, InboxTypeOK
    <3> QED
      BY <2>1, <2>3, <3>1, <3>2 DEF InboxOf
  <2> QED
    BY <2>2, <2>3
<1> QED
  BY <1>2, <1>3 DEF InboxOK, InboxInv, InboxOf, BytesAreItems, NoLostWakeup

(* An item past the ceiling empties its inbox and fails it.                *)
LEMMA PushOverKeeps ==
  ASSUME InboxOK, NEW r \in Run, NEW n \in 1..MaxItem, PushOver(r, n)
  PROVE  InboxOK'
<1>1. n \in Nat /\ InboxTypeOK
  BY InboxAssumption DEF InboxOK
<1>2. InboxTypeOK'
  BY <1>1 DEF InboxTypeOK, PushOver, Wake
<1>3. ASSUME NEW q \in Run PROVE InboxOf(q)'
  <2>1. InboxOf(q)
    BY InboxEach
  <2>2. CASE q # r
    BY <1>1, <2>1, <2>2 DEF InboxOf, PushOver, Wake, InboxTypeOK
  <2>3. CASE q = r
    BY <1>1, <2>1, <2>3 DEF InboxOf, PushOver, Wake, InboxTypeOK
  <2> QED
    BY <2>2, <2>3
<1> QED
  BY <1>2, <1>3 DEF InboxOK, InboxInv, InboxOf, BytesAreItems, NoLostWakeup

(* The phone's end keeps every inbox in order.                             *)
LEMMA EndKeeps ==
  ASSUME InboxOK, NEW r \in Run, End(r)
  PROVE  InboxOK'
<1>1. InboxTypeOK'
  BY DEF InboxOK, InboxTypeOK, End, Wake
<1>2. ASSUME NEW q \in Run PROVE InboxOf(q)'
  <2>1. InboxOf(q)
    BY InboxEach
  <2> QED
    BY <2>1 DEF InboxOK, InboxOf, End, Wake, InboxTypeOK
<1> QED
  BY <1>1, <1>2 DEF InboxOK, InboxInv, InboxOf, BytesAreItems, NoLostWakeup

(* Reading keeps every inbox in order.                                     *)
LEMMA ReadKeeps ==
  ASSUME InboxOK, NEW r \in Run, Pull(r) \/ Look(r)
  PROVE  InboxOK'
<1>0. InboxTypeOK /\ InboxOf(r) /\ items[r] \in Seq(1..MaxItem) /\ items[r] \in Seq(Nat) /\ bytes[r] \in Nat
  <2>1. 1..MaxItem \subseteq Nat
    BY InboxAssumption
  <2>2. InboxTypeOK /\ items[r] \in Seq(1..MaxItem) /\ bytes[r] \in Nat
    BY DEF InboxOK, InboxTypeOK
  <2> QED
    BY <2>1, <2>2, SeqMonotonic, InboxEach
<1>1. CASE Pull(r)
  <2>1. InboxTypeOK'
    BY <1>0, <1>1 DEF InboxTypeOK, Pull
  <2>2. ASSUME NEW q \in Run PROVE InboxOf(q)'
    <3>1. InboxOf(q)
      BY InboxEach
    <3> QED
      BY <1>0, <1>1, <3>1 DEF InboxOf, Pull, InboxTypeOK
  <2> QED
    BY <2>1, <2>2 DEF InboxOK, InboxInv, InboxOf, BytesAreItems, NoLostWakeup
<1>2. CASE Look(r) /\ items[r] = <<>>
  <2>1. InboxTypeOK'
    BY <1>0, <1>2 DEF InboxTypeOK, Look
  <2>2. ASSUME NEW q \in Run PROVE InboxOf(q)'
    <3>1. InboxOf(q)
      BY InboxEach
    <3> QED
      BY <1>0, <1>2, <3>1 DEF InboxOf, Look, InboxTypeOK
  <2> QED
    BY <2>1, <2>2 DEF InboxOK, InboxInv, InboxOf, BytesAreItems, NoLostWakeup
<1>3. CASE Look(r) /\ items[r] # <<>>
  <2>1. /\ items' = [items EXCEPT ![r] = Tail(@)]
        /\ bytes' = [bytes EXCEPT ![r] = @ - Head(items[r])]
        /\ reader' = [reader EXCEPT ![r] = "idle"] /\ failed' = failed /\ ended' = ended
    BY <1>3 DEF Look
  <2>2. /\ ~failed[r] /\ bytes[r] = Total(items[r]) /\ bytes[r] <= MaxBytes
        /\ Head(items[r]) \in Nat /\ Total(items[r]) = Head(items[r]) + Total(Tail(items[r]))
    BY <1>0, <1>3, TotalOfLess DEF InboxOf
  <2>3. Tail(items[r]) \in Seq(1..MaxItem) /\ Tail(items[r]) \in Seq(Nat)
    BY <1>0, <1>3, HeadTailProperties
  <2>4. Total(Tail(items[r])) \in Nat
    BY <2>3, SumsExist, TotalIs
  <2>5. bytes[r] - Head(items[r]) = Total(Tail(items[r])) /\ Total(Tail(items[r])) <= MaxBytes
    BY <1>0, <2>2, <2>4, InboxAssumption
  <2>6. InboxTypeOK'
    BY <1>0, <2>1, <2>3, <2>4, <2>5 DEF InboxTypeOK
  <2>7. ASSUME NEW q \in Run PROVE InboxOf(q)'
    <3>1. InboxOf(q)
      BY InboxEach
    <3>2. CASE q # r
      BY <1>0, <2>1, <3>1, <3>2 DEF InboxOf, InboxTypeOK
    <3>3. CASE q = r
      BY <1>0, <2>1, <2>2, <2>5, <3>3 DEF InboxOf, InboxTypeOK
    <3> QED
      BY <3>2, <3>3
  <2> QED
    BY <2>6, <2>7 DEF InboxOK, InboxInv, InboxOf, BytesAreItems, NoLostWakeup
<1> QED
  BY <1>1, <1>2, <1>3

-----------------------------------------------------------------------------
Kinds == {"item", "end", "error"}

(* No delivery of queue is run r's.                                        *)
Out(queue, r) == \A k \in 1..Len(queue) : queue[k].run # r

(* The oldest delivery is awaited by its run and by no other.              *)
LEMMA QueueTail ==
  ASSUME FieldsOK, Awaited(writes, pump), writes # <<>>
  PROVE  /\ Head(writes).run \in Run /\ Head(writes).kind \in Kinds
         /\ pump[Head(writes).run] = Head(writes).kind
         /\ Tail(writes) \in Seq(Write) /\ Awaited(Tail(writes), pump)
         /\ Out(Tail(writes), Head(writes).run)
<1>1. /\ Tail(writes) \in Seq(Write) /\ Len(writes) \in Nat \ {0} /\ Len(Tail(writes)) = Len(writes) - 1
      /\ Head(writes) = writes[1] /\ writes[1] \in Write
      /\ \A k \in 1..Len(writes) - 1 : Tail(writes)[k] = writes[k + 1]
  BY HeadTailProperties, EmptySeq DEF FieldsOK
<1>2. Awaited(Tail(writes), pump) /\ Out(Tail(writes), writes[1].run)
  BY <1>1 DEF Awaited, Out
<1> QED
  BY <1>1, <1>2 DEF Awaited, Write, Kinds

(* A pump that awaits no delivery is in none.                              *)
LEMMA QueueOut ==
  ASSUME NEW queue \in Seq(Write), Awaited(queue, pump), NEW r \in Run, pump[r] \notin Kinds
  PROVE  Out(queue, r)
<1>1. \A k \in 1..Len(queue) : queue[k].kind \in Kinds
  <2>1. \A k \in 1..Len(queue) : queue[k] \in Write
    BY ElementOfSeq
  <2> QED
    BY <2>1 DEF Write, Kinds
<1> QED
  BY <1>1 DEF Awaited, Out

(* It may go on to another stage.                                          *)
LEMMA QueueStage ==
  ASSUME FieldsOK, NEW queue \in Seq(Write), Awaited(queue, pump), NEW r \in Run, Out(queue, r),
         NEW stage
  PROVE  Awaited(queue, [pump EXCEPT ![r] = stage])
<1>1. \A k \in 1..Len(queue) : queue[k].run \in Run
  <2>1. \A k \in 1..Len(queue) : queue[k] \in Write
    BY ElementOfSeq
  <2> QED
    BY <2>1 DEF Write
<1> QED
  BY <1>1 DEF Awaited, Out, FieldsOK

(* It may await one more.                                                  *)
LEMMA QueueMore ==
  ASSUME FieldsOK, NEW queue \in Seq(Write), Awaited(queue, pump), NEW r \in Run, Out(queue, r),
         NEW kind \in Kinds
  PROVE  /\ Append(queue, [run |-> r, kind |-> kind]) \in Seq(Write)
         /\ Awaited(Append(queue, [run |-> r, kind |-> kind]), [pump EXCEPT ![r] = kind])
<1> DEFINE w == [run |-> r, kind |-> kind]
           more == Append(queue, w)
           stages == [pump EXCEPT ![r] = kind]
<1>1. w \in Write /\ w.run = r /\ w.kind = kind
  BY DEF Write, Kinds
<1> HIDE DEF w
<1>2. /\ more \in Seq(Write) /\ Len(more) = Len(queue) + 1 /\ Len(queue) \in Nat
      /\ more[Len(queue) + 1] = w /\ \A k \in 1..Len(queue) : more[k] = queue[k]
  BY <1>1, AppendProperties
<1>3. Awaited(queue, stages)
  BY QueueStage
<1>4. stages[r] = kind
  BY DEF FieldsOK
<1> HIDE DEF more, stages
<1>5. ASSUME NEW k \in 1..Len(more) PROVE stages[more[k].run] = more[k].kind
  BY <1>1, <1>2, <1>3, <1>4 DEF Awaited
<1>6. ASSUME NEW j \in 1..Len(more), NEW k \in 1..Len(more), more[j].run = more[k].run PROVE j = k
  BY <1>1, <1>2, <1>3, <1>6 DEF Awaited, Out
<1>7. Awaited(more, stages)
  BY <1>5, <1>6 DEF Awaited
<1> QED
  BY <1>2, <1>7 DEF more, stages, w

(* A live pump goes on to another stage it is live in.                     *)
LEMMA MapMovesOn ==
  ASSUME FieldsOK, MapInv, NEW r \in Run, Live(r), NEW stage \in Stage \ {"unused", "done"},
         pump' = [pump EXCEPT ![r] = stage], Awaited(writes, pump)',
         UNCHANGED <<streams, idOf, aborted, failed>>, Heard' = Heard
  PROVE  MapInv'
<1>1. \A q \in Run : Live(q)' <=> Live(q)
  BY DEF Live, FieldsOK
<1>2. \A i \in StreamId : streams[i] # None => streams[i] \in Run
  BY DEF FieldsOK
<1>3. \A i \in StreamId : streams'[i] # None => Live(streams[i])' /\ idOf'[streams'[i]] = i
  BY <1>1, <1>2 DEF MapInv
<1>4. NoOrphans'
  BY <1>1 DEF MapInv, NoOrphans, LiveIsReachable, CloseStopsAll
<1> QED
  BY <1>1, <1>3, <1>4 DEF MapInv, Live

(* A pump is done: it leaves the map, nobody else does.                    *)
LEMMA MapFinishes ==
  ASSUME FieldsOK, MapInv, NEW r \in Run, Live(r), Finally(r), Awaited(writes, pump)',
         UNCHANGED <<idOf, aborted>>, Heard' = Heard
  PROVE  MapInv'
<1>1. \A q \in Run : Live(q)' <=> Live(q) /\ q # r
  BY DEF Live, FieldsOK, Finally
<1>2. idOf[r] \in StreamId /\ \A i \in StreamId : streams[i] # None => streams[i] \in Run
  BY DEF FieldsOK, MapInv
<1>3. \A i \in StreamId : streams'[i] = IF i = idOf[r] THEN None ELSE streams[i]
  BY DEF FieldsOK, Finally
<1>4. \A q \in Run : failed[q] => failed'[q]
  BY DEF Finally, Fail
<1>5. ASSUME NEW i \in StreamId, streams'[i] # None PROVE pump'[streams'[i]] \notin {"unused", "done"} /\ idOf'[streams'[i]] = i
  <2>1. streams'[i] = streams[i] /\ i # idOf[r] /\ Live(streams[i]) /\ idOf[streams[i]] = i /\ streams[i] \in Run
    BY <1>2, <1>3, <1>5 DEF MapInv
  <2>2. Live(streams[i])'
    BY <1>1, <2>1
  <2> QED
    BY <2>1, <2>2 DEF Live
<1>6. Heard => \A q \in Run : Live(q)' => streams'[idOf'[q]] = q
  <2> SUFFICES ASSUME Heard, NEW q \in Run, Live(q)' PROVE streams'[idOf[q]] = q
    OBVIOUS
  <2>1. Live(q) /\ q # r /\ streams[idOf[q]] = q /\ streams[idOf[r]] = r /\ idOf[q] \in StreamId
    BY <1>1 DEF MapInv, NoOrphans, LiveIsReachable
  <2> QED
    BY <1>3, <2>1
<1>7. NoOrphans'
  BY <1>1, <1>4, <1>6 DEF MapInv, NoOrphans, LiveIsReachable, CloseStopsAll
<1> QED
  BY <1>1, <1>3, <1>5, <1>7 DEF MapInv, Live

(* Whatever goes wrong in a pump, it tells the phone or is done.           *)
LEMMA CatchKeeps ==
  ASSUME FieldsOK, MapInv, NEW r \in Run, pump[r] \in {"opening", "running", "unwinding"},
         Catch(r), UNCHANGED <<socket, idOf, aborted>>
  PROVE  MapInv' /\ writes' \in Seq(Write) /\ writes' \in {writes, Append(writes, [run |-> r, kind |-> "error"])}
<1>1. Live(r) /\ pump[r] \notin Kinds /\ Awaited(writes, pump) /\ writes \in Seq(Write)
  BY DEF Live, Kinds, MapInv, FieldsOK
<1>2. Out(writes, r) /\ Heard' = Heard
  BY <1>1, QueueOut DEF Heard
<1>3. CASE ~aborted[r] /\ socket = "open"
  <2>1. /\ writes' = Append(writes, [run |-> r, kind |-> "error"]) /\ pump' = [pump EXCEPT ![r] = "error"]
        /\ UNCHANGED <<streams, inboxVars>>
    BY <1>3 DEF Catch, Send
  <2>2. writes' \in Seq(Write) /\ Awaited(writes', pump')
    BY <1>1, <1>2, <2>1, QueueMore DEF Kinds
  <2> QED
    BY <1>1, <1>2, <2>1, <2>2, MapMovesOn DEF inboxVars, Stage, Awaited
<1>4. CASE ~(~aborted[r] /\ socket = "open")
  <2>1. Finally(r) /\ writes' = writes
    BY <1>4 DEF Catch
  <2>2. Awaited(writes', pump')
    BY <1>1, <1>2, <2>1, QueueStage DEF Finally
  <2> QED
    BY <1>1, <1>2, <2>1, <2>2, MapFinishes DEF Awaited
<1> QED
  BY <1>3, <1>4

(* One step keeps the inboxes in order.                                    *)
LEMMA InboxStep == FieldsOK /\ InboxOK /\ MapInv /\ [Next]_vars => InboxOK'
<1> SUFFICES ASSUME FieldsOK, InboxOK, MapInv, [Next]_vars PROVE InboxOK'
  OBVIOUS
<1>1. CASE UNCHANGED inboxVars
  BY <1>1 DEF InboxOK, InboxTypeOK, InboxInv, BytesAreItems, NoLostWakeup, inboxVars
<1>2. \A i \in StreamId : streams[i] # None => streams[i] \in Run
  BY DEF FieldsOK
<1>3. ASSUME NEW r \in Run, Finally(r) PROVE InboxOK'
  BY <1>3, FailKeeps DEF Finally
<1>4. ASSUME NEW r \in Run, Catch(r) PROVE InboxOK'
  BY <1>1, <1>3, <1>4 DEF Catch
<1>5. ASSUME NEW i \in StreamId, NEW r \in Run, OnOpen(i, r) PROVE InboxOK'
  BY <1>1, <1>5 DEF OnOpen
<1>6. ASSUME NEW i \in StreamId, NEW n \in 1..MaxItem, OnItem(i, n) PROVE InboxOK'
  BY <1>2, <1>6, PushKeeps, PushOverKeeps DEF OnItem
<1>7. ASSUME NEW i \in StreamId, OnEnd(i) PROVE InboxOK'
  BY <1>2, <1>7, EndKeeps DEF OnEnd
<1>8. ASSUME NEW i \in StreamId, OnCancel(i) PROVE InboxOK'
  <2>1. streams[i] \in Run /\ Fail({streams[i]})
    BY <1>2, <1>8 DEF OnCancel, Stop
  <2> QED
    BY <2>1, FailKeeps
<1>9. CASE OnMalformed \/ PeerDisposed \/ HandOver
  BY <1>1, <1>9 DEF OnMalformed, PeerDisposed, HandOver
<1>10. CASE OnSocketClose
  <2>1. {streams[i] : i \in StreamId} \ {None} \in SUBSET Run
    BY <1>2
  <2> QED
    BY <1>10, <2>1, FailKeeps DEF OnSocketClose, Stop
<1>11. ASSUME NEW r \in Run, SourceOpens(r) \/ SourceThrows(r) \/ SourceYields(r) \/ SourceEnds(r)
                             \/ SourceReturns(r) \/ RemoteReads(r)
       PROVE  InboxOK'
  BY <1>1, <1>3, <1>4, <1>11, ReadKeeps
     DEF SourceOpens, SourceThrows, SourceYields, SourceEnds, SourceReturns, RemoteReads
<1>12. CASE Delivered
  <2>1. Head(writes).run \in Run
    BY <1>12, QueueTail DEF Delivered, FieldsOK, MapInv
  <2> QED
    BY <1>1, <1>3, <1>12, <2>1 DEF Delivered
<1>13. CASE Undelivered
  <2>1. Head(writes).run \in Run
    BY <1>13, QueueTail DEF Undelivered, MapInv
  <2> QED
    BY <1>1, <1>3, <1>13, <2>1 DEF Undelivered
<1>14. CASE UNCHANGED vars
  BY <1>1, <1>14 DEF vars
<1> QED
  BY <1>5, <1>6, <1>7, <1>8, <1>9, <1>10, <1>11, <1>12, <1>13, <1>14 DEF Next

(* One step keeps the map, the chain and the pumps true to each other.     *)
LEMMA MapStep == FieldsOK /\ InboxOK /\ MapInv /\ [Next]_vars => MapInv'
<1> SUFFICES ASSUME FieldsOK, InboxOK, MapInv, [Next]_vars PROVE MapInv'
  OBVIOUS
<1>1. /\ writes \in Seq(Write) /\ Awaited(writes, pump)
      /\ \A i \in StreamId : streams[i] # None => streams[i] \in Run
  BY DEF FieldsOK, MapInv
<1>2. ASSUME UNCHANGED <<streams, idOf, pump, writes>>, Heard' = Heard,
             \A r \in Run : aborted[r] /\ failed[r] => aborted'[r] /\ failed'[r]
      PROVE  MapInv'
  BY <1>2 DEF MapInv, Awaited, Live, NoOrphans, LiveIsReachable, CloseStopsAll
<1>3. ASSUME NEW R, Stop(R), NEW r \in Run, aborted[r] /\ failed[r] PROVE aborted'[r] /\ failed'[r]
  BY <1>3 DEF Stop, Fail
<1>4. ASSUME NEW i \in StreamId, NEW r \in Run, OnOpen(i, r) PROVE MapInv'
  <2>1. pump[r] = "unused" /\ pump[r] \notin Kinds /\ pump' = [pump EXCEPT ![r] = "opening"]
    BY <1>4 DEF OnOpen, Kinds
  <2>2. Awaited(writes, pump)'
    <3>1. Awaited(writes, [pump EXCEPT ![r] = "opening"])
      BY <1>1, <2>1, QueueOut, QueueStage
    <3> QED
      BY <1>4, <2>1, <3>1 DEF OnOpen, sendVars, Awaited
  <2>3. \A q \in Run : Live(q)' <=> Live(q) \/ q = r
    BY <2>1 DEF Live, FieldsOK
  <2>4. /\ \A j \in StreamId : streams'[j] = IF j = i THEN r ELSE streams[j]
        /\ \A q \in Run : idOf'[q] = IF q = r THEN i ELSE idOf[q]
        /\ socket' = socket /\ Heard /\ Heard' /\ streams[i] = None /\ r # None
    BY <1>4, NoneAssumption DEF OnOpen, FieldsOK, Heard
  <2>5. \A j \in StreamId : streams[j] # r
    BY <2>1, NoneAssumption DEF MapInv, Live
  <2>6. ASSUME NEW j \in StreamId, streams'[j] # None PROVE Live(streams[j])' /\ idOf'[streams'[j]] = j
    <3>1. CASE j = i
      BY <1>4, <2>1, <2>4, <3>1 DEF Live, FieldsOK
    <3>2. CASE j # i
      <4>1. streams'[j] = streams[j] /\ streams[j] \in Run /\ streams[j] # r /\ Live(streams[j])
            /\ idOf[streams[j]] = j
        BY <1>1, <2>4, <2>5, <2>6, <3>2 DEF MapInv
      <4> QED
        BY <2>3, <2>4, <4>1 DEF Live
    <3> QED
      BY <3>1, <3>2
  <2>7. ASSUME NEW q \in Run, Live(q)' PROVE idOf'[q] \in StreamId /\ streams'[idOf'[q]] = q
    <3>1. CASE q = r
      BY <2>4, <3>1
    <3>2. CASE q # r
      <4>1. Live(q) /\ idOf[q] \in StreamId /\ streams[idOf[q]] = q
        BY <2>3, <2>4, <2>7, <3>2 DEF MapInv, NoOrphans, LiveIsReachable
      <4> QED
        BY <2>4, <4>1, NoneAssumption, <3>2
    <3> QED
      BY <3>1, <3>2
  <2> QED
    BY <2>2, <2>4, <2>6, <2>7 DEF MapInv, NoOrphans, LiveIsReachable, CloseStopsAll
<1>5. ASSUME NEW i \in StreamId, NEW n \in 1..MaxItem, OnItem(i, n) PROVE MapInv'
  <2>1. \A r \in Run : aborted[r] /\ failed[r] => aborted'[r] /\ failed'[r]
    BY <1>1, <1>5 DEF OnItem, Push, PushOver, FieldsOK, InboxOK, InboxTypeOK
  <2> QED
    BY <1>2, <1>5, <2>1 DEF OnItem, sendVars, Heard
<1>6. ASSUME NEW i \in StreamId, OnEnd(i) PROVE MapInv'
  BY <1>2, <1>6 DEF OnEnd, End, pumpVars, sendVars, Heard
<1>7. ASSUME NEW i \in StreamId, OnCancel(i) PROVE MapInv'
  BY <1>2, <1>3, <1>7 DEF OnCancel, sendVars, Heard
<1>8. CASE OnMalformed \/ PeerDisposed \/ HandOver
  BY <1>2, <1>8 DEF OnMalformed, PeerDisposed, HandOver, pumpVars, sendVars, inboxVars, Heard, FieldsOK
<1>9. CASE OnSocketClose
  <2>1. /\ Heard /\ ~Heard' /\ UNCHANGED <<idOf, pump, writes>>
        /\ Stop({streams[i] : i \in StreamId} \ {None})
        /\ \A i \in StreamId : streams'[i] = None
    BY <1>9 DEF OnSocketClose, sendVars, Heard
  <2>2. ASSUME NEW r \in Run, Live(r) PROVE aborted'[r] /\ failed'[r]
    <3>1. idOf[r] \in StreamId /\ streams[idOf[r]] = r /\ r # None
      BY <2>1, <2>2, NoneAssumption DEF MapInv, NoOrphans, LiveIsReachable
    <3>2. r \in {streams[i] : i \in StreamId} \ {None}
      BY <3>1
    <3> QED
      BY <2>1, <3>2 DEF Stop, Fail
  <2> QED
    BY <2>1, <2>2 DEF MapInv, Awaited, Live, NoOrphans, LiveIsReachable, CloseStopsAll
<1>10. ASSUME NEW r \in Run, SourceOpens(r) PROVE MapInv'
  <2>1. pump[r] \notin Kinds /\ Live(r) /\ pump' = [pump EXCEPT ![r] = "running"] /\ UNCHANGED <<streams, idOf, aborted, failed, writes, socket>>
    BY <1>10 DEF SourceOpens, Kinds, Live, sendVars, inboxVars
  <2>2. Awaited(writes, pump)'
    <3>1. Awaited(writes, [pump EXCEPT ![r] = "running"])
      BY <1>1, <2>1, QueueOut, QueueStage
    <3> QED
      BY <2>1, <3>1 DEF Awaited
  <2> QED
    BY <2>1, <2>2, MapMovesOn DEF Heard, Stage
<1>11. ASSUME NEW r \in Run, SourceThrows(r) \/ SourceReturns(r) PROVE MapInv'
  BY <1>11, CatchKeeps DEF SourceThrows, SourceReturns
<1>12. ASSUME NEW r \in Run, NEW kind \in {"item", "end"}, pump[r] = "running", Send(r, kind),
              UNCHANGED <<socket, streams, idOf, aborted, inboxVars>>
       PROVE  MapInv'
  <2>1. pump[r] \notin Kinds /\ kind \in Kinds /\ Live(r) /\ Heard' = Heard
    BY <1>12 DEF Kinds, Live, Heard
  <2>2. Awaited(writes', pump')
    BY <1>1, <1>12, <2>1, QueueOut, QueueMore DEF Send
  <2> QED
    BY <1>12, <2>1, <2>2, MapMovesOn DEF Send, Stage, Awaited, inboxVars
<1>13. ASSUME NEW r \in Run, SourceYields(r) PROVE MapInv'
  BY <1>12, <1>13 DEF SourceYields
<1>14. ASSUME NEW r \in Run, SourceEnds(r) PROVE MapInv'
  <2>1. CASE aborted[r]
    <3>1. pump[r] \notin Kinds /\ Live(r) /\ Finally(r) /\ UNCHANGED <<writes, socket, idOf, aborted>>
      BY <1>14, <2>1 DEF SourceEnds, Kinds, Live
    <3>2. Awaited(writes, pump)'
      <4>1. Awaited(writes, [pump EXCEPT ![r] = "done"])
        BY <1>1, <3>1, QueueOut, QueueStage
      <4> QED
        BY <3>1, <4>1 DEF Awaited, Finally
    <3> QED
      BY <3>1, <3>2, MapFinishes DEF Heard
  <2>2. CASE ~aborted[r]
    BY <1>12, <1>14, <2>2 DEF SourceEnds
  <2> QED
    BY <2>1, <2>2
<1>15. ASSUME NEW r \in Run, RemoteReads(r) PROVE MapInv'
  BY <1>2, <1>15 DEF RemoteReads, Pull, Look, pumpVars, sendVars, Heard
<1> DEFINE r == Head(writes).run
           kind == Head(writes).kind
<1>16. ASSUME writes # <<>>
       PROVE  /\ r \in Run /\ kind \in Kinds /\ pump[r] = kind /\ Live(r)
              /\ Tail(writes) \in Seq(Write) /\ Awaited(Tail(writes), pump) /\ Out(Tail(writes), r)
  BY <1>1, <1>16, QueueTail DEF Live, Kinds
<1>17. ASSUME writes # <<>>, writes' = Tail(writes), Finally(r), UNCHANGED <<idOf, aborted>>, Heard' = Heard
       PROVE  MapInv'
  <2> HIDE DEF r, kind
  <2>1. Awaited(writes', pump')
    BY <1>16, <1>17, QueueStage DEF Finally
  <2> QED
    BY <1>16, <1>17, <2>1, MapFinishes DEF Awaited
<1>18. ASSUME writes # <<>>, writes' = Tail(writes), NEW stage \in {"running", "unwinding"},
              pump' = [pump EXCEPT ![r] = stage], UNCHANGED <<streams, idOf, aborted, failed, socket>>
       PROVE  MapInv'
  <2> HIDE DEF r, kind
  <2>1. Awaited(writes', pump')
    BY <1>16, <1>18, QueueStage
  <2> QED
    BY <1>16, <1>18, <2>1, MapMovesOn DEF Awaited, Stage, Heard
<1>19. CASE Delivered
  BY <1>17, <1>18, <1>19 DEF Delivered, Heard, FieldsOK, inboxVars
<1>20. CASE Undelivered
  <2>1. CASE kind = "item"
    BY <1>18, <1>20, <2>1 DEF Undelivered, inboxVars
  <2>2. CASE kind = "end" /\ ~aborted[r] /\ socket = "open"
    <3>1. /\ writes # <<>> /\ writes' = Append(Tail(writes), [run |-> r, kind |-> "error"])
          /\ pump' = [pump EXCEPT ![r] = "error"]
          /\ UNCHANGED <<socket, streams, idOf, aborted, inboxVars>>
      BY <1>20, <2>2 DEF Undelivered
    <3> HIDE DEF r, kind
    <3>2. Awaited(writes', pump')
      BY <1>16, <3>1, QueueMore DEF Kinds
    <3> QED
      BY <1>16, <3>1, <3>2, MapMovesOn DEF Awaited, Stage, Heard, inboxVars
  <2>3. CASE kind = "end" /\ (aborted[r] \/ socket # "open")
    BY <1>17, <1>20, <2>3 DEF Undelivered, Heard
  <2>4. CASE kind = "error"
    BY <1>17, <1>20, <2>4 DEF Undelivered, Heard
  <2>5. writes # <<>>
    BY <1>20 DEF Undelivered
  <2> QED
    BY <1>16, <2>1, <2>2, <2>3, <2>4, <2>5 DEF Kinds
<1>21. CASE UNCHANGED vars
  BY <1>2, <1>21 DEF vars, pumpVars, sendVars, inboxVars, Heard
<1> QED
  BY <1>4, <1>5, <1>6, <1>7, <1>8, <1>9, <1>10, <1>11, <1>13, <1>14, <1>15, <1>19, <1>20, <1>21 DEF Next

(* One step keeps every other field in its type.                           *)
LEMMA FieldsStep == FieldsOK /\ MapInv /\ [Next]_vars => FieldsOK'
<1> SUFFICES ASSUME FieldsOK, MapInv, [Next]_vars PROVE FieldsOK'
  OBVIOUS
<1>1. /\ writes \in Seq(Write) /\ Awaited(writes, pump)
      /\ \A i \in StreamId : streams[i] # None => streams[i] \in Run
  BY DEF FieldsOK, MapInv
<1>2. \A w : Append(writes, w) # <<>>
  BY <1>1
<1>3. ASSUME NEW r \in Run, Finally(r)
      PROVE  /\ pump' \in [Run -> Stage] /\ streams' \in [StreamId -> Run \cup {None}]
  BY <1>3 DEF Finally, FieldsOK, Stage
<1>4. ASSUME NEW r \in Run, NEW kind \in Kinds, Send(r, kind)
      PROVE  pump' \in [Run -> Stage] /\ writes' \in Seq(Write) /\ writes' # <<>>
  <2>1. [run |-> r, kind |-> kind] \in Write
    BY DEF Write, Kinds
  <2>2. pump' \in [Run -> Stage]
    BY <1>4 DEF Send, FieldsOK, Stage, Kinds
  <2> QED
    BY <1>1, <1>2, <1>4, <2>1, <2>2, AppendProperties DEF Send
<1>5. ASSUME NEW r \in Run, pump[r] \in {"opening", "running", "unwinding"}, Catch(r),
             UNCHANGED <<socket, disposed, idOf, aborted, handed, settled>>
      PROVE  FieldsOK'
  <2>1. CASE ~aborted[r] /\ socket = "open"
    <3>1. Send(r, "error") /\ UNCHANGED streams
      BY <1>5, <2>1 DEF Catch
    <3> QED
      BY <1>4, <1>5, <3>1 DEF FieldsOK, Kinds
  <2>2. CASE ~(~aborted[r] /\ socket = "open")
    BY <1>3, <1>5, <2>2 DEF Catch, FieldsOK
  <2> QED
    BY <2>1, <2>2
<1>6. ASSUME NEW i \in StreamId, NEW r \in Run, OnOpen(i, r) PROVE FieldsOK'
  BY <1>6 DEF OnOpen, FieldsOK, Stage, sendVars
<1>7. ASSUME NEW i \in StreamId, NEW n \in 1..MaxItem, OnItem(i, n) PROVE FieldsOK'
  BY <1>7 DEF OnItem, FieldsOK, sendVars
<1>8. ASSUME NEW i \in StreamId, OnEnd(i) \/ OnCancel(i) PROVE FieldsOK'
  <2>1. CASE OnEnd(i)
    BY <2>1 DEF OnEnd, FieldsOK, pumpVars, sendVars
  <2>2. CASE OnCancel(i)
    BY <2>2 DEF OnCancel, Stop, FieldsOK, sendVars
  <2> QED
    BY <1>8, <2>1, <2>2
<1>9. CASE OnMalformed \/ PeerDisposed \/ HandOver
  <2>1. CASE OnMalformed
    BY <2>1 DEF OnMalformed, FieldsOK, pumpVars, sendVars
  <2>2. CASE PeerDisposed
    BY <2>2 DEF PeerDisposed, FieldsOK, pumpVars, sendVars
  <2>3. CASE HandOver
    BY <2>3 DEF HandOver, FieldsOK, pumpVars
  <2> QED
    BY <1>9, <2>1, <2>2, <2>3
<1>10. CASE OnSocketClose
  BY <1>10 DEF OnSocketClose, Stop, FieldsOK, sendVars
<1>11. ASSUME NEW r \in Run, SourceOpens(r) PROVE FieldsOK'
  BY <1>11 DEF SourceOpens, FieldsOK, Stage, sendVars
<1>12. ASSUME NEW r \in Run, SourceThrows(r) \/ SourceReturns(r) PROVE FieldsOK'
  BY <1>5, <1>12 DEF SourceThrows, SourceReturns
<1>13. ASSUME NEW r \in Run, SourceYields(r) PROVE FieldsOK'
  BY <1>4, <1>13 DEF SourceYields, FieldsOK, Kinds
<1>14. ASSUME NEW r \in Run, SourceEnds(r) PROVE FieldsOK'
  <2>1. CASE aborted[r]
    BY <1>3, <1>14, <2>1 DEF SourceEnds, FieldsOK
  <2>2. CASE ~aborted[r]
    BY <1>4, <1>14, <2>2 DEF SourceEnds, FieldsOK, Kinds
  <2> QED
    BY <2>1, <2>2
<1>15. ASSUME NEW r \in Run, RemoteReads(r) PROVE FieldsOK'
  BY <1>15 DEF RemoteReads, FieldsOK, pumpVars, sendVars
<1> DEFINE r == Head(writes).run
           kind == Head(writes).kind
<1>16. ASSUME writes # <<>>
       PROVE  r \in Run /\ kind \in Kinds /\ Tail(writes) \in Seq(Write)
  BY <1>1, <1>16, QueueTail
<1>17. CASE Delivered
  <2>1. writes # <<>> /\ writes' = Tail(writes) /\ handed' = FALSE /\ UNCHANGED <<socket, disposed, idOf, aborted>>
    BY <1>17 DEF Delivered, FieldsOK
  <2>2. CASE kind = "item"
    <3>1. pump' = [pump EXCEPT ![r] = "running"] /\ UNCHANGED <<streams, settled>>
      BY <1>17, <2>2 DEF Delivered
    <3> HIDE DEF r, kind
    <3> QED
      BY <1>16, <2>1, <3>1 DEF FieldsOK, Stage
  <2>3. CASE kind # "item"
    <3>1. settled' = [settled EXCEPT ![r] = TRUE] /\ Finally(r)
      BY <1>17, <2>3 DEF Delivered
    <3> HIDE DEF r, kind
    <3>2. settled' \in [Run -> BOOLEAN]
      BY <1>16, <2>1, <2>3, <3>1 DEF FieldsOK, Kinds
    <3> QED
      BY <1>3, <1>16, <2>1, <3>1, <3>2 DEF FieldsOK
  <2> QED
    BY <2>2, <2>3
<1>18. CASE Undelivered
  <2>1. writes # <<>> /\ handed' = FALSE /\ UNCHANGED <<disposed, idOf, aborted, settled>>
    BY <1>18 DEF Undelivered
  <2>2. socket' \in {"open", "closing", "closed"}
    BY <1>18 DEF Undelivered, FieldsOK
  <2>3. CASE writes' = Tail(writes) /\ pump' = [pump EXCEPT ![r] = "unwinding"] /\ UNCHANGED streams
    <3> HIDE DEF r, kind
    <3> QED
      BY <1>16, <2>1, <2>2, <2>3 DEF FieldsOK, Stage
  <2>4. CASE writes' = Tail(writes) /\ Finally(r)
    <3> HIDE DEF r, kind
    <3> QED
      BY <1>3, <1>16, <2>1, <2>2, <2>4 DEF FieldsOK
  <2>5. CASE /\ writes' = Append(Tail(writes), [run |-> r, kind |-> "error"])
             /\ pump' = [pump EXCEPT ![r] = "error"] /\ UNCHANGED streams
    <3> HIDE DEF r, kind
    <3>1. [run |-> r, kind |-> "error"] \in Write
      BY <1>16, <2>1 DEF Write
    <3>2. writes' \in Seq(Write)
      BY <1>16, <2>1, <2>5, <3>1, AppendProperties
    <3> QED
      BY <1>16, <2>1, <2>2, <2>5, <3>2 DEF FieldsOK, Stage
  <2> QED
    BY <1>18, <2>3, <2>4, <2>5 DEF Undelivered
<1>19. CASE UNCHANGED vars
  BY <1>19 DEF vars, pumpVars, sendVars, FieldsOK
<1> QED
  BY <1>6, <1>7, <1>8, <1>9, <1>10, <1>11, <1>12, <1>13, <1>14, <1>15, <1>17, <1>18, <1>19 DEF Next

(* One step ends no stream without a reason.                               *)
LEMMA OverStep == FieldsOK /\ MapInv /\ OverHasReason /\ [Next]_vars => OverHasReason'
<1> SUFFICES ASSUME FieldsOK, MapInv, OverHasReason, [Next]_vars PROVE OverHasReason'
  OBVIOUS
<1>1. ASSUME socket' = "open" => socket = "open",
             \A q \in Run : aborted[q] => aborted'[q],
             \A q \in Run : settled[q] => settled'[q],
             socket' = "open" => \A q \in Run : pump'[q] = "done" =>
                \/ pump[q] = "done" \/ aborted'[q] \/ settled'[q]
      PROVE  OverHasReason'
  BY <1>1 DEF OverHasReason
<1>2. ASSUME UNCHANGED <<pump, settled>>, socket' = "open" => socket = "open", UNCHANGED aborted
      PROVE  OverHasReason'
  BY <1>2 DEF OverHasReason
<1>3. ASSUME UNCHANGED pump, \A q \in Run : settled[q] => settled'[q],
             socket' = "open" => socket = "open", NEW R, Stop(R)
      PROVE  OverHasReason'
  BY <1>3 DEF OverHasReason, Stop
<1>4. ASSUME NEW q \in Run, NEW stage, stage # "done", pump' = [pump EXCEPT ![q] = stage],
             UNCHANGED <<settled, aborted>>, socket' = "open" => socket = "open"
      PROVE  OverHasReason'
  BY <1>4 DEF OverHasReason, FieldsOK
<1>5. ASSUME NEW q \in Run, Finally(q), socket' # "open" \/ aborted[q],
             UNCHANGED <<settled, aborted>>, socket' = "open" => socket = "open"
      PROVE  OverHasReason'
  <2>1. ASSUME NEW s \in Run, pump'[s] = "done" PROVE pump[s] = "done" \/ s = q
    BY <1>5, <2>1 DEF FieldsOK, Finally
  <2> QED
    BY <1>5, <2>1 DEF OverHasReason
<1>6. ASSUME NEW q \in Run, Catch(q), UNCHANGED <<socket, settled, aborted>> PROVE OverHasReason'
  <2>1. CASE ~aborted[q] /\ socket = "open"
    BY <1>4, <1>6, <2>1 DEF Catch, Send
  <2>2. CASE ~(~aborted[q] /\ socket = "open")
    <3>1. Finally(q)
      BY <1>6, <2>2 DEF Catch
    <3>2. socket' # "open" \/ aborted[q]
      BY <1>6, <2>2
    <3> QED
      BY <1>5, <1>6, <3>1, <3>2
  <2> QED
    BY <2>1, <2>2
<1>7. ASSUME NEW i \in StreamId, NEW q \in Run, OnOpen(i, q) PROVE OverHasReason'
  BY <1>4, <1>7 DEF OnOpen, sendVars
<1>8. ASSUME NEW i \in StreamId, NEW n \in 1..MaxItem, OnItem(i, n) PROVE OverHasReason'
  BY <1>8 DEF OnItem, OverHasReason, FieldsOK, sendVars
<1>9. ASSUME NEW i \in StreamId, OnEnd(i) \/ OnCancel(i) PROVE OverHasReason'
  BY <1>2, <1>3, <1>9 DEF OnEnd, OnCancel, FieldsOK, pumpVars, sendVars
<1>10. CASE OnMalformed \/ PeerDisposed \/ HandOver
  BY <1>2, <1>10 DEF OnMalformed, PeerDisposed, HandOver, pumpVars, sendVars
<1>11. CASE OnSocketClose
  BY <1>3, <1>11 DEF OnSocketClose, sendVars
<1>12. ASSUME NEW q \in Run, SourceOpens(q) PROVE OverHasReason'
  BY <1>4, <1>12 DEF SourceOpens, sendVars
<1>13. ASSUME NEW q \in Run, SourceThrows(q) \/ SourceReturns(q) PROVE OverHasReason'
  BY <1>6, <1>13 DEF SourceThrows, SourceReturns
<1>14. ASSUME NEW q \in Run, SourceYields(q) PROVE OverHasReason'
  BY <1>4, <1>14 DEF SourceYields, Send
<1>15. ASSUME NEW q \in Run, SourceEnds(q) PROVE OverHasReason'
  BY <1>4, <1>5, <1>15 DEF SourceEnds, Send
<1>16. ASSUME NEW q \in Run, RemoteReads(q) PROVE OverHasReason'
  BY <1>2, <1>16 DEF RemoteReads, pumpVars, sendVars
<1> DEFINE r == Head(writes).run
           kind == Head(writes).kind
<1>17. ASSUME writes # <<>>
       PROVE  r \in Run /\ kind \in Kinds
  BY <1>17, QueueTail DEF MapInv
<1>18. CASE Delivered
  <2>1. writes # <<>> /\ UNCHANGED <<socket, aborted>>
    BY <1>18 DEF Delivered, FieldsOK
  <2>2. CASE kind = "item"
    BY <1>4, <1>17, <1>18, <2>1, <2>2 DEF Delivered
  <2>3. CASE kind # "item"
    <3>1. settled' = [settled EXCEPT ![r] = TRUE] /\ pump' = [pump EXCEPT ![r] = "done"]
      BY <1>18, <2>3 DEF Delivered, Finally
    <3> HIDE DEF r, kind
    <3> QED
      BY <1>1, <1>17, <2>1, <2>3, <3>1 DEF FieldsOK, Kinds
  <2> QED
    BY <2>2, <2>3
<1>19. CASE Undelivered
  <2>1. writes # <<>> /\ r \in Run /\ UNCHANGED <<aborted, settled>> /\ (socket' = "open" => socket = "open")
    BY <1>17, <1>19 DEF Undelivered
  <2>2. CASE Finally(r) /\ (socket' # "open" \/ aborted[r])
    <3> HIDE DEF r, kind
    <3> QED
      BY <1>5, <2>1, <2>2
  <2>3. CASE \E stage \in {"error", "unwinding"} : pump' = [pump EXCEPT ![r] = stage]
    <3> HIDE DEF r, kind
    <3> QED
      BY <1>4, <2>1, <2>3
  <2> QED
    BY <1>19, <2>2, <2>3 DEF Undelivered
<1>20. CASE UNCHANGED vars
  BY <1>2, <1>20 DEF vars, pumpVars, sendVars
<1> QED
  BY <1>7, <1>8, <1>9, <1>10, <1>11, <1>12, <1>13, <1>14, <1>15, <1>16, <1>18, <1>19, <1>20 DEF Next

(* What an overflow charged stays charged: the inbox has failed, so that   *)
(* there is nothing to read from it and nothing more is pushed.            *)
LEMMA OverrunStays ==
  ASSUME InboxOK, [Next]_vars, NEW r \in Run, Overran(r)
  PROVE  Overran(r)'
<1>1. failed[r] /\ items[r] = <<>> /\ bytes[r] \in Nat /\ MaxBytes \in Nat
  BY InboxAssumption DEF InboxOK, InboxTypeOK, InboxInv, BytesAreItems, Overran
<1>2. ASSUME NEW q \in Run, Look(q) PROVE bytes'[r] = bytes[r]
  BY <1>1, <1>2 DEF InboxOK, InboxTypeOK, Look
<1>3. bytes'[r] = bytes[r]
  <2>1. ASSUME NEW i \in StreamId, NEW n \in 1..MaxItem, OnItem(i, n)
        PROVE  bytes'[r] = bytes[r]
    BY <1>1, <2>1 DEF InboxOK, InboxTypeOK, OnItem, Push, PushOver, Accepts
  <2>2. ASSUME NEW q \in Run, RemoteReads(q) PROVE bytes'[r] = bytes[r]
    BY <1>2, <2>2 DEF RemoteReads, Pull
  <2>3. CASE UNCHANGED bytes
    BY <2>3
  <2>4. CASE UNCHANGED vars
    BY <2>4 DEF vars, inboxVars
  <2>5. ASSUME NEW i \in StreamId, NEW q \in Run, OnOpen(i, q) \/ OnEnd(i) \/ OnCancel(i)
        PROVE  UNCHANGED bytes
    BY <2>5 DEF OnOpen, OnEnd, OnCancel, End, Stop, Fail, inboxVars
  <2>6. ASSUME OnMalformed \/ PeerDisposed \/ OnSocketClose \/ HandOver
        PROVE  UNCHANGED bytes
    BY <2>6 DEF OnMalformed, PeerDisposed, OnSocketClose, HandOver, Stop, Fail, inboxVars
  <2>7. ASSUME NEW q \in Run,
               \/ SourceOpens(q) \/ SourceThrows(q) \/ SourceYields(q) \/ SourceEnds(q)
               \/ SourceReturns(q)
        PROVE  UNCHANGED bytes
    BY <2>7 DEF SourceOpens, SourceThrows, SourceYields, SourceEnds, SourceReturns, Catch, Finally,
                Fail, inboxVars
  <2>8. ASSUME Delivered \/ Undelivered PROVE UNCHANGED bytes
    BY <2>8 DEF Delivered, Undelivered, Finally, Fail, inboxVars
  <2> QED
    BY <2>1, <2>2, <2>3, <2>4, <2>5, <2>6, <2>7, <2>8 DEF Next
<1> QED
  BY <1>3 DEF Overran

(* One step aborts no run but one the phone cancels, one whose inbox       *)
(* overflows, or all, once the socket is closed.                           *)
LEMMA AbortStep == FieldsOK /\ InboxOK /\ AbortHasReason /\ [Next]_vars => AbortHasReason'
<1> SUFFICES ASSUME FieldsOK, InboxOK, AbortHasReason, [Next]_vars, Heard', NEW r \in Run, aborted'[r]
             PROVE  settled'[r] \/ Overran(r)'
  BY DEF AbortHasReason
<1>1. ASSUME Heard, aborted[r], settled[r] => settled'[r]
      PROVE  settled'[r] \/ Overran(r)'
  BY <1>1, OverrunStays DEF AbortHasReason
<1>2. ASSUME UNCHANGED <<aborted, settled>>, socket = "closed" => socket' = "closed"
      PROVE  settled'[r] \/ Overran(r)'
  BY <1>1, <1>2 DEF Heard
<1>3. ASSUME NEW i \in StreamId, OnCancel(i) PROVE settled'[r] \/ Overran(r)'
  <2>1. Heard /\ streams[i] \in Run
    BY <1>3 DEF OnCancel, FieldsOK
  <2>2. settled' = [settled EXCEPT ![streams[i]] = TRUE]
        /\ aborted' = [q \in Run |-> q \in {streams[i]} \/ aborted[q]]
    BY <1>3 DEF OnCancel, Stop
  <2> QED
    BY <1>1, <2>1, <2>2 DEF FieldsOK
<1>4. ASSUME NEW i \in StreamId, NEW n \in 1..MaxItem, OnItem(i, n)
      PROVE  settled'[r] \/ Overran(r)'
  <2>1. Heard /\ streams[i] \in Run /\ UNCHANGED settled
    BY <1>4 DEF OnItem, FieldsOK, sendVars
  <2>2. CASE UNCHANGED aborted
    BY <1>1, <2>1, <2>2
  <2>3. CASE PushOver(streams[i], n) /\ aborted' = [aborted EXCEPT ![streams[i]] = TRUE]
    <3>1. PICK q \in Run : q = streams[i]
      BY <2>1
    <3>2. bytes' = [bytes EXCEPT ![q] = @ + n] /\ bytes[q] + n > MaxBytes
      BY <2>3, <3>1 DEF PushOver, Overflows
    <3>3. Overran(q)'
      BY <3>2 DEF Overran, InboxOK, InboxTypeOK
    <3>4. CASE r = q
      BY <3>3, <3>4
    <3>5. CASE r # q
      BY <1>1, <2>1, <2>3, <3>1, <3>5 DEF FieldsOK
    <3> QED
      BY <3>4, <3>5
  <2> QED
    BY <1>4, <2>2, <2>3 DEF OnItem
<1>5. ~OnSocketClose
  BY DEF OnSocketClose, Heard
<1>6. ASSUME NEW i \in StreamId, NEW q \in Run, OnOpen(i, q) \/ OnEnd(i)
      PROVE  settled'[r] \/ Overran(r)'
  BY <1>2, <1>6 DEF OnOpen, OnEnd, pumpVars, sendVars
<1>7. CASE OnMalformed \/ PeerDisposed \/ HandOver
  BY <1>2, <1>7 DEF OnMalformed, PeerDisposed, HandOver, pumpVars, sendVars
<1>8. ASSUME NEW q \in Run,
             \/ SourceOpens(q) \/ SourceThrows(q) \/ SourceYields(q) \/ SourceEnds(q)
             \/ SourceReturns(q) \/ RemoteReads(q)
      PROVE  settled'[r] \/ Overran(r)'
  BY <1>2, <1>8 DEF SourceOpens, SourceThrows, SourceYields, SourceEnds, SourceReturns, RemoteReads,
                    pumpVars, sendVars
<1>9. CASE Delivered
  <2>1. /\ UNCHANGED <<socket, aborted>>
        /\ UNCHANGED settled \/ settled' = [settled EXCEPT ![Head(writes).run] = TRUE]
    BY <1>9 DEF Delivered
  <2> QED
    BY <1>1, <2>1 DEF Heard, FieldsOK
<1>10. CASE Undelivered
  BY <1>2, <1>10 DEF Undelivered
<1>11. CASE UNCHANGED vars
  BY <1>2, <1>11 DEF vars, pumpVars, sendVars
<1> QED
  BY <1>3, <1>4, <1>5, <1>6, <1>7, <1>8, <1>9, <1>10, <1>11 DEF Next

-----------------------------------------------------------------------------
(* A socket without streams has everything in order.                       *)
LEMMA InitInv == Init => Inv
<1> SUFFICES ASSUME Init PROVE Inv
  OBVIOUS
<1>1. /\ \A r \in Run : /\ items[r] = <<>> /\ bytes[r] = 0 /\ ~failed[r] /\ ~ended[r]
                        /\ reader[r] = "idle" /\ pump[r] = "unused"
      /\ \A i \in StreamId : streams[i] = None
      /\ writes = <<>> /\ socket = "open"
  BY DEF Init, InboxInit
<1>2. InboxTypeOK
  <2>1. <<>> \in Seq(1..MaxItem)
    OBVIOUS
  <2> QED
    BY <2>1 DEF InboxTypeOK, Init, InboxInit
<1>3. InboxOK
  BY <1>1, <1>2, TotalOfNone, InboxAssumption DEF InboxOK, InboxInv, BytesAreItems, NoLostWakeup
<1>4. <<>> \in Seq(Write) /\ Len(<<>>) = 0
  OBVIOUS
<1>5. FieldsOK
  BY <1>4 DEF Init, FieldsOK, Stage
<1>6. MapInv
  BY <1>1, <1>4 DEF MapInv, Awaited, Live, Heard, NoOrphans, LiveIsReachable, CloseStopsAll
<1>7. SilenceInv
  BY <1>1 DEF Init, SilenceInv, OverHasReason, AbortHasReason
<1> QED
  BY <1>3, <1>5, <1>6, <1>7 DEF Inv

(* Every state of every behaviour satisfies all layers.                    *)
THEOREM Invariance == Spec => []Inv
<1>1. Inv /\ [Next]_vars => Inv'
  BY InboxStep, FieldsStep, MapStep, OverStep, AbortStep DEF Inv, SilenceInv
<1> QED
  BY <1>1, InitInv, PTL DEF Spec

(* Every field keeps its type; what an inbox is charged is what it holds,  *)
(* within the ceiling; and no Remote waits on an inbox that has something  *)
(* to tell it.                                                             *)
THEOREM Books == Spec => []BooksBalance
<1>1. Inv => BooksBalance
  BY DEF Inv, InboxOK, InboxInv, FieldsOK, BooksBalance, TypeOK, Write
<1> QED
  BY <1>1, Invariance, PTL

(* However often stream ids are used again, a pump that runs is the one    *)
(* its id leads to, or was told to stop when the socket closed.            *)
THEOREM Reachable == Spec => []NoOrphans
<1>1. Inv => NoOrphans
  BY DEF Inv, MapInv
<1> QED
  BY <1>1, Invariance, PTL

(* While the socket is open, no stream is over without the phone having    *)
(* cancelled it or having been told, except one whose inbox overflowed.    *)
THEOREM PhoneIsTold == Spec => []ToldUnlessOverrun
<1>1. Inv => ToldUnlessOverrun
  BY DEF Inv, SilenceInv, OverHasReason, AbortHasReason, ToldUnlessOverrun, Heard
<1> QED
  BY <1>1, Invariance, PTL
=============================================================================
