--------------------------- MODULE RpcPipeProofs ---------------------------
(***************************************************************************)
(* Proofs about RpcPipe: a call of a session that is held is repeated only *)
(* once its reply was trimmed, and the client's calls are never stranded   *)
(* (RetriesAreSafe); the store stays within its ceilings (Bounded).        *)
(*                                                                         *)
(* The invariant has a layer for each: PipeInv, the types with what a pipe *)
(* may rely on; RoomInv, the ceilings; CallInv, where the traces of an     *)
(* executed call are; NothingStranded itself.                              *)
(*                                                                         *)
(* The second half proves that the pipe keeps the CallLedger               *)
(* (KeepsTheLedger), with three more layers: ExecInv, what the bridge      *)
(* knows of a call; Known, that only sessions that were minted are named;  *)
(* HandInv, what the client may take the frames on their way to mean.      *)
(***************************************************************************)
EXTENDS RpcPipe, TLAPS, FiniteSetTheorems, SequenceTheorems, WellFoundedInduction

(* A pipe that brings frames, and the client's pipe, have a session.       *)
PipeInv ==
  /\ TypeOK
  /\ store \subseteq 1..minted
  /\ \A p \in Pipe : up[p] # <<>> \/ p = cur => session[p] \in 1..minted
  /\ (mode = "offline" <=> cur = None)

(* Before the client has a session it has asked for nothing, so that no    *)
(* answer can make it ready but the `ready` that gives it one.             *)
ClientInv ==
  mine = None =>
    /\ asked = 0 /\ mode # "ready"
    /\ \A p \in Pipe : up[p] = <<>> /\ \A k \in 1..Len(down[p]) : down[p][k].t # "resumed"

RoomInv ==
  /\ Cardinality(store) <= MaxSessions
  /\ \A s \in Sess : Len(replies[s]) <= MaxHistory

(* A call that was executed in a session that is held left its reply in    *)
(* the history, is still running, or its reply was trimmed; no session     *)
(* that is yet to be minted has executed anything.                         *)
Traced(s, i) ==
  \/ i \in Replied(s)
  \/ \E w \in running : w.sess = s /\ w.id = i
  \/ <<s, i>> \in trimmed

CallInv ==
  /\ \A s \in Sess, i \in Id : s > minted => runs[s][i] = 0
  /\ \A s \in store, i \in Id : runs[s][i] > 0 => Traced(s, i)
  /\ RepeatedOnlyIfTrimmed

Inv == PipeInv /\ ClientInv /\ RoomInv /\ CallInv /\ NothingStranded

-----------------------------------------------------------------------------
(* A set of naturals with a member has a least one.                        *)
LEMMA Minimum ==
  ASSUME NEW T \in SUBSET Nat, T # {}
  PROVE  \E x \in T : \A y \in T : x <= y
<1>1. PICK x \in T : \A y \in T : <<y, x>> \notin OpToRel(<, Nat)
  BY NatLessThanWellFounded, WFMin
<1>2. \A y \in T : ~(y < x)
  BY <1>1 DEF OpToRel
<1> QED
  BY <1>2

(* The sets of numbers the model counts are finite.                        *)
LEMMA Counted ==
  ASSUME NEW m \in Nat, NEW ns \in SUBSET (1..m)
  PROVE  IsFiniteSet(ns) /\ Cardinality(ns) \in Nat
<1>1. IsFiniteSet(1..m)
  BY FS_Interval
<1> QED
  BY <1>1, FS_Subset, FS_CardinalityType

Increasing(ns, q) ==
  /\ q \in [1..Cardinality(ns) -> ns]
  /\ \A j, k \in 1..Cardinality(ns) : j < k => q[j] < q[k]

(* Such a set can be put in order: the least n with a set up to n that     *)
(* cannot would be the end of one that can.                                *)
LEMMA OrderExists ==
  ASSUME NEW m \in Nat
  PROVE  \A ns \in SUBSET (1..m) : \E q : Increasing(ns, q)
<1> DEFINE T == {n \in 0..m : \E ns \in SUBSET (1..n) : ~\E q : Increasing(ns, q)}
<1>1. m \in 0..m /\ T \in SUBSET Nat
  OBVIOUS
<1>2. SUFFICES ASSUME T # {} PROVE FALSE
  BY <1>1
<1>3. PICK n \in T : \A k \in T : n <= k
  <2> HIDE DEF T
  <2> QED
    BY <1>1, <1>2, Minimum
<1>4. PICK ns \in SUBSET (1..n) : ~\E q : Increasing(ns, q)
  BY <1>3
<1>5. n \in 0..m /\ n \in Nat /\ IsFiniteSet(ns) /\ Cardinality(ns) \in Nat
  BY <1>3, <1>4, Counted
<1>6. CASE n = 0
  <2>1. ns = {} /\ Cardinality(ns) = 0
    <3>1. ns = {}
      BY <1>4, <1>6
    <3> QED
      BY <3>1, FS_EmptySet
  <2>2. Increasing(ns, [k \in 1..0 |-> k])
    BY <2>1 DEF Increasing
  <2> QED
    BY <1>4, <2>2
<1>7. CASE n # 0 /\ n \notin ns
  <2>1. n - 1 \in 0..m /\ n - 1 \notin T
    BY <1>3, <1>5, <1>7
  <2>2. ns \in SUBSET (1..n - 1)
    BY <1>4, <1>5, <1>7
  <2> QED
    BY <1>4, <2>1, <2>2
<1>8. CASE n # 0 /\ n \in ns
  <2> DEFINE less == ns \ {n}
             c == Cardinality(less)
  <2>1. n - 1 \in 0..m /\ n - 1 \notin T
    BY <1>3, <1>5, <1>8
  <2>2. less \in SUBSET (1..n - 1)
    BY <1>4, <1>5, <1>8
  <2>3. PICK q : Increasing(less, q)
    BY <2>1, <2>2
  <2>4. IsFiniteSet(less) /\ c \in Nat /\ Cardinality(ns) = c + 1
    <3>1. IsFiniteSet(ns \ {n}) /\ Cardinality(ns \ {n}) = Cardinality(ns) - 1
      BY <1>5, <1>8, FS_RemoveElement
    <3>2. Cardinality(ns \ {n}) \in Nat
      BY <3>1, FS_CardinalityType
    <3> QED
      BY <1>5, <3>1, <3>2
  <2> HIDE DEF c
  <2>5. q \in [1..c -> less] /\ \A j, k \in 1..c : j < k => q[j] < q[k]
    BY <2>3 DEF Increasing, c
  <2> DEFINE r == [k \in 1..c + 1 |-> IF k = c + 1 THEN n ELSE q[k]]
  <2>6. \A k \in 1..c : q[k] \in 1..n - 1 /\ q[k] \in ns
    BY <2>2, <2>5
  <2>7. r \in [1..c + 1 -> ns]
    BY <1>8, <2>4, <2>6
  <2>8. ASSUME NEW j \in 1..c + 1, NEW k \in 1..c + 1, j < k PROVE r[j] < r[k]
    BY <1>5, <2>4, <2>5, <2>6, <2>8
  <2>9. Increasing(ns, r)
    BY <2>4, <2>7, <2>8 DEF Increasing
  <2> QED
    BY <1>4, <2>9
<1> QED
  BY <1>6, <1>7, <1>8

(* InOrder lists the members of a set of numbers, all of them.             *)
LEMMA InOrderIs ==
  ASSUME NEW m \in Nat, NEW ns \in SUBSET (1..m)
  PROVE  /\ InOrder(ns) \in [1..Cardinality(ns) -> ns]
         /\ \A n \in ns : \E k \in 1..Cardinality(ns) : InOrder(ns)[k] = n
<1>1. PICK q : Increasing(ns, q)
  BY OrderExists
<1>2. Increasing(ns, InOrder(ns))
  BY <1>1 DEF Increasing, InOrder
<1> DEFINE c == Cardinality(ns)
           r == InOrder(ns)
<1>3. IsFiniteSet(ns) /\ c \in Nat
  BY Counted
<1>4. r \in [1..c -> ns] /\ \A j, k \in 1..c : j < k => r[j] < r[k]
  BY <1>2 DEF Increasing
<1> HIDE DEF r, c
<1>5. \A k \in 1..c : r[k] \in Nat
  <2>1. \A n \in ns : n \in Nat
    OBVIOUS
  <2> QED
    BY <1>4, <2>1
<1>6. r \in Injection(1..c, ns)
  <2>1. ASSUME NEW j \in 1..c, NEW k \in 1..c, r[j] = r[k] PROVE j = k
    BY <1>3, <1>4, <1>5, <2>1
  <2> QED
    BY <1>4, <2>1 DEF Injection, IsInjective
<1>7. Cardinality(1..c) = c
  BY <1>3, FS_Interval
<1>8. r \in Surjection(1..c, ns)
  BY <1>3, <1>6, <1>7, FS_Injection DEF c
<1> QED
  BY <1>4, <1>8 DEF Surjection, r, c

-----------------------------------------------------------------------------
CallOf(i) == [t |-> "call", id |-> i]

(* Frame f is in queue q.                                                  *)
On(q, f) == \E k \in 1..Len(q) : q[k] = f

(* A function on 1..n is a sequence of n members.                          *)
LEMMA ListOf ==
  ASSUME NEW S, NEW n \in Nat, NEW f \in [1..n -> S]
  PROVE  f \in Seq(S) /\ Len(f) = n
OBVIOUS

(* Every call that is resent has its frame.                                *)
LEMMA CallFramesAre ==
  ASSUME NEW ids \in SUBSET Id
  PROVE  CallFrames(ids) \in Seq(Request) /\ \A i \in ids : On(CallFrames(ids), CallOf(i))
<1> DEFINE c == Cardinality(ids)
           q == InOrder(ids)
           f == CallFrames(ids)
<1>1. MaxCalls \in Nat /\ ids \in SUBSET (1..MaxCalls) /\ c \in Nat
  BY BoundAssumption, Counted DEF Id
<1>2. q \in [1..c -> ids] /\ \A i \in ids : \E k \in 1..c : q[k] = i
  BY <1>1, InOrderIs
<1>3. f = [k \in 1..c |-> CallOf(q[k])]
  BY DEF CallFrames, CallOf
<1> HIDE DEF c, q, f
<1>4. \A k \in 1..c : CallOf(q[k]) \in Request
  BY <1>2 DEF CallOf, Request
<1>5. f \in [1..c -> Request]
  BY <1>3, <1>4
<1>6. f \in Seq(Request) /\ Len(f) = c
  BY <1>1, <1>5, ListOf
<1>7. \A i \in ids : On(f, CallOf(i))
  BY <1>2, <1>3, <1>6 DEF On
<1> QED
  BY <1>6, <1>7 DEF f

(* What is replayed is a sequence of replies.                              *)
LEMMA SinceIs ==
  ASSUME TypeOK, NEW s \in Sess, NEW after
  PROVE  Since(s, after) \in Seq(Frame)
<1> DEFINE missed == {k \in 1..Len(replies[s]) : replies[s][k] > after}
           c == Cardinality(missed)
           q == InOrder(missed)
           f == Since(s, after)
<1>1. replies[s] \in Seq(Id) /\ Len(replies[s]) \in Nat
  BY DEF TypeOK
<1>2. missed \in SUBSET (1..Len(replies[s]))
  OBVIOUS
<1>3. f = [k \in 1..c |-> Reply(replies[s][q[k]])]
  BY DEF Since
<1> HIDE DEF missed
<1>4. c \in Nat /\ q \in [1..c -> missed]
  BY <1>1, <1>2, Counted, InOrderIs
<1> HIDE DEF c, q, f
<1>5. \A k \in 1..Len(replies[s]) : replies[s][k] \in Id
  BY <1>1, ElementOfSeq
<1>6. \A k \in 1..c : Reply(replies[s][q[k]]) \in Frame
  BY <1>2, <1>4, <1>5 DEF Reply, Frame
<1>7. f \in [1..c -> Frame]
  BY <1>3, <1>6
<1> QED
  BY <1>4, <1>7, ListOf DEF f

(* A frame stays in a queue that grows, and reaches the head of one that   *)
(* is worked off.                                                          *)
LEMMA OnMore ==
  ASSUME NEW S, NEW q \in Seq(S), NEW r \in Seq(S), NEW f
  PROVE  On(q \o r, f) <=> On(q, f) \/ On(r, f)
<1>1. /\ Len(q) \in Nat /\ Len(r) \in Nat /\ Len(q \o r) = Len(q) + Len(r)
      /\ \A k \in 1..Len(q) + Len(r) : (q \o r)[k] = IF k <= Len(q) THEN q[k] ELSE r[k - Len(q)]
  BY ConcatProperties
<1>2. ASSUME On(q, f) PROVE On(q \o r, f)
  BY <1>1, <1>2 DEF On
<1>3. ASSUME On(r, f) PROVE On(q \o r, f)
  <2>1. PICK k \in 1..Len(r) : r[k] = f
    BY <1>3 DEF On
  <2>2. Len(q) + k \in 1..Len(q) + Len(r) /\ (q \o r)[Len(q) + k] = f
    BY <1>1, <2>1
  <2> QED
    BY <1>1, <2>2 DEF On
<1>4. ASSUME On(q \o r, f) PROVE On(q, f) \/ On(r, f)
  <2>1. PICK k \in 1..Len(q) + Len(r) : (q \o r)[k] = f
    BY <1>1, <1>4 DEF On
  <2>2. CASE k <= Len(q)
    BY <1>1, <2>1, <2>2 DEF On
  <2>3. CASE k > Len(q)
    <3>1. k - Len(q) \in 1..Len(r) /\ r[k - Len(q)] = f
      BY <1>1, <2>1, <2>3
    <3> QED
      BY <3>1 DEF On
  <2> QED
    BY <1>1, <2>1, <2>2, <2>3
<1> QED
  BY <1>2, <1>3, <1>4

(* A queue v that q has grown to holds what q held, and the rest.          *)
LEMMA Grown ==
  ASSUME NEW S, NEW q \in Seq(S), NEW r \in Seq(S), NEW v, v = q \o r
  PROVE  \A f : On(q, f) \/ On(r, f) => On(v, f)
BY OnMore

(* The frame at the head is the only one a queue loses.                    *)
LEMMA OnLess ==
  ASSUME NEW S, NEW q \in Seq(S), q # <<>>, NEW f, On(q, f)
  PROVE  f = Head(q) \/ On(Tail(q), f)
<1>1. /\ Len(q) \in Nat \ {0} /\ Len(Tail(q)) = Len(q) - 1 /\ Head(q) = q[1]
      /\ \A k \in 1..Len(q) - 1 : Tail(q)[k] = q[k + 1]
  BY HeadTailProperties, EmptySeq
<1>2. PICK k \in 1..Len(q) : q[k] = f
  BY DEF On
<1>3. CASE k = 1
  BY <1>1, <1>2, <1>3
<1>4. CASE k # 1
  <2>1. k - 1 \in 1..Len(q) - 1
    BY <1>1, <1>4
  <2>2. Tail(q)[k - 1] = q[(k - 1) + 1] /\ (k - 1) + 1 = k
    BY <1>1, <2>1
  <2> QED
    BY <1>1, <1>2, <2>1, <2>2 DEF On
<1> QED
  BY <1>3, <1>4

(* A queue of one frame holds it.                                          *)
LEMMA OnOne ==
  ASSUME NEW f
  PROVE  On(<<f>>, f)
<1>1. Len(<<f>>) = 1 /\ <<f>>[1] = f
  OBVIOUS
<1> QED
  BY <1>1 DEF On

-----------------------------------------------------------------------------
Execution == [sess : Sess, id : Id, run : 1..MaxRuns, to : SUBSET Pipe]

(* What is left of the store when the expired are forgotten.               *)
LEMMA FreshIs ==
  ASSUME PipeInv, RoomInv
  PROVE  /\ Fresh \subseteq store /\ IsFiniteSet(Fresh) /\ Cardinality(Fresh) \in Nat
         /\ Cardinality(Fresh) <= MaxSessions
<1>1. Fresh \subseteq store /\ store \in SUBSET (1..MaxMinted) /\ MaxMinted \in Nat
  BY BoundAssumption DEF Fresh, PipeInv, TypeOK, Sess
<1>2. IsFiniteSet(store) /\ Cardinality(store) \in Nat
  BY <1>1, Counted
<1>3. IsFiniteSet(Fresh) /\ Cardinality(Fresh) \in Nat /\ Cardinality(Fresh) <= Cardinality(store)
  BY <1>1, <1>2, FS_Subset, FS_CardinalityType
<1> QED
  BY <1>1, <1>2, <1>3, BoundAssumption DEF RoomInv

(* A minted session is new, and there is room for it.                      *)
LEMMA MintIs ==
  ASSUME PipeInv, RoomInv, Mint
  PROVE  /\ minted' = minted + 1 /\ minted' \in Sess /\ minted' \in 1..minted' /\ minted' \notin store
         /\ store' \subseteq store \cup {minted'} /\ store' \subseteq Sess
         /\ Cardinality(store') <= MaxSessions
         /\ lastSeen' \in [Sess -> 0..MaxClock] /\ replies' = replies
<1> DEFINE old == {s \in Fresh : \E older \in Fresh : older < s}
           kept == IF Cardinality(Fresh) < MaxSessions THEN Fresh ELSE old
<1>1. /\ minted < MaxMinted /\ minted' = minted + 1 /\ store' = kept \cup {minted'}
      /\ lastSeen' = [lastSeen EXCEPT ![minted'] = clock] /\ replies' = replies
  BY DEF Mint
<1>2. /\ minted \in 0..MaxMinted /\ store \subseteq 1..minted /\ clock \in 0..MaxClock
      /\ lastSeen \in [Sess -> 0..MaxClock] /\ MaxSessions \in Nat \ {0} /\ MaxMinted \in Nat
  BY BoundAssumption DEF PipeInv, TypeOK
<1>3. minted' \in Sess /\ minted' \in 1..minted' /\ minted' \notin store
  BY <1>1, <1>2 DEF Sess
<1>4. /\ Fresh \subseteq store /\ IsFiniteSet(Fresh) /\ Cardinality(Fresh) \in Nat
      /\ Cardinality(Fresh) <= MaxSessions
  BY FreshIs
<1>5. kept \subseteq Fresh /\ IsFiniteSet(kept) /\ Cardinality(kept) \in Nat /\ Cardinality(kept) < MaxSessions
  <2>1. CASE Cardinality(Fresh) < MaxSessions
    BY <1>4, <2>1
  <2>2. CASE ~(Cardinality(Fresh) < MaxSessions)
    <3>1. Cardinality(Fresh) = MaxSessions /\ kept = old
      BY <1>2, <1>4, <2>2
    <3>2. Fresh # {}
      <4>1. Fresh = {} => Cardinality(Fresh) = 0
        BY <1>4, FS_EmptySet
      <4> QED
        BY <1>2, <3>1, <4>1
    <3>3. Fresh \in SUBSET Nat
      BY <1>2, <1>4
    <3>4. PICK x \in Fresh : \A y \in Fresh : x <= y
      BY <3>2, <3>3, Minimum
    <3>5. old = Fresh \ {x}
      <4>1. ASSUME NEW y \in Fresh PROVE (\E older \in Fresh : older < y) <=> y # x
        BY <3>3, <3>4
      <4> QED
        BY <4>1
    <3>6. IsFiniteSet(Fresh \ {x}) /\ Cardinality(Fresh \ {x}) = Cardinality(Fresh) - 1
      BY <1>4, <3>4, FS_RemoveElement
    <3> QED
      BY <1>2, <3>1, <3>5, <3>6
  <2> QED
    BY <2>1, <2>2
<1> HIDE DEF kept, old
<1>6. minted' \notin kept
  BY <1>3, <1>4, <1>5
<1>7. Cardinality(store') = Cardinality(kept) + 1
  BY <1>1, <1>5, <1>6, FS_AddElement
<1>8. Cardinality(store') <= MaxSessions
  BY <1>2, <1>5, <1>7
<1>9. store' \subseteq Sess
  BY <1>1, <1>3, <1>4, <1>5 DEF PipeInv, TypeOK
<1>10. lastSeen' \in [Sess -> 0..MaxClock]
  BY <1>1, <1>2
<1> QED
  BY <1>1, <1>3, <1>4, <1>5, <1>8, <1>9, <1>10

(* The next frame of a pipe is a request.                                  *)
LEMMA UpHead ==
  ASSUME TypeOK, NEW p \in Pipe, up[p] # <<>>
  PROVE  /\ Tail(up[p]) \in Seq(Request)
         /\ Head(up[p]).t = "call" => Head(up[p]).id \in Id
         /\ Head(up[p]).t = "resume" => Head(up[p]).sess \in Sess /\ Head(up[p]).after \in 0..MaxCalls
<1>1. up[p] \in Seq(Request)
  BY DEF TypeOK
<1>2. Head(up[p]) \in Request /\ Tail(up[p]) \in Seq(Request)
  BY <1>1, HeadTailProperties
<1> QED
  BY <1>2 DEF Request

(* The next frame for the client is one of the bridge's.                   *)
LEMMA DownHead ==
  ASSUME TypeOK, NEW p \in Pipe, down[p] # <<>>
  PROVE  /\ Tail(down[p]) \in Seq(Frame)
         /\ Head(down[p]).t = "reply" => Head(down[p]).id \in Id /\ Head(down[p]) = Reply(Head(down[p]).id)
         /\ Head(down[p]).t # "reply" => Head(down[p]).sess \in Sess
<1>1. down[p] \in Seq(Frame)
  BY DEF TypeOK
<1>2. Head(down[p]) \in Frame /\ Tail(down[p]) \in Seq(Frame)
  BY <1>1, HeadTailProperties
<1> QED
  BY <1>2 DEF Frame, Reply

(* What the bridge sends, and what the client asks, joins the queue.       *)
LEMMA SendIs ==
  ASSUME TypeOK, NEW p \in Pipe, NEW frames \in Seq(Frame), Send(p, frames)
  PROVE  down' \in [Pipe -> Seq(Frame)] /\ down'[p] = down[p] \o frames /\ \A q \in Pipe \ {p} : down'[q] = down[q]
<1>1. down[p] \o frames \in Seq(Frame)
  BY ConcatProperties DEF TypeOK
<1> QED
  BY <1>1 DEF Send, TypeOK

(* Frames asked for join the phone's queue of their own pipe, and no       *)
(* other.                                                                  *)
LEMMA AskIs ==
  ASSUME TypeOK, cur \in Pipe, NEW frames \in Seq(Request), Ask(frames)
  PROVE  up' \in [Pipe -> Seq(Request)] /\ up'[cur] = up[cur] \o frames /\ \A q \in Pipe \ {cur} : up'[q] = up[q]
<1>1. up[cur] \o frames \in Seq(Request)
  BY ConcatProperties DEF TypeOK
<1> QED
  BY <1>1 DEF Ask, TypeOK

(* What a call frame does: every execution in progress goes on, with the   *)
(* pipes it had; the call is answered, or one of them is its own and has   *)
(* this pipe.                                                              *)
Continues ==
  \A w \in running : \E v \in running' : v.sess = w.sess /\ v.id = w.id /\ v.run = w.run /\ w.to \subseteq v.to

(* Whichever way a call is taken, nothing that runs is lost.               *)
LEMMA OnCallIs ==
  ASSUME TypeOK, NEW p \in Pipe, NEW i \in Id, session[p] \in Sess, OnCall(p, i)
  PROVE  /\ running' \subseteq Execution /\ Continues
         /\ runs' \in [Sess -> [Id -> 0..MaxRuns]] /\ down' \in [Pipe -> Seq(Frame)]
         /\ \A q \in Pipe \ {p} : down'[q] = down[q]
         /\ down'[p] = down[p] \/ down'[p] = down[p] \o <<Reply(i)>>
         /\ \/ down'[p] = down[p] \o <<Reply(i)>>
            \/ \E w \in running' : w.id = i /\ p \in w.to
<1> DEFINE s == session[p]
<1>1. /\ running \subseteq Execution /\ runs \in [Sess -> [Id -> 0..MaxRuns]]
      /\ down \in [Pipe -> Seq(Frame)] /\ MaxRuns \in Nat
  BY BoundAssumption DEF TypeOK, Execution
<1>2. CASE s \in store /\ i \in Replied(s) /\ Send(p, <<Reply(i)>>) /\ UNCHANGED <<running, runs>>
  <2>1. <<Reply(i)>> \in Seq(Frame)
    BY DEF Reply, Frame
  <2>2. Continues
    BY <1>2 DEF Continues
  <2> QED
    BY <1>1, <1>2, <2>1, <2>2, SendIs
<1>3. CASE /\ InFlight(s, i) # {} /\ UNCHANGED <<runs, down>>
           /\ running' = {IF w \in InFlight(s, i) THEN [w EXCEPT !.to = @ \cup {p}] ELSE w : w \in running}
  <2>1. ASSUME NEW w \in running
        PROVE  [w EXCEPT !.to = @ \cup {p}] \in Execution
               /\ [w EXCEPT !.to = @ \cup {p}].sess = w.sess /\ [w EXCEPT !.to = @ \cup {p}].id = w.id
               /\ [w EXCEPT !.to = @ \cup {p}].run = w.run /\ [w EXCEPT !.to = @ \cup {p}].to = w.to \cup {p}
    BY <1>1 DEF Execution
  <2>2. running' \subseteq Execution
    BY <1>1, <1>3, <2>1
  <2>3. ASSUME NEW w \in running
        PROVE  \E v \in running' : v.sess = w.sess /\ v.id = w.id /\ v.run = w.run /\ w.to \subseteq v.to
    <3>1. CASE w \in InFlight(s, i)
      <4>1. [w EXCEPT !.to = @ \cup {p}] \in running'
        BY <1>3, <3>1
      <4> QED
        BY <2>1, <4>1
    <3>2. CASE w \notin InFlight(s, i)
      <4>1. w \in running'
        BY <1>3, <3>2
      <4> QED
        BY <4>1
    <3> QED
      BY <3>1, <3>2
  <2>4. PICK w \in InFlight(s, i) : w \in running /\ w.id = i
    BY <1>3 DEF InFlight
  <2>5. [w EXCEPT !.to = @ \cup {p}] \in running'
    BY <1>3, <2>4
  <2>6. \E v \in running' : v.id = i /\ p \in v.to
    BY <2>1, <2>4, <2>5
  <2> QED
    BY <1>1, <1>3, <2>2, <2>3, <2>6 DEF Continues
<1>4. CASE /\ runs[s][i] < MaxRuns /\ runs' = [runs EXCEPT ![s][i] = @ + 1] /\ UNCHANGED down
           /\ running' = running \cup {[sess |-> s, id |-> i, run |-> runs'[s][i], to |-> {p}]}
  <2>1. runs' \in [Sess -> [Id -> 0..MaxRuns]] /\ runs'[s][i] \in 1..MaxRuns
    BY <1>1, <1>4
  <2> DEFINE new == [sess |-> s, id |-> i, run |-> runs'[s][i], to |-> {p}]
  <2>2. new \in Execution /\ new.id = i /\ p \in new.to /\ new \in running'
    BY <1>4, <2>1 DEF Execution
  <2>3. Continues
    BY <1>4 DEF Continues
  <2> QED
    BY <1>1, <1>4, <2>1, <2>2, <2>3
<1> QED
  BY <1>2, <1>3, <1>4 DEF OnCall

(* What a resume frame does.                                               *)
LEMMA OnResumeIs ==
  ASSUME TypeOK, store \subseteq 1..minted, NEW p \in Pipe, NEW f, f.sess \in Sess, session[p] \in 1..minted,
         OnResume(p, f)
  PROVE  /\ store' \subseteq store /\ lastSeen' \in [Sess -> 0..MaxClock]
         /\ session' \in [Pipe -> Sess \cup {None}] /\ down' \in [Pipe -> Seq(Frame)]
         /\ session'[p] \in 1..minted /\ \A q \in Pipe \ {p} : session'[q] = session[q] /\ down'[q] = down[q]
         /\ \E frames \in Seq(Frame) : down'[p] = down[p] \o frames
<1>1. /\ clock \in 0..MaxClock /\ lastSeen \in [Sess -> 0..MaxClock] /\ session \in [Pipe -> Sess \cup {None}]
      /\ Fresh \subseteq store /\ 1..minted \subseteq Sess
  <2>1. minted \in 0..MaxMinted /\ MaxMinted \in Nat
    BY BoundAssumption DEF TypeOK
  <2>2. Fresh \subseteq store
    BY DEF Fresh
  <2>3. 1..minted \subseteq Sess
    BY <2>1 DEF Sess
  <2> QED
    BY <2>2, <2>3 DEF TypeOK
<1>2. CASE f.sess \in Fresh
  <2>1. <<[t |-> "resumed", sess |-> f.sess]>> \in Seq(Frame) /\ Since(f.sess, f.after) \in Seq(Frame)
    BY SinceIs DEF Frame
  <2> DEFINE frames == <<[t |-> "resumed", sess |-> f.sess]>> \o Since(f.sess, f.after)
  <2>2. frames \in Seq(Frame)
    BY <2>1, ConcatProperties
  <2>3. /\ store' = Fresh /\ lastSeen' = [lastSeen EXCEPT ![f.sess] = clock]
        /\ session' = [session EXCEPT ![p] = f.sess] /\ Send(p, frames)
    BY <1>2 DEF OnResume
  <2> HIDE DEF frames
  <2> QED
    BY <1>1, <1>2, <2>2, <2>3, SendIs
<1>3. CASE f.sess \notin Fresh
  <2> DEFINE frames == <<[t |-> "resumeFailed", sess |-> session[p]]>>
  <2>1. frames \in Seq(Frame)
    BY <1>1 DEF Frame
  <2>2. store' = Fresh /\ Send(p, frames) /\ UNCHANGED <<lastSeen, session>>
    BY <1>3 DEF OnResume
  <2> HIDE DEF frames
  <2> QED
    BY <1>1, <2>1, <2>2, SendIs
<1> QED
  BY <1>2, <1>3

(* A reply is recorded in a history, or nothing is.                        *)
LEMMA RecordIs ==
  ASSUME TypeOK, RoomInv, NEW s \in Sess, NEW i \in Id, Record(s, i)
  PROVE  /\ replies' \in [Sess -> Seq(Id)] /\ lastSeen' \in [Sess -> 0..MaxClock]
         /\ trimmed' \subseteq Sess \X Id /\ trimmed \subseteq trimmed'
         /\ \A q \in Sess : Len(replies'[q]) <= MaxHistory
         /\ \A q \in Sess, j \in Id : j \in Replied(q) => j \in Replied(q)' \/ <<q, j>> \in trimmed'
         /\ s \in store => i \in Replied(s)' \/ <<s, i>> \in trimmed'
<1> DEFINE all == Append(replies[s], i)
<1>1. /\ replies \in [Sess -> Seq(Id)] /\ lastSeen \in [Sess -> 0..MaxClock] /\ clock \in 0..MaxClock
      /\ trimmed \subseteq Sess \X Id /\ MaxHistory \in Nat \ {0}
      /\ \A q \in Sess : Len(replies[q]) <= MaxHistory
  BY BoundAssumption DEF TypeOK, RoomInv
<1>2. /\ all \in Seq(Id) /\ Len(replies[s]) \in Nat /\ Len(all) = Len(replies[s]) + 1
      /\ all[Len(replies[s]) + 1] = i /\ \A k \in 1..Len(replies[s]) : all[k] = replies[s][k]
  BY <1>1, AppendProperties
<1> HIDE DEF all
<1>3. \A j \in Replied(s) \cup {i} : On(all, j)
  BY <1>2 DEF Replied, On
<1>4. CASE s \notin store
  <2>1. UNCHANGED <<replies, lastSeen, trimmed>>
    BY <1>4 DEF Record
  <2> QED
    BY <1>1, <1>4, <2>1 DEF Replied
<1>5. CASE s \in store /\ Len(all) <= MaxHistory
  <2>1. /\ lastSeen' = [lastSeen EXCEPT ![s] = clock] /\ replies' = [replies EXCEPT ![s] = all]
        /\ trimmed' = trimmed
    BY <1>5 DEF Record, all
  <2>2. \A j \in Replied(s) \cup {i} : j \in Replied(s)'
    BY <1>1, <1>3, <2>1 DEF Replied, On
  <2>3. \A q \in Sess \ {s} : replies'[q] = replies[q]
    BY <1>1, <2>1
  <2>4. \A q \in Sess, j \in Id : j \in Replied(q) => j \in Replied(q)'
    BY <2>2, <2>3 DEF Replied
  <2>5. \A q \in Sess : Len(replies'[q]) <= MaxHistory
    BY <1>1, <1>5, <2>1
  <2> QED
    BY <1>1, <1>2, <2>1, <2>2, <2>4, <2>5
<1>6. CASE s \in store /\ ~(Len(all) <= MaxHistory)
  <2>1. /\ lastSeen' = [lastSeen EXCEPT ![s] = clock] /\ replies' = [replies EXCEPT ![s] = Tail(all)]
        /\ trimmed' = trimmed \cup {<<s, Head(all)>>}
    BY <1>6 DEF Record, all
  <2>2. all # <<>> /\ Tail(all) \in Seq(Id) /\ Len(Tail(all)) = Len(all) - 1 /\ Head(all) \in Id
    BY <1>1, <1>2, <1>6, HeadTailProperties, EmptySeq
  <2>3. ASSUME NEW j \in Replied(s) \cup {i} PROVE j \in Replied(s)' \/ <<s, j>> \in trimmed'
    <3>1. j = Head(all) \/ On(Tail(all), j)
      BY <1>2, <1>3, <2>2, OnLess
    <3>2. replies'[s] = Tail(all)
      BY <1>1, <2>1
    <3> QED
      BY <2>1, <3>1, <3>2 DEF Replied, On
  <2>4. \A q \in Sess \ {s} : replies'[q] = replies[q]
    BY <1>1, <2>1
  <2>5. \A q \in Sess, j \in Id : j \in Replied(q) => j \in Replied(q)' \/ <<q, j>> \in trimmed'
    BY <2>3, <2>4 DEF Replied
  <2>6. \A q \in Sess : Len(replies'[q]) <= MaxHistory
    BY <1>1, <1>2, <1>6, <2>1, <2>2
  <2>7. replies' \in [Sess -> Seq(Id)] /\ lastSeen' \in [Sess -> 0..MaxClock] /\ trimmed' \subseteq Sess \X Id
    BY <1>1, <2>1, <2>2
  <2> QED
    BY <2>1, <2>3, <2>5, <2>6, <2>7
<1> QED
  BY <1>4, <1>5, <1>6

(* The sessions minted so far are sessions, and remain so.                 *)
LEMMA Grows ==
  ASSUME NEW n \in Nat, n + 1 \in Sess
  PROVE  n + 1 \in 0..MaxMinted /\ 1..n \subseteq 1..(n + 1) /\ n + 1 \in 1..(n + 1)
BY BoundAssumption DEF Sess

(* One step keeps the types and what a pipe may rely on.                   *)
LEMMA PipeStep == PipeInv /\ RoomInv /\ [Next]_vars => PipeInv'
<1> SUFFICES ASSUME PipeInv, RoomInv, [Next]_vars PROVE PipeInv'
  OBVIOUS
<1>0. /\ clock \in 0..MaxClock /\ minted \in 0..MaxMinted /\ store \subseteq Sess
      /\ replies \in [Sess -> Seq(Id)] /\ lastSeen \in [Sess -> 0..MaxClock]
      /\ running \subseteq Execution
      /\ runs \in [Sess -> [Id -> 0..MaxRuns]] /\ trimmed \subseteq Sess \X Id
      /\ session \in [Pipe -> Sess \cup {None}]
      /\ up \in [Pipe -> Seq(Request)] /\ down \in [Pipe -> Seq(Frame)]
      /\ cur \in Pipe \cup {None} /\ mode \in {"offline", "hello", "resuming", "ready"}
      /\ mine \in Sess \cup {None} /\ seen \in 0..MaxCalls /\ asked \in 0..MaxCalls
      /\ answered \subseteq Id
      /\ MaxMinted \in Nat /\ MaxCalls \in Nat /\ MaxClock \in Nat
      /\ TypeOK /\ store \subseteq 1..minted /\ 1..minted \subseteq Sess
      /\ \A p \in Pipe : up[p] # <<>> \/ p = cur => session[p] \in 1..minted
      /\ (mode = "offline" <=> cur = None)
  <2>1. minted \in 0..MaxMinted /\ MaxMinted \in Nat
    BY BoundAssumption DEF PipeInv, TypeOK
  <2>2. 1..minted \subseteq Sess
    BY <2>1 DEF Sess
  <2> QED
    BY <2>2, BoundAssumption DEF PipeInv, TypeOK, Execution
<1>1. ASSUME NEW p \in Pipe, Handle(p), Head(up[p]).t = "resume" PROVE PipeInv'
  <2> DEFINE f == Head(up[p])
  <2>1. /\ up[p] # <<>> /\ up' = [up EXCEPT ![p] = Tail(@)] /\ OnResume(p, f)
        /\ UNCHANGED <<clock, minted, replies, callVars, clientVars>>
    BY <1>1 DEF Handle
  <2>2. f.sess \in Sess /\ Tail(up[p]) \in Seq(Request) /\ session[p] \in 1..minted
    BY <1>0, <1>1, <2>1, UpHead
  <2> HIDE DEF f
  <2>3. /\ store' \subseteq store /\ lastSeen' \in [Sess -> 0..MaxClock]
        /\ session' \in [Pipe -> Sess \cup {None}] /\ down' \in [Pipe -> Seq(Frame)]
        /\ session'[p] \in 1..minted /\ \A q \in Pipe \ {p} : session'[q] = session[q]
    BY <1>0, <2>1, <2>2, OnResumeIs
  <2>4. up' \in [Pipe -> Seq(Request)] /\ \A q \in Pipe \ {p} : up'[q] = up[q]
    BY <1>0, <2>1, <2>2
  <2>5. TypeOK'
    BY <1>0, <2>1, <2>3, <2>4 DEF TypeOK, Execution, callVars, clientVars
  <2> QED
    BY <1>0, <2>1, <2>3, <2>4, <2>5 DEF PipeInv, clientVars
<1>2. ASSUME NEW p \in Pipe, Handle(p), Head(up[p]).t = "call" PROVE PipeInv'
  <2> DEFINE i == Head(up[p]).id
  <2>1. /\ up[p] # <<>> /\ up' = [up EXCEPT ![p] = Tail(@)] /\ OnCall(p, i)
        /\ UNCHANGED <<clock, storeVars, trimmed, session, clientVars>>
    BY <1>2 DEF Handle
  <2>2. i \in Id /\ Tail(up[p]) \in Seq(Request) /\ session[p] \in Sess
    BY <1>0, <1>2, <2>1, UpHead
  <2> HIDE DEF i
  <2>3. /\ running' \subseteq Execution
        /\ runs' \in [Sess -> [Id -> 0..MaxRuns]] /\ down' \in [Pipe -> Seq(Frame)]
    BY <1>0, <2>1, <2>2, OnCallIs
  <2>4. up' \in [Pipe -> Seq(Request)] /\ \A q \in Pipe \ {p} : up'[q] = up[q]
    BY <1>0, <2>1, <2>2
  <2>5. TypeOK'
    BY <1>0, <2>1, <2>3, <2>4 DEF TypeOK, Execution, storeVars, clientVars
  <2> QED
    BY <1>0, <2>1, <2>3, <2>4, <2>5 DEF PipeInv, storeVars, clientVars
<1>3. ASSUME NEW p \in Pipe, PipeDies(p) PROVE PipeInv'
  <2>1. /\ p # cur /\ session' = [session EXCEPT ![p] = None] /\ up' = [up EXCEPT ![p] = <<>>]
        /\ running' = {[w EXCEPT !.to = @ \ {p}] : w \in running}
        /\ UNCHANGED <<clock, storeVars, runs, trimmed, down, clientVars>>
    BY <1>3 DEF PipeDies, Closing
  <2>2. \A w \in running : [w EXCEPT !.to = @ \ {p}] \in Execution
    BY <1>0 DEF Execution
  <2>3. running' \subseteq Execution
    BY <2>1, <2>2
  <2>4. up' \in [Pipe -> Seq(Request)] /\ session' \in [Pipe -> Sess \cup {None}]
        /\ up'[p] = <<>> /\ \A q \in Pipe \ {p} : up'[q] = up[q] /\ session'[q] = session[q]
    BY <1>0, <2>1
  <2>5. TypeOK'
    BY <1>0, <2>1, <2>3, <2>4 DEF TypeOK, Execution, storeVars, clientVars
  <2> QED
    BY <1>0, <2>1, <2>4, <2>5 DEF PipeInv, storeVars, clientVars
<1>4. ASSUME NEW p \in Pipe, Connect(p) PROVE PipeInv'
  <2>1. /\ mode = "offline" /\ Mint /\ session' = [session EXCEPT ![p] = minted']
        /\ down' = [down EXCEPT ![p] = <<[t |-> "ready", sess |-> minted']>>]
        /\ cur' = p /\ mode' = "hello"
        /\ UNCHANGED <<clock, callVars, up, mine, seen, asked, answered>>
    BY <1>4 DEF Connect
  <2>2. /\ minted' = minted + 1 /\ minted' \in Sess /\ minted' \in 1..minted'
        /\ store' \subseteq store \cup {minted'} /\ store' \subseteq Sess
        /\ lastSeen' \in [Sess -> 0..MaxClock] /\ replies' = replies
    BY <2>1, MintIs
  <2>3. <<[t |-> "ready", sess |-> minted']>> \in Seq(Frame)
    BY <2>2 DEF Frame
  <2>4. down' \in [Pipe -> Seq(Frame)]
    BY <1>0, <2>1, <2>3
  <2>5. TypeOK'
    <3>1. minted' \in 0..MaxMinted
      BY <1>0, <2>2, Grows
    <3> QED
      BY <1>0, <2>1, <2>2, <2>4, <3>1 DEF TypeOK, Execution, callVars
  <2>6. 1..minted \subseteq 1..minted' /\ store' \subseteq 1..minted'
    <3>1. 1..minted \subseteq 1..minted'
      BY <1>0, <2>2, Grows
    <3> QED
      BY <1>0, <2>2, <3>1
  <2>7. \A q \in Pipe : up'[q] # <<>> \/ q = cur' => session'[q] \in 1..minted'
    BY <1>0, <2>1, <2>2, <2>6
  <2> QED
    BY <1>0, <2>1, <2>5, <2>6, <2>7, PipeAssumption DEF PipeInv
<1>5. ASSUME NEW w \in running, Finish(w) PROVE PipeInv'
  <2>1. /\ running' = running \ {w} /\ Record(w.sess, w.id)
        /\ down' = [p \in Pipe |-> IF p \in w.to THEN Append(down[p], Reply(w.id)) ELSE down[p]]
        /\ UNCHANGED <<clock, minted, store, runs, session, up, clientVars>>
    BY <1>5 DEF Finish
  <2>2. w.sess \in Sess /\ w.id \in Id
    BY <1>0 DEF Execution
  <2>3. /\ replies' \in [Sess -> Seq(Id)] /\ lastSeen' \in [Sess -> 0..MaxClock]
        /\ trimmed' \subseteq Sess \X Id
    BY <1>0, <2>1, <2>2, RecordIs
  <2>4. \A p \in Pipe : Append(down[p], Reply(w.id)) \in Seq(Frame)
    <3>1. Reply(w.id) \in Frame
      BY <2>2 DEF Reply, Frame
    <3> QED
      BY <1>0, <3>1, AppendProperties
  <2>5. down' \in [Pipe -> Seq(Frame)]
    BY <1>0, <2>1, <2>4
  <2>6. TypeOK'
    BY <1>0, <2>1, <2>3, <2>5 DEF TypeOK, Execution, clientVars
  <2> QED
    BY <1>0, <2>1, <2>6 DEF PipeInv, clientVars
<1>6. CASE OtherOpens
  <2>1. Mint /\ UNCHANGED <<clock, callVars, session, up, down, clientVars>>
    BY <1>6 DEF OtherOpens
  <2>2. /\ minted' = minted + 1 /\ minted' \in Sess /\ minted' \in 1..minted'
        /\ store' \subseteq store \cup {minted'} /\ store' \subseteq Sess
        /\ lastSeen' \in [Sess -> 0..MaxClock] /\ replies' = replies
    BY <2>1, MintIs
  <2>3. TypeOK'
    <3>1. minted' \in 0..MaxMinted
      BY <1>0, <2>2, Grows
    <3> QED
      BY <1>0, <2>1, <2>2, <3>1 DEF TypeOK, Execution, callVars, clientVars
  <2>4. 1..minted \subseteq 1..minted' /\ store' \subseteq 1..minted'
    BY <1>0, <2>2, Grows, SMTT(30)
  <2> QED
    BY <1>0, <2>1, <2>3, <2>4 DEF PipeInv, clientVars
<1>7. CASE Tick
  <2>1. clock' \in 0..MaxClock /\ UNCHANGED <<storeVars, callVars, session, up, down, clientVars>>
    BY <1>0, <1>7 DEF Tick
  <2> QED
    BY <1>0, <2>1 DEF PipeInv, TypeOK, Execution, storeVars, callVars, clientVars
<1>8. CASE Receive
  <2> DEFINE f == Head(down[cur])
  <2>1. /\ cur # None /\ down[cur] # <<>> /\ down' = [down EXCEPT ![cur] = Tail(@)]
        /\ UNCHANGED <<clock, storeVars, callVars, session, cur>>
    BY <1>8 DEF Receive
  <2>2. cur \in Pipe /\ session[cur] \in 1..minted
    BY <1>0, <2>1
  <2>3. /\ Tail(down[cur]) \in Seq(Frame) /\ (f.t = "reply" => f.id \in Id) /\ (f.t # "reply" => f.sess \in Sess)
    BY <1>0, <2>1, <2>2, DownHead
  <2>4. down' \in [Pipe -> Seq(Frame)]
    BY <1>0, <2>1, <2>3
  <2>5. ASSUME /\ up' \in [Pipe -> Seq(Request)] /\ \A q \in Pipe \ {cur} : up'[q] = up[q]
               /\ mode' \in {"hello", "resuming", "ready"} /\ mine' \in Sess \cup {None}
               /\ seen' \in 0..MaxCalls /\ asked' \in 0..MaxCalls /\ answered' \subseteq Id
        PROVE  PipeInv'
    <3>1. TypeOK'
      BY <1>0, <2>1, <2>4, <2>5 DEF TypeOK, Execution, storeVars, callVars
    <3> QED
      BY <1>0, <2>1, <2>2, <2>5, <3>1 DEF PipeInv, storeVars
  <2>6. mode \in {"hello", "resuming", "ready"} /\ up \in [Pipe -> Seq(Request)]
    BY <1>0, <2>1
  <2>7. CASE f.t = "ready" /\ OnReady(f.sess)
    <3>1. CASE mine = None
      <4>1. mine' = f.sess /\ mode' = "ready" /\ UNCHANGED <<seen, asked, answered, up>>
        BY <2>7, <3>1 DEF OnReady
      <4>2. f.sess \in Sess
        BY <2>3, <2>7
      <4> HIDE DEF f
      <4> QED
        BY <1>0, <2>5, <2>6, <4>1, <4>2
    <3>2. CASE mine # None
      <4>1. /\ mode' = "resuming" /\ Ask(<<[t |-> "resume", sess |-> mine, after |-> seen]>>)
            /\ UNCHANGED <<mine, seen, asked, answered>>
        BY <2>7, <3>2 DEF OnReady
      <4>2. <<[t |-> "resume", sess |-> mine, after |-> seen]>> \in Seq(Request)
        BY <1>0, <3>2 DEF Request
      <4>3. up' \in [Pipe -> Seq(Request)] /\ \A q \in Pipe \ {cur} : up'[q] = up[q]
        BY <1>0, <2>2, <4>1, <4>2, AskIs
      <4> QED
        BY <1>0, <2>5, <4>1, <4>3
    <3> QED
      BY <3>1, <3>2
  <2>8. CASE f.t = "resumed" /\ OnResumed
    <3>1. Unanswered \in SUBSET Id
      BY DEF Unanswered
    <3>2. up' \in [Pipe -> Seq(Request)] /\ \A q \in Pipe \ {cur} : up'[q] = up[q]
      BY <1>0, <2>2, <2>8, <3>1, CallFramesAre, AskIs DEF OnResumed
    <3> QED
      BY <1>0, <2>5, <2>8, <3>2 DEF OnResumed
  <2>9. CASE f.t = "resumeFailed" /\ OnResumeFailed(f.sess)
    <3>1. /\ mode' = "ready" /\ mine' = f.sess /\ seen' = 0 /\ asked' = 0 /\ answered' = {} /\ up' = up
          /\ f.sess \in Sess
      BY <2>3, <2>9 DEF OnResumeFailed
    <3> HIDE DEF f
    <3> QED
      BY <1>0, <2>5, <2>6, <3>1
  <2>10. CASE f.t = "reply" /\ OnReply(f.id)
    <3>1. /\ answered' = answered \cup {f.id} /\ seen' = (IF f.id > seen THEN f.id ELSE seen)
          /\ UNCHANGED <<mine, mode, asked, up>> /\ f.id \in Id
      BY <2>3, <2>10 DEF OnReply
    <3> HIDE DEF f
    <3>2. seen' \in 0..MaxCalls
      BY <1>0, <3>1 DEF Id
    <3> QED
      BY <1>0, <2>5, <2>6, <3>1, <3>2
  <2> QED
    BY <1>8, <2>7, <2>8, <2>9, <2>10 DEF Receive
<1>9. CASE Call
  <2>1. /\ mode = "ready" /\ asked < MaxCalls /\ asked' = asked + 1 /\ Ask(<<[t |-> "call", id |-> asked + 1]>>)
        /\ UNCHANGED <<clock, storeVars, callVars, session, down, cur, mode, mine, seen, answered>>
    BY <1>9 DEF Call
  <2>2. cur \in Pipe
    BY <1>0, <2>1
  <2>3. asked' \in 0..MaxCalls /\ asked + 1 \in Id
    BY <1>0, <2>1 DEF Id
  <2>4. <<[t |-> "call", id |-> asked + 1]>> \in Seq(Request)
    BY <2>3 DEF Request
  <2>5. up' \in [Pipe -> Seq(Request)] /\ \A q \in Pipe \ {cur} : up'[q] = up[q]
    BY <1>0, <2>1, <2>2, <2>4, AskIs
  <2>6. TypeOK'
    BY <1>0, <2>1, <2>3, <2>5 DEF TypeOK, Execution, storeVars, callVars
  <2> QED
    BY <1>0, <2>1, <2>2, <2>5, <2>6 DEF PipeInv, storeVars
<1>10. CASE LoseSocket
  <2>1. /\ cur \in Pipe /\ down' = [down EXCEPT ![cur] = <<>>] /\ cur' = None /\ mode' = "offline"
        /\ UNCHANGED <<clock, storeVars, callVars, session, up, mine, seen, asked, answered>>
    BY <1>0, <1>10 DEF LoseSocket
  <2>2. <<>> \in Seq(Frame)
    OBVIOUS
  <2>3. TypeOK'
    BY <1>0, <2>1, <2>2 DEF TypeOK, Execution, storeVars, callVars
  <2> QED
    BY <1>0, <2>1, <2>3, PipeAssumption DEF PipeInv, storeVars
<1>11. CASE UNCHANGED vars
  BY <1>0, <1>11 DEF PipeInv, TypeOK, Execution, vars, storeVars, callVars, clientVars
<1>12. ASSUME NEW p \in Pipe, Handle(p) PROVE PipeInv'
  BY <1>1, <1>2, <1>12 DEF Handle
<1> QED
  BY <1>3, <1>4, <1>5, <1>6, <1>7, <1>8, <1>9, <1>10, <1>11, <1>12 DEF Next

(* One step keeps the ceilings.                                            *)
LEMMA RoomStep == PipeInv /\ RoomInv /\ [Next]_vars => RoomInv'
<1> SUFFICES ASSUME PipeInv, RoomInv, [Next]_vars PROVE RoomInv'
  OBVIOUS
<1>1. CASE UNCHANGED <<store, replies>>
  BY <1>1 DEF RoomInv
<1>2. ASSUME NEW p \in Pipe, Handle(p) PROVE RoomInv'
  <2>1. CASE OnResume(p, Head(up[p])) /\ replies' = replies
    BY <2>1, FreshIs DEF OnResume, RoomInv
  <2>2. CASE UNCHANGED storeVars
    BY <1>1, <2>2 DEF storeVars
  <2> QED
    BY <1>2, <2>1, <2>2 DEF Handle
<1>3. ASSUME Mint PROVE RoomInv'
  BY <1>3, MintIs DEF RoomInv
<1>4. ASSUME NEW w \in running, Finish(w) PROVE RoomInv'
  <2>1. TypeOK /\ w.sess \in Sess /\ w.id \in Id
    BY DEF PipeInv, TypeOK
  <2>2. Record(w.sess, w.id) /\ store' = store
    BY <1>4 DEF Finish
  <2> QED
    BY <2>1, <2>2, RecordIs DEF RoomInv
<1>5. ASSUME NEW p \in Pipe, PipeDies(p) \/ Connect(p) PROVE RoomInv'
  BY <1>1, <1>3, <1>5 DEF PipeDies, Connect, storeVars
<1>6. CASE OtherOpens \/ Tick \/ Receive \/ Call \/ LoseSocket
  BY <1>1, <1>3, <1>6 DEF OtherOpens, Tick, Receive, Call, LoseSocket, storeVars
<1>7. CASE UNCHANGED vars
  BY <1>1, <1>7 DEF vars, storeVars
<1> QED
  BY <1>2, <1>4, <1>5, <1>6, <1>7 DEF Next

(* One step keeps the client unready until it has a session.               *)
LEMMA ClientStep == PipeInv /\ ClientInv /\ [Next]_vars => ClientInv'
<1> SUFFICES ASSUME PipeInv, ClientInv, [Next]_vars PROVE ClientInv'
  OBVIOUS
<1>0. /\ TypeOK /\ up \in [Pipe -> Seq(Request)] /\ down \in [Pipe -> Seq(Frame)]
      /\ running \subseteq Execution
  BY DEF PipeInv, TypeOK, Execution
<1>1. CASE UNCHANGED <<up, down, clientVars>>
  BY <1>1 DEF ClientInv, clientVars
<1>2. ASSUME NEW p \in Pipe, Handle(p) PROVE ClientInv'
  BY <1>2 DEF Handle, ClientInv, clientVars
<1>3. ASSUME NEW p \in Pipe, PipeDies(p) PROVE ClientInv'
  BY <1>0, <1>3 DEF PipeDies, Closing, ClientInv, clientVars
<1>4. ASSUME NEW p \in Pipe, Connect(p) PROVE ClientInv'
  <2>1. /\ mode' = "hello" /\ UNCHANGED <<up, mine, asked>>
        /\ down' = [down EXCEPT ![p] = <<[t |-> "ready", sess |-> minted']>>]
    BY <1>4 DEF Connect
  <2>2. \A k \in 1..Len(down'[p]) : down'[p][k].t # "resumed"
    BY <1>0, <2>1
  <2>3. \A q \in Pipe \ {p} : down'[q] = down[q]
    BY <1>0, <2>1
  <2> QED
    BY <2>1, <2>2, <2>3 DEF ClientInv
<1>5. ASSUME NEW w \in running, Finish(w) PROVE ClientInv'
  <2>1. /\ down' = [p \in Pipe |-> IF p \in w.to THEN Append(down[p], Reply(w.id)) ELSE down[p]]
        /\ UNCHANGED <<up, clientVars>>
    BY <1>5 DEF Finish
  <2>2. ASSUME NEW p \in Pipe, \A k \in 1..Len(down[p]) : down[p][k].t # "resumed"
        PROVE  \A k \in 1..Len(down'[p]) : down'[p][k].t # "resumed"
    <3> DEFINE q == Append(down[p], Reply(w.id))
    <3>0. w.id \in Id
      BY <1>0 DEF Execution
    <3>1. Reply(w.id) \in Frame /\ Reply(w.id).t # "resumed"
      BY <3>0 DEF Reply, Frame
    <3>2. /\ Len(q) = Len(down[p]) + 1 /\ Len(down[p]) \in Nat /\ q[Len(down[p]) + 1] = Reply(w.id)
          /\ \A k \in 1..Len(down[p]) : q[k] = down[p][k]
      BY <1>0, <3>1, AppendProperties
    <3> HIDE DEF q
    <3>3. \A k \in 1..Len(q) : q[k].t # "resumed"
      BY <2>2, <3>1, <3>2
    <3>4. down'[p] = q \/ down'[p] = down[p]
      BY <2>1 DEF q
    <3> QED
      BY <2>2, <3>3, <3>4
  <2> QED
    BY <2>1, <2>2 DEF ClientInv, clientVars
<1>6. CASE OtherOpens \/ Tick
  BY <1>1, <1>6 DEF OtherOpens, Tick
<1>7. CASE Receive
  <2> DEFINE f == Head(down[cur])
  <2>1. /\ cur \in Pipe /\ down[cur] # <<>> /\ down' = [down EXCEPT ![cur] = Tail(@)]
    BY <1>7 DEF Receive, PipeInv, TypeOK
  <2>2. /\ f = down[cur][1] /\ Len(down[cur]) \in Nat \ {0} /\ Len(Tail(down[cur])) = Len(down[cur]) - 1
        /\ \A k \in 1..Len(down[cur]) - 1 : Tail(down[cur])[k] = down[cur][k + 1]
    BY <1>0, <2>1, HeadTailProperties, EmptySeq
  <2>3. CASE mine = None
    <3>1. /\ asked = 0 /\ mode # "ready"
          /\ \A p \in Pipe : up[p] = <<>> /\ \A k \in 1..Len(down[p]) : down[p][k].t # "resumed"
      BY <2>3 DEF ClientInv
    <3>2. f.t # "resumed"
      BY <2>1, <2>2, <3>1
    <3>3. ASSUME NEW p \in Pipe, NEW k \in 1..Len(down'[p]) PROVE down'[p][k].t # "resumed"
      <4>1. CASE p # cur
        BY <1>0, <2>1, <3>1, <3>3, <4>1
      <4>2. CASE p = cur
        <5>1. down'[p] = Tail(down[cur])
          BY <1>0, <2>1, <4>2
        <5>2. k \in 1..Len(down[cur]) - 1 /\ k + 1 \in 1..Len(down[cur])
          BY <2>2, <3>3, <5>1
        <5> QED
          BY <2>1, <2>2, <3>1, <5>1, <5>2
      <4> QED
        BY <4>1, <4>2
    <3>4. CASE (f.t = "ready" /\ OnReady(f.sess)) \/ (f.t = "resumeFailed" /\ OnResumeFailed(f.sess))
      <4>1. f.sess \in Sess /\ None \notin Sess
        BY <1>0, <2>1, <3>4, DownHead, PipeAssumption DEF Sess
      <4>2. mine' = f.sess
        BY <2>3, <3>4 DEF OnReady, OnResumeFailed
      <4> QED
        BY <4>1, <4>2 DEF ClientInv
    <3>5. CASE f.t = "reply" /\ OnReply(f.id)
      BY <3>1, <3>3, <3>5 DEF OnReply, ClientInv
    <3> QED
      BY <1>7, <3>2, <3>4, <3>5 DEF Receive
  <2>4. CASE mine # None
    <3>1. CASE f.t = "resumeFailed" /\ OnResumeFailed(f.sess)
      <4>1. f.sess \in Sess /\ None \notin Sess
        BY <1>0, <2>1, <3>1, DownHead, PipeAssumption DEF Sess
      <4> QED
        BY <3>1, <4>1 DEF OnResumeFailed, ClientInv
    <3>2. CASE mine' = mine
      BY <2>4, <3>2 DEF ClientInv
    <3> QED
      BY <1>7, <2>4, <3>1, <3>2 DEF Receive, OnReady, OnResumed, OnReply
  <2> QED
    BY <2>3, <2>4
<1>8. CASE Call
  BY <1>8 DEF Call, ClientInv
<1>9. CASE LoseSocket
  <2>1. /\ mode' = "offline" /\ UNCHANGED <<up, mine, asked>> /\ down' = [down EXCEPT ![cur] = <<>>]
    BY <1>9 DEF LoseSocket
  <2>2. \A p \in Pipe : down'[p] = down[p] \/ down'[p] = <<>>
    BY <1>0, <2>1
  <2> QED
    BY <2>1, <2>2 DEF ClientInv
<1>10. CASE UNCHANGED vars
  BY <1>1, <1>10 DEF vars
<1> QED
  BY <1>2, <1>3, <1>4, <1>5, <1>6, <1>7, <1>8, <1>9, <1>10 DEF Next

(* Traces of executed calls last while their session is held, as long as   *)
(* what runs goes on.                                                      *)
LEMMA TracesLast ==
  ASSUME CallInv, store' \subseteq store, runs' = runs, replies' = replies, trimmed' = trimmed,
         minted' = minted, Continues
  PROVE  CallInv'
<1>1. ASSUME NEW s \in store', NEW i \in Id, runs'[s][i] > 0 PROVE Traced(s, i)'
  <2>1. Traced(s, i)
    BY <1>1 DEF CallInv
  <2> QED
    BY <2>1 DEF Traced, Replied, Continues
<1> QED
  BY <1>1 DEF CallInv, RepeatedOnlyIfTrimmed

(* A session that was just minted has executed nothing.                    *)
LEMMA MintedIsFresh ==
  ASSUME PipeInv, RoomInv, CallInv, Mint, UNCHANGED callVars
  PROVE  CallInv'
<1>1. /\ minted' = minted + 1 /\ minted' \in Sess /\ minted \in Nat
      /\ store' \subseteq store \cup {minted'} /\ store' \subseteq Sess /\ replies' = replies
      /\ UNCHANGED <<running, runs, trimmed>>
  BY MintIs, SMTT(30) DEF callVars, PipeInv, TypeOK
<1>2. runs \in [Sess -> [Id -> 0..MaxRuns]]
  BY DEF PipeInv, TypeOK
<1>3. \A i \in Id : runs[minted'][i] = 0
  BY <1>1 DEF CallInv
<1>4. ASSUME NEW s \in store', NEW i \in Id
      PROVE  (runs'[s][i] > 0 => Traced(s, i)') /\ (runs'[s][i] > 1 => <<s, i>> \in trimmed')
  <2>1. CASE s = minted'
    BY <1>1, <1>3, <2>1
  <2>2. CASE s # minted'
    <3>1. s \in store
      BY <1>1, <2>2
    <3>2. (runs[s][i] > 0 => Traced(s, i)) /\ (runs[s][i] > 1 => <<s, i>> \in trimmed)
      BY <3>1 DEF CallInv, RepeatedOnlyIfTrimmed
    <3> QED
      BY <1>1, <3>2 DEF Traced, Replied
  <2> QED
    BY <2>1, <2>2
<1>5. \A s \in Sess, i \in Id : s > minted' => runs'[s][i] = 0
  BY <1>1 DEF CallInv, Sess
<1> QED
  BY <1>4, <1>5 DEF CallInv, RepeatedOnlyIfTrimmed

(* One step keeps the traces of executed calls.                            *)
LEMMA CallStep == PipeInv /\ RoomInv /\ CallInv /\ [Next]_vars => CallInv'
<1> SUFFICES ASSUME PipeInv, RoomInv, CallInv, [Next]_vars PROVE CallInv'
  OBVIOUS
<1>0. /\ TypeOK /\ running \subseteq Execution /\ runs \in [Sess -> [Id -> 0..MaxRuns]]
      /\ store \subseteq 1..minted /\ store \subseteq Sess
      /\ minted \in Nat /\ MaxRuns \in Nat
  BY BoundAssumption DEF PipeInv, TypeOK, Execution
<1>1. CASE UNCHANGED <<storeVars, callVars>>
  <2>1. Continues
    BY <1>1 DEF Continues, callVars
  <2> QED
    BY <1>1, <2>1, TracesLast DEF storeVars, callVars
<1>2. ASSUME NEW p \in Pipe, Handle(p), Head(up[p]).t = "resume" PROVE CallInv'
  <2>1. OnResume(p, Head(up[p])) /\ UNCHANGED <<minted, replies, callVars>>
    BY <1>2 DEF Handle
  <2>2. store' \subseteq store
    BY <2>1, FreshIs DEF OnResume
  <2>3. Continues
    BY <2>1 DEF Continues, callVars
  <2> QED
    BY <2>1, <2>2, <2>3, TracesLast DEF callVars
<1>3. ASSUME NEW p \in Pipe, Handle(p), Head(up[p]).t = "call" PROVE CallInv'
  <2>1. up[p] # <<>> /\ OnCall(p, Head(up[p]).id) /\ UNCHANGED <<storeVars, trimmed>>
    BY <1>3 DEF Handle
  <2>2. PICK i \in Id : i = Head(up[p]).id
    BY <1>0, <1>3, <2>1, UpHead
  <2>3. PICK s \in Sess : s = session[p] /\ s \in 1..minted
    <3>1. session[p] \in 1..minted /\ minted \in 0..MaxMinted
      BY <2>1 DEF PipeInv, TypeOK
    <3> QED
      BY <3>1, BoundAssumption DEF Sess
  <2>4. Continues
    BY <1>0, <2>1, <2>2, <2>3, OnCallIs
  <2>5. CASE runs' = runs
    BY <2>1, <2>4, <2>5, TracesLast DEF storeVars
  <2>6. CASE /\ ~(s \in store /\ i \in Replied(s)) /\ InFlight(s, i) = {}
             /\ runs' = [runs EXCEPT ![s][i] = @ + 1]
             /\ running' = running \cup {[sess |-> s, id |-> i, run |-> runs'[s][i], to |-> {p}]}
    <3>1. ASSUME NEW t \in Sess, NEW j \in Id, t # s \/ j # i PROVE runs'[t][j] = runs[t][j]
      BY <1>0, <2>2, <2>3, <2>6, <3>1
    <3>2. runs'[s][i] = runs[s][i] + 1 /\ runs[s][i] \in Nat
      BY <1>0, <2>2, <2>3, <2>6
    <3>3. \E w \in running' : w.sess = s /\ w.id = i
      <4>1. [sess |-> s, id |-> i, run |-> runs'[s][i], to |-> {p}] \in running'
        BY <2>6
      <4> QED
        BY <4>1
    <3>4. ASSUME NEW t \in store, NEW j \in Id
          PROVE  (runs'[t][j] > 0 => Traced(t, j)') /\ (runs'[t][j] > 1 => <<t, j>> \in trimmed')
      <4>1. (runs[t][j] > 0 => Traced(t, j)) /\ (runs[t][j] > 1 => <<t, j>> \in trimmed)
        BY DEF CallInv, RepeatedOnlyIfTrimmed
      <4>2. Traced(t, j) => Traced(t, j)'
        BY <2>1, <2>4 DEF Traced, Replied, Continues, storeVars
      <4>3. CASE t = s /\ j = i
        <5>1. Traced(s, i)'
          BY <3>3 DEF Traced
        <5>2. Traced(s, i) => <<s, i>> \in trimmed
          BY <2>6, <4>3 DEF Traced, InFlight
        <5> QED
          BY <2>1, <3>2, <4>1, <4>3, <5>1, <5>2
      <4>4. CASE t # s \/ j # i
        BY <1>0, <2>1, <3>1, <4>1, <4>2, <4>4
      <4> QED
        BY <4>3, <4>4
    <3>5. \A t \in Sess, j \in Id : t > minted => runs'[t][j] = 0
      BY <1>0, <2>3, <3>1 DEF CallInv
    <3> QED
      BY <2>1, <3>4, <3>5 DEF CallInv, RepeatedOnlyIfTrimmed, storeVars
  <2> QED
    BY <2>1, <2>2, <2>3, <2>5, <2>6 DEF OnCall
<1>4. ASSUME NEW p \in Pipe, PipeDies(p) PROVE CallInv'
  <2>1. /\ running' = {[w EXCEPT !.to = @ \ {p}] : w \in running}
        /\ UNCHANGED <<storeVars, runs, trimmed>>
    BY <1>4 DEF PipeDies, Closing
  <2>2. ASSUME NEW t \in Sess, NEW j \in Id, Traced(t, j) PROVE Traced(t, j)'
    <3>1. ASSUME NEW w \in running, w.sess = t, w.id = j PROVE \E v \in running' : v.sess = t /\ v.id = j
      <4>1. [w EXCEPT !.to = @ \ {p}] \in running'
        BY <2>1
      <4>2. [w EXCEPT !.to = @ \ {p}].sess = t /\ [w EXCEPT !.to = @ \ {p}].id = j
        BY <1>0, <3>1 DEF Execution
      <4> QED
        BY <4>1, <4>2
    <3> QED
      BY <2>1, <2>2, <3>1 DEF Traced, Replied, storeVars
  <2> QED
    BY <1>0, <2>1, <2>2 DEF CallInv, RepeatedOnlyIfTrimmed, storeVars
<1>5. ASSUME NEW p \in Pipe, Connect(p) PROVE CallInv'
  BY <1>5, MintedIsFresh DEF Connect
<1>6. ASSUME NEW w \in running, Finish(w) PROVE CallInv'
  <2>1. running' = running \ {w} /\ Record(w.sess, w.id) /\ UNCHANGED <<minted, store, runs>>
    BY <1>6 DEF Finish
  <2>2. w.sess \in Sess /\ w.id \in Id
    BY <1>0 DEF Execution
  <2>3. /\ trimmed \subseteq trimmed'
        /\ \A q \in Sess, j \in Id : j \in Replied(q) => j \in Replied(q)' \/ <<q, j>> \in trimmed'
        /\ w.sess \in store => w.id \in Replied(w.sess)' \/ <<w.sess, w.id>> \in trimmed'
    BY <1>0, <2>1, <2>2, RecordIs
  <2>4. ASSUME NEW t \in store, NEW j \in Id, Traced(t, j) PROVE Traced(t, j)'
    <3>1. CASE j \in Replied(t) \/ <<t, j>> \in trimmed
      BY <1>0, <2>3, <3>1 DEF Traced
    <3>2. CASE \E v \in running : v.sess = t /\ v.id = j
      <4>1. PICK v \in running : v.sess = t /\ v.id = j
        BY <3>2
      <4>2. CASE v = w
        BY <2>3, <4>1, <4>2 DEF Traced
      <4>3. CASE v # w
        BY <2>1, <4>1, <4>3 DEF Traced
      <4> QED
        BY <4>2, <4>3
    <3> QED
      BY <2>4, <3>1, <3>2 DEF Traced
  <2> QED
    BY <1>0, <2>1, <2>3, <2>4 DEF CallInv, RepeatedOnlyIfTrimmed
<1>7. CASE OtherOpens
  BY <1>7, MintedIsFresh DEF OtherOpens
<1>8. CASE Tick \/ Receive \/ Call \/ LoseSocket
  BY <1>1, <1>8 DEF Tick, Receive, Call, LoseSocket
<1>9. CASE UNCHANGED vars
  BY <1>1, <1>9 DEF vars, storeVars, callVars
<1>10. ASSUME NEW p \in Pipe, Handle(p) PROVE CallInv'
  BY <1>2, <1>3, <1>10 DEF Handle
<1> QED
  BY <1>4, <1>5, <1>6, <1>7, <1>8, <1>9, <1>10 DEF Next

(* The call i of the connected client is somewhere.                        *)
Safe(i) ==
  \/ On(up[cur], CallOf(i))
  \/ \E w \in running : w.id = i /\ cur \in w.to
  \/ On(down[cur], Reply(i))

(* Nothing is stranded as long as every unanswered call is somewhere.      *)
LEMMA StrandedIs == NothingStranded <=> (mode = "ready" => \A i \in Unanswered : Safe(i))
BY DEF NothingStranded, Safe, On, CallOf

(* Calls stay where they are while the queues and the executions go on.    *)
LEMMA SafeStays ==
  ASSUME NEW i, Safe(i), cur' = cur, Continues,
         On(up[cur], CallOf(i)) => On(up'[cur], CallOf(i)),
         On(down[cur], Reply(i)) => On(down'[cur], Reply(i))
  PROVE  Safe(i)'
BY DEF Safe, Continues, On, CallOf, Reply

(* One step strands none of the client's calls.                            *)
LEMMA StrandStep == PipeInv /\ ClientInv /\ RoomInv /\ NothingStranded /\ [Next]_vars => NothingStranded'
<1> SUFFICES ASSUME PipeInv, ClientInv, RoomInv, NothingStranded, [Next]_vars PROVE NothingStranded'
  OBVIOUS
<1>0. /\ TypeOK /\ running \subseteq Execution
      /\ up \in [Pipe -> Seq(Request)] /\ down \in [Pipe -> Seq(Frame)]
      /\ (cur = None <=> mode = "offline") /\ cur \in Pipe \cup {None}
      /\ mode = "ready" => \A i \in Unanswered : Safe(i)
  BY StrandedIs DEF PipeInv, TypeOK, Execution
<1>1. SUFFICES ASSUME mode' = "ready" PROVE \A i \in Unanswered' : Safe(i)'
  BY DEF NothingStranded, Safe, On, CallOf
<1>2. \A q \in Pipe : up[q] \in Seq(Request) /\ down[q] \in Seq(Frame)
  BY <1>0
<1>3. ASSUME UNCHANGED <<clientVars, up, down, running>> PROVE \A i \in Unanswered' : Safe(i)'
  BY <1>0, <1>1, <1>3 DEF clientVars, Unanswered, Safe, On, CallOf, Reply
<1>4. ASSUME UNCHANGED clientVars,
             \A i \in Unanswered : Safe(i) => Safe(i)'
      PROVE  \A i \in Unanswered' : Safe(i)'
  BY <1>0, <1>1, <1>4 DEF clientVars, Unanswered
<1>5. ASSUME UNCHANGED clientVars PROVE cur \in Pipe
  BY <1>0, <1>1, <1>5 DEF clientVars
<1>6. ASSUME NEW p \in Pipe, Handle(p), Head(up[p]).t = "resume" PROVE \A i \in Unanswered' : Safe(i)'
  <2>1. /\ up[p] # <<>> /\ up' = [up EXCEPT ![p] = Tail(@)] /\ OnResume(p, Head(up[p]))
        /\ UNCHANGED <<minted, replies, callVars, clientVars>>
    BY <1>6 DEF Handle
  <2>2. Head(up[p]).sess \in Sess /\ session[p] \in 1..minted /\ store \subseteq 1..minted /\ cur \in Pipe
    BY <1>0, <1>5, <1>6, <2>1, UpHead DEF PipeInv
  <2>3. /\ \A q \in Pipe \ {p} : down'[q] = down[q]
        /\ \E frames \in Seq(Frame) : down'[p] = down[p] \o frames
    BY <1>0, <2>1, <2>2, OnResumeIs
  <2>4. ASSUME NEW i \in Unanswered, Safe(i) PROVE Safe(i)'
    <3>1. On(up[cur], CallOf(i)) => On(up'[cur], CallOf(i))
      <4>1. CASE cur = p
        <5>1. up'[cur] = Tail(up[cur]) /\ Head(up[cur]).t = "resume" /\ CallOf(i).t = "call"
          BY <1>0, <1>6, <2>1, <4>1 DEF CallOf
        <5>2. up[cur] \in Seq(Request) /\ up[cur] # <<>>
          BY <1>2, <2>1, <4>1
        <5>3. CallOf(i) # Head(up[cur])
          BY <5>1
        <5> QED
          BY <5>1, <5>2, <5>3, OnLess
      <4>2. CASE cur # p
        BY <1>0, <2>1, <2>2, <4>2
      <4> QED
        BY <4>1, <4>2
    <3>2. On(down[cur], Reply(i)) => On(down'[cur], Reply(i))
      <4>1. CASE cur = p
        <5>1. PICK frames \in Seq(Frame) : down'[cur] = down[cur] \o frames
          BY <2>3, <4>1
        <5>2. \A x : On(down[cur], x) \/ On(frames, x) => On(down'[cur], x)
          BY <1>2, <2>2, <5>1, Grown
        <5> QED
          BY <5>2
      <4>2. CASE cur # p
        <5>1. down'[cur] = down[cur]
          BY <2>2, <2>3, <4>2
        <5> QED
          BY <5>1
      <4> QED
        BY <4>1, <4>2
    <3>3. Continues
      BY <2>1 DEF callVars, Continues
    <3> QED
      BY <2>1, <2>4, <3>1, <3>2, <3>3, SafeStays DEF clientVars
  <2> QED
    BY <1>4, <2>1, <2>4
<1>7. ASSUME NEW p \in Pipe, Handle(p), Head(up[p]).t = "call" PROVE \A i \in Unanswered' : Safe(i)'
  <2>1. /\ up[p] # <<>> /\ up' = [up EXCEPT ![p] = Tail(@)] /\ OnCall(p, Head(up[p]).id)
        /\ UNCHANGED <<storeVars, trimmed, session, clientVars>>
    BY <1>7 DEF Handle
  <2>2. PICK j \in Id : j = Head(up[p]).id
    BY <1>0, <1>7, <2>1, UpHead
  <2>3. session[p] \in Sess /\ cur \in Pipe
    <3>1. session[p] \in 1..minted /\ minted \in 0..MaxMinted
      BY <2>1 DEF PipeInv, TypeOK
    <3> QED
      BY <1>5, <2>1, <3>1, BoundAssumption DEF Sess
  <2>4. /\ Continues
        /\ \A q \in Pipe \ {p} : down'[q] = down[q]
        /\ down'[p] = down[p] \/ down'[p] = down[p] \o <<Reply(j)>>
        /\ \/ down'[p] = down[p] \o <<Reply(j)>>
           \/ \E w \in running' : w.id = j /\ p \in w.to
    BY <1>0, <2>1, <2>2, <2>3, OnCallIs
  <2>5. <<Reply(j)>> \in Seq(Frame)
    BY DEF Reply, Frame
  <2>6. ASSUME NEW i \in Unanswered, Safe(i) PROVE Safe(i)'
    <3>0. ASSUME cur = p, down'[p] = down[p] \o <<Reply(j)>>
          PROVE  \A x : On(down[cur], x) \/ On(<<Reply(j)>>, x) => On(down'[cur], x)
      BY <1>2, <2>5, <3>0, Grown
    <3>1. On(down[cur], Reply(i)) => On(down'[cur], Reply(i))
      <4>1. CASE down'[cur] = down[cur]
        BY <4>1
      <4>2. CASE cur = p /\ down'[p] = down[p] \o <<Reply(j)>>
        BY <3>0, <4>2
      <4> QED
        BY <2>3, <2>4, <4>1, <4>2
    <3>2. CASE cur = p /\ i = j
      <4>1. CASE down'[p] = down[p] \o <<Reply(j)>>
        <5>1. On(down'[cur], Reply(i))
          BY <3>0, <3>2, <4>1, OnOne
        <5> QED
          BY <2>1, <5>1 DEF Safe, On, Reply, clientVars
      <4>2. CASE \E w \in running' : w.id = j /\ p \in w.to
        BY <2>1, <3>2, <4>2 DEF Safe, clientVars
      <4> QED
        BY <2>4, <4>1, <4>2
    <3>3. CASE ~(cur = p /\ i = j)
      <4>1. On(up[cur], CallOf(i)) => On(up'[cur], CallOf(i))
        <5>1. CASE cur = p
          <6>1. up'[cur] = Tail(up[cur]) /\ Head(up[cur]).id = j /\ CallOf(i).id = i /\ i # j
            BY <1>0, <2>1, <2>2, <3>3, <5>1 DEF CallOf
          <6>2. up[cur] \in Seq(Request) /\ up[cur] # <<>>
            BY <1>2, <2>1, <5>1
          <6>3. CallOf(i) # Head(up[cur])
            BY <6>1
          <6> QED
            BY <6>1, <6>2, <6>3, OnLess
        <5>2. CASE cur # p
          BY <1>0, <2>1, <2>3, <5>2
        <5> QED
          BY <5>1, <5>2
      <4> QED
        BY <2>1, <2>4, <2>6, <3>1, <4>1, SafeStays DEF clientVars
    <3> QED
      BY <3>2, <3>3
  <2> QED
    BY <1>4, <2>1, <2>6
<1>8. ASSUME NEW p \in Pipe, PipeDies(p) PROVE \A i \in Unanswered' : Safe(i)'
  <2>1. /\ p # cur /\ up' = [up EXCEPT ![p] = <<>>]
        /\ running' = {[w EXCEPT !.to = @ \ {p}] : w \in running}
        /\ UNCHANGED <<down, clientVars>>
    BY <1>8 DEF PipeDies, Closing
  <2>2. cur \in Pipe /\ up'[cur] = up[cur]
    BY <1>0, <1>5, <2>1
  <2>3. ASSUME NEW i, NEW w \in running, w.id = i, cur \in w.to
        PROVE  \E v \in running' : v.id = i /\ cur \in v.to
    <3>1. [w EXCEPT !.to = @ \ {p}] \in running'
      BY <2>1
    <3>2. [w EXCEPT !.to = @ \ {p}].id = i /\ cur \in [w EXCEPT !.to = @ \ {p}].to
      BY <1>0, <2>1, <2>3 DEF Execution
    <3> QED
      BY <3>1, <3>2
  <2>4. \A i \in Unanswered : Safe(i) => Safe(i)'
    BY <2>1, <2>2, <2>3, SMTT(30) DEF Safe, On, CallOf, Reply, clientVars
  <2> QED
    BY <1>4, <2>1, <2>4
<1>9. ASSUME NEW w \in running, Finish(w) PROVE \A i \in Unanswered' : Safe(i)'
  <2>1. /\ running' = running \ {w}
        /\ down' = [p \in Pipe |-> IF p \in w.to THEN Append(down[p], Reply(w.id)) ELSE down[p]]
        /\ UNCHANGED <<up, clientVars>>
    BY <1>9 DEF Finish
  <2>2. cur \in Pipe /\ w.id \in Id
    BY <1>0, <1>5, <2>1 DEF Execution
  <2>3. <<Reply(w.id)>> \in Seq(Frame) /\ Reply(w.id) \in Frame
    BY <2>2 DEF Reply, Frame
  <2>4. Append(down[cur], Reply(w.id)) = down[cur] \o <<Reply(w.id)>>
    BY <1>2, <2>2, <2>3, AppendIsConcat
  <2>5. ASSUME cur \in w.to
        PROVE  \A x : On(down[cur], x) \/ On(<<Reply(w.id)>>, x) => On(down'[cur], x)
    <3>1. down'[cur] = down[cur] \o <<Reply(w.id)>>
      BY <2>1, <2>2, <2>4, <2>5
    <3> DEFINE told == <<Reply(w.id)>>
    <3>2. down[cur] \in Seq(Frame) /\ told \in Seq(Frame) /\ down'[cur] = down[cur] \o told
      BY <1>2, <2>2, <2>3, <3>1
    <3> HIDE DEF told
    <3>3. \A x : On(down[cur], x) \/ On(told, x) => On(down'[cur], x)
      BY <3>2, Grown
    <3> QED
      BY <3>3 DEF told
  <2>6. cur \in w.to => On(down'[cur], Reply(w.id))
    BY <2>5, OnOne
  <2>8. cur \notin w.to => down'[cur] = down[cur]
    BY <2>1, <2>2
  <2>9. \A i : On(down[cur], Reply(i)) => On(down'[cur], Reply(i))
    BY <2>5, <2>8
  <2>7. \A i \in Unanswered : Safe(i) => Safe(i)'
    <3>1. ASSUME NEW i, NEW v \in running, v.id = i, cur \in v.to
          PROVE  On(down'[cur], Reply(i)) \/ \E x \in running' : x.id = i /\ cur \in x.to
      BY <2>1, <2>6, <3>1
    <3>2. ASSUME NEW i, Safe(i) PROVE Safe(i)'
      <4>1. CASE On(up[cur], CallOf(i))
        BY <2>1, <4>1 DEF Safe, On, CallOf, clientVars
      <4>2. CASE \E v \in running : v.id = i /\ cur \in v.to
        <5>1. On(down'[cur], Reply(i)) \/ \E x \in running' : x.id = i /\ cur \in x.to
          BY <3>1, <4>2
        <5> QED
          BY <2>1, <5>1 DEF Safe, On, Reply, clientVars
      <4>3. CASE On(down[cur], Reply(i))
        <5>1. On(down'[cur], Reply(i))
          BY <2>9, <4>3
        <5> QED
          BY <2>1, <5>1 DEF Safe, On, Reply, clientVars
      <4> QED
        BY <3>2, <4>1, <4>2, <4>3 DEF Safe
    <3> QED
      BY <3>2
  <2> QED
    BY <1>4, <2>1, <2>7
<1>10. CASE OtherOpens \/ Tick
  BY <1>3, <1>10 DEF OtherOpens, Tick, callVars
<1>11. ASSUME NEW p \in Pipe, Connect(p) PROVE FALSE
  BY <1>1, <1>11 DEF Connect
<1>12. CASE LoseSocket
  BY <1>1, <1>12 DEF LoseSocket
<1>13. CASE Call
  <2>1. /\ mode = "ready" /\ asked' = asked + 1 /\ Ask(<<CallOf(asked + 1)>>) /\ asked < MaxCalls
        /\ UNCHANGED <<running, down, cur, answered>>
    BY <1>13 DEF Call, CallOf, callVars
  <2>2. cur \in Pipe /\ asked \in Nat /\ MaxCalls \in Nat
    BY <1>0, <2>1, BoundAssumption DEF TypeOK
  <2>3. <<CallOf(asked + 1)>> \in Seq(Request)
    <3>1. asked + 1 \in Id
      BY <2>1, <2>2 DEF Id
    <3> QED
      BY <3>1 DEF CallOf, Request
  <2>4. up'[cur] = up[cur] \o <<CallOf(asked + 1)>>
    BY <1>0, <2>1, <2>2, <2>3, AskIs
  <2>8. \A x : On(up[cur], x) \/ On(<<CallOf(asked + 1)>>, x) => On(up'[cur], x)
    <3>1. up[cur] \in Seq(Request)
      BY <1>2, <2>2
    <3> DEFINE r == <<CallOf(asked + 1)>>
    <3>2. r \in Seq(Request) /\ up'[cur] = up[cur] \o r
      BY <2>3, <2>4
    <3> HIDE DEF r
    <3>3. \A x : On(up[cur], x) \/ On(r, x) => On(up'[cur], x)
      BY <3>1, <3>2, Grown
    <3> QED
      BY <3>3 DEF r
  <2>5. \A i : On(up[cur], CallOf(i)) => On(up'[cur], CallOf(i))
    BY <2>8
  <2>6. On(up'[cur], CallOf(asked + 1))
    BY <2>8, OnOne
  <2>7. ASSUME NEW i \in Unanswered' PROVE i \in Unanswered \/ i = asked + 1
    BY <2>1, <2>2, <2>7 DEF Unanswered, Id
  <2> QED
    BY <1>0, <2>1, <2>5, <2>6, <2>7 DEF Safe, On, CallOf, Reply
<1>14. CASE Receive
  <2> DEFINE f == Head(down[cur])
  <2>1. /\ cur \in Pipe /\ down[cur] # <<>> /\ down' = [down EXCEPT ![cur] = Tail(@)]
        /\ UNCHANGED <<running, cur>>
    BY <1>0, <1>14 DEF Receive, callVars
  <2>2. down'[cur] = Tail(down[cur])
    BY <1>0, <2>1
  <2>3. \A i : On(down[cur], Reply(i)) => Reply(i) = f \/ On(down'[cur], Reply(i))
    BY <1>2, <2>1, <2>2, OnLess
  <2>4. CASE f.t = "ready" /\ OnReady(f.sess)
    <3>1. mine = None /\ UNCHANGED <<asked, answered>>
      BY <1>1, <2>4 DEF OnReady
    <3>2. asked = 0 /\ Unanswered' = {}
      BY <3>1 DEF ClientInv, Unanswered, Id
    <3> QED
      BY <3>2
  <2>5. CASE f.t = "resumed" /\ OnResumed
    <3>1. Unanswered \in SUBSET Id /\ Unanswered' = Unanswered
      BY <2>5 DEF Unanswered, OnResumed
    <3>2. CallFrames(Unanswered) \in Seq(Request) /\ \A i \in Unanswered : On(CallFrames(Unanswered), CallOf(i))
      BY <3>1, CallFramesAre
    <3>3. up'[cur] = up[cur] \o CallFrames(Unanswered)
      BY <1>0, <2>1, <2>5, <3>2, AskIs DEF OnResumed
    <3>4. \A x : On(up[cur], x) \/ On(CallFrames(Unanswered), x) => On(up'[cur], x)
      BY <1>2, <2>1, <3>2, <3>3, Grown
    <3>5. \A i \in Unanswered : On(up'[cur], CallOf(i))
      BY <3>2, <3>4
    <3> QED
      BY <2>1, <3>1, <3>5 DEF Safe, On, CallOf
  <2>6. CASE f.t = "resumeFailed" /\ OnResumeFailed(f.sess)
    <3>1. asked' = 0
      BY <2>6 DEF OnResumeFailed
    <3>2. Unanswered' = {}
      BY <3>1 DEF Unanswered, Id
    <3> QED
      BY <3>2
  <2>7. CASE f.t = "reply" /\ OnReply(f.id)
    <3>1. /\ answered' = answered \cup {f.id} /\ UNCHANGED <<mode, asked, up>>
      BY <2>7 DEF OnReply
    <3>2. ASSUME NEW i \in Unanswered' PROVE i \in Unanswered /\ i # f.id
      BY <3>1, <3>2 DEF Unanswered
    <3>3. \A i : Reply(i).id = i
      BY DEF Reply
    <3> HIDE DEF f
    <3>4. ASSUME NEW i \in Unanswered' PROVE Safe(i)'
      <4>1. Safe(i) /\ Reply(i) # f
        BY <1>0, <1>1, <3>1, <3>2, <3>3, <3>4
      <4>2. On(down[cur], Reply(i)) => On(down'[cur], Reply(i))
        BY <2>3, <4>1
      <4>3. Continues
        BY <2>1 DEF Continues
      <4> QED
        BY <2>1, <3>1, <4>1, <4>2, <4>3, SafeStays
    <3> QED
      BY <3>4
  <2> QED
    BY <1>14, <2>4, <2>5, <2>6, <2>7 DEF Receive
<1>15. CASE UNCHANGED vars
  BY <1>3, <1>15 DEF vars, callVars
<1>16. ASSUME NEW p \in Pipe, Handle(p) PROVE \A i \in Unanswered' : Safe(i)'
  BY <1>6, <1>7, <1>16 DEF Handle
<1> QED
  BY <1>8, <1>9, <1>10, <1>11, <1>12, <1>13, <1>14, <1>15, <1>16 DEF Next

-----------------------------------------------------------------------------
(* Before anything was opened there is nothing to lose.                    *)
LEMMA InitInv == Init => Inv
<1> SUFFICES ASSUME Init PROVE Inv
  OBVIOUS
<1>1. /\ MaxMinted \in Nat /\ MaxCalls \in Nat /\ MaxClock \in Nat /\ MaxRuns \in Nat
      /\ MaxHistory \in Nat /\ MaxSessions \in Nat /\ None \notin Pipe
  BY BoundAssumption, PipeAssumption
<1>2. /\ \A S : <<>> \in Seq(S)
      /\ Len(<<>>) = 0
  OBVIOUS
<1>3. TypeOK
  BY <1>1, <1>2 DEF Init, TypeOK
<1>4. PipeInv
  BY <1>1, <1>3 DEF Init, PipeInv
<1>5. ClientInv
  BY <1>2 DEF Init, ClientInv
<1>6. RoomInv
  BY <1>1, <1>2, FS_EmptySet DEF Init, RoomInv
<1>7. CallInv
  BY DEF Init, CallInv, RepeatedOnlyIfTrimmed
<1>8. NothingStranded
  BY DEF Init, NothingStranded
<1> QED
  BY <1>4, <1>5, <1>6, <1>7, <1>8 DEF Inv

(* Every state of every behaviour satisfies all layers.                    *)
THEOREM Invariance == Spec => []Inv
<1>1. Inv /\ [Next]_vars => Inv'
  BY PipeStep, ClientStep, RoomStep, CallStep, StrandStep DEF Inv
<1> QED
  BY <1>1, InitInv, PTL DEF Spec

(* Types and ceilings hold in every state, whatever pipes mint, resume and *)
(* leave behind.                                                           *)
THEOREM Ceilings == Spec => []Bounded
<1>1. Inv => Bounded
  BY DEF Inv, PipeInv, RoomInv, Bounded, TypeOK
<1> QED
  BY <1>1, Invariance, PTL

(* However often the client loses its socket: in a session that is held, a *)
(* call runs again only once its reply fell off a full history, and no     *)
(* call it is owed an answer to is forgotten by everybody once it is ready *)
(* again.                                                                  *)
THEOREM RetriesHold == Spec => []RetriesAreSafe
<1>1. Inv => RetriesAreSafe
  BY DEF Inv, CallInv, RetriesAreSafe
<1> QED
  BY <1>1, Invariance, PTL

-----------------------------------------------------------------------------
(* RpcPipe implements CallLedger.  That takes three invariants more.       *)
(*                                                                         *)
(* ExecInv: a call that runs or has a reply was executed, nobody awaits it *)
(* on a closed pipe, and in a session that is held it runs once at a time, *)
(* has its reply once, and not both.                                       *)
Distinct(q) == \A j, k \in 1..Len(q) : q[j] = q[k] => j = k

Once(s) ==
  /\ \A v, w \in running : v.sess = s /\ w.sess = s /\ v.id = w.id => v = w
  /\ \A w \in running : w.sess = s => w.id \notin Replied(s)
  /\ Distinct(replies[s])

ExecInv ==
  /\ \A w \in running : runs[w.sess][w.id] > 0 /\ \A p \in w.to : session[p] # None
  /\ \A s \in Sess : \A i \in Replied(s) : runs[s][i] > 0
  /\ \A s \in store : Once(s)

(* Known: sessions are named only once they are minted.                    *)
Named(q, s) == \E f : On(q, f) /\ f.t = "resume" /\ f.sess = s

Known ==
  /\ mine \in 1..minted \cup {None} /\ (mine = None => answered = {})
  /\ \A p \in Pipe : session[p] \in 1..minted \cup {None}
  /\ \A p \in Pipe, s \in Sess : Named(up[p], s) => s \in 1..minted

(* HandInv: what the client's two queues hold during the handshake.  The   *)
(* session its pipe was given is untouched until the client adopts it: it  *)
(* is on no other pipe, no resume frame names it, nothing was executed in  *)
(* it.                                                                     *)
NobodyFor(p) == \A w \in running : p \notin w.to

Untouched(s) ==
  /\ s # mine /\ \A i \in Id : runs[s][i] = 0
  /\ \A p \in Pipe : (p # cur => session[p] # s) /\ ~Named(up[p], s)

Honest(q) == \A f : On(q, f) => f.t = "reply" /\ runs[mine][f.id] > 0

Hello ==
  /\ up[cur] = <<>> /\ down[cur] = <<[t |-> "ready", sess |-> session[cur]]>>
  /\ NobodyFor(cur) /\ Untouched(session[cur])

Asked ==
  /\ down[cur] = <<>> /\ NobodyFor(cur) /\ Untouched(session[cur])
  /\ \E a \in 0..MaxCalls : up[cur] = <<[t |-> "resume", sess |-> mine, after |-> a]>>

Refused ==
  /\ up[cur] = <<>> /\ down[cur] = <<[t |-> "resumeFailed", sess |-> session[cur]]>>
  /\ NobodyFor(cur) /\ Untouched(session[cur])

Granted ==
  /\ up[cur] = <<>> /\ session[cur] = mine /\ NobodyFor(cur)
  /\ down[cur] # <<>> /\ Head(down[cur]).t = "resumed" /\ Honest(Tail(down[cur]))

Ready ==
  /\ session[cur] = mine /\ Honest(down[cur])
  /\ \A f : On(up[cur], f) => f.t = "call"
  /\ \A w \in running : cur \in w.to => w.sess = mine

HandInv ==
  /\ mode = "hello" => Hello
  /\ mode = "resuming" => mine # None /\ (Asked \/ Refused \/ Granted)
  /\ mode = "ready" => Ready

-----------------------------------------------------------------------------
(* The members of a list without repetitions are as many as its places.    *)
LEMMA DistinctCount ==
  ASSUME NEW S, NEW q \in Seq(S), Distinct(q)
  PROVE  /\ IsFiniteSet({q[k] : k \in 1..Len(q)})
         /\ Cardinality({q[k] : k \in 1..Len(q)}) = Len(q)
<1> DEFINE T == {q[k] : k \in 1..Len(q)}
           f == [k \in 1..Len(q) |-> q[k]]
<1>1. PICK n \in Nat : n = Len(q)
  BY LenProperties
<1>2. IsFiniteSet(1..Len(q)) /\ Cardinality(1..Len(q)) = Len(q)
  <2>1. IsFiniteSet(1..n) /\ Cardinality(1..n) = n
    BY FS_Interval
  <2> QED
    BY <1>1, <2>1
<1>0. \A k \in 1..Len(q) : q[k] \in T
  OBVIOUS
<1> HIDE DEF T
<1>3. f \in [1..Len(q) -> T] /\ \A k \in 1..Len(q) : f[k] = q[k]
  BY <1>0
<1> HIDE DEF f
<1>4. \A t \in T : \E k \in 1..Len(q) : f[k] = t
  BY <1>3 DEF T
<1>5. f \in Surjection(1..Len(q), T)
  BY <1>3, <1>4 DEF Surjection
<1>6. f \in Injection(1..Len(q), T)
  BY <1>3 DEF Injection, IsInjective, Distinct
<1> QED
  BY <1>2, <1>5, <1>6, FS_Surjection DEF T

Recorded(s, i) ==
  /\ Distinct(replies'[s])
  /\ \/ /\ Len(replies[s]) < MaxHistory
        /\ Replied(s)' = Replied(s) \cup {i}
     \/ /\ Len(replies[s]) >= MaxHistory
        /\ \E j \in Replied(s) : Replied(s)' = (Replied(s) \cup {i}) \ {j}
  /\ \A q \in Sess \ {s} : replies'[q] = replies[q]

(* In a history of different replies that takes one more, the replies stay *)
(* different; they are those before with the new one, less the oldest if   *)
(* the history was full.                                                   *)
LEMMA RecordOnce ==
  ASSUME TypeOK, NEW s \in store, NEW i \in Id, Record(s, i),
         i \notin Replied(s), Distinct(replies[s])
  PROVE  Recorded(s, i)
<1> DEFINE old == replies[s]
           all == Append(old, i)
<1>0. s \in Sess /\ replies \in [Sess -> Seq(Id)] /\ old \in Seq(Id) /\ Len(old) \in Nat /\ MaxHistory \in Nat \ {0}
  BY BoundAssumption DEF TypeOK
<1>1. /\ all \in Seq(Id) /\ Len(all) = Len(old) + 1
      /\ all[Len(old) + 1] = i /\ \A k \in 1..Len(old) : all[k] = old[k]
  BY <1>0, AppendProperties
<1>2. Replied(s) = {old[k] : k \in 1..Len(old)}
  BY DEF Replied
<1>3. /\ Len(all) <= MaxHistory => replies' = [replies EXCEPT ![s] = all]
      /\ ~(Len(all) <= MaxHistory) => replies' = [replies EXCEPT ![s] = Tail(all)]
  BY DEF Record
<1> HIDE DEF all, old
<1>4. Distinct(all)
  <2>1. ASSUME NEW j \in 1..Len(old) PROVE old[j] # i
    BY <1>2
  <2>2. Distinct(old)
    BY DEF old
  <2> SUFFICES ASSUME NEW j \in 1..Len(all), NEW k \in 1..Len(all), all[j] = all[k] PROVE j = k
    BY DEF Distinct
  <2>3. CASE j \in 1..Len(old) /\ k \in 1..Len(old)
    BY <1>1, <2>2, <2>3 DEF Distinct
  <2>4. CASE j = Len(old) + 1 /\ k \in 1..Len(old)
    BY <1>1, <2>1, <2>4
  <2>5. CASE j \in 1..Len(old) /\ k = Len(old) + 1
    BY <1>1, <2>1, <2>5
  <2> QED
    BY <1>0, <1>1, <2>3, <2>4, <2>5
<1>5. CASE Len(all) <= MaxHistory
  <2>1. replies'[s] = all /\ Len(old) < MaxHistory /\ \A q \in Sess \ {s} : replies'[q] = replies[q]
    BY <1>0, <1>1, <1>3, <1>5
  <2>2. Replied(s)' = {all[k] : k \in 1..Len(all)}
    BY <2>1 DEF Replied
  <2>3. Replied(s)' = Replied(s) \cup {i}
    <3>1. \A k \in 1..Len(all) : all[k] \in Replied(s) \cup {i}
      BY <1>0, <1>1, <1>2
    <3>2. \A k \in 1..Len(old) : k \in 1..Len(all)
      BY <1>0, <1>1
    <3>3. \A x \in Replied(s) : x \in Replied(s)'
      BY <1>1, <1>2, <2>2, <3>2
    <3>4. i \in Replied(s)'
      <4>1. Len(old) + 1 \in 1..Len(all)
        BY <1>0, <1>1
      <4> QED
        BY <1>1, <2>2, <4>1
    <3> QED
      BY <2>2, <3>1, <3>3, <3>4
  <2> QED
    BY <1>4, <2>1, <2>3 DEF old, Recorded
<1>6. CASE ~(Len(all) <= MaxHistory)
  <2>1. replies'[s] = Tail(all) /\ Len(old) >= MaxHistory /\ \A q \in Sess \ {s} : replies'[q] = replies[q]
    BY <1>0, <1>1, <1>3, <1>6
  <2>2. all # <<>>
    BY <1>0, <1>1
  <2>3. /\ Len(Tail(all)) = Len(old)
        /\ \A k \in 1..Len(old) : Tail(all)[k] = all[k + 1]
    BY <1>0, <1>1, <2>2, HeadTailProperties
  <2>4. Distinct(Tail(all))
    <3> SUFFICES ASSUME NEW j \in 1..Len(old), NEW k \in 1..Len(old), Tail(all)[j] = Tail(all)[k] PROVE j = k
      BY <2>3 DEF Distinct
    <3>1. j + 1 \in 1..Len(all) /\ k + 1 \in 1..Len(all)
      BY <1>0, <1>1
    <3>2. all[j + 1] = all[k + 1]
      BY <2>3
    <3>3. j + 1 = k + 1
      BY <1>4, <3>1, <3>2 DEF Distinct
    <3> QED
      BY <1>0, <3>3
  <2>5. 1 \in 1..Len(old) /\ all[1] = old[1] /\ all[1] \in Replied(s)
    BY <1>0, <1>1, <1>2, <2>1
  <2>6. Replied(s)' = {all[k + 1] : k \in 1..Len(old)}
    <3> DEFINE rest == Tail(all)
    <3>1. Replied(s)' = {rest[k] : k \in 1..Len(rest)}
      BY <2>1 DEF Replied
    <3> HIDE DEF rest
    <3>2. Len(rest) = Len(old) /\ \A k \in 1..Len(old) : rest[k] = all[k + 1]
      BY <2>3 DEF rest
    <3> QED
      BY <3>1, <3>2
  <2>7. Replied(s)' = (Replied(s) \cup {i}) \ {all[1]}
    <3>1. ASSUME NEW k \in 1..Len(old)
          PROVE  all[k + 1] \in Replied(s) \cup {i} /\ all[k + 1] # all[1]
      <4>1. k + 1 \in 1..Len(all) /\ 1 \in 1..Len(all) /\ k + 1 # 1
        BY <1>0, <1>1
      <4>2. all[k + 1] # all[1]
        BY <1>4, <4>1 DEF Distinct
      <4>3. CASE k = Len(old)
        BY <1>1, <4>2, <4>3
      <4>4. CASE k # Len(old)
        <5>1. k + 1 \in 1..Len(old)
          BY <1>0, <4>4
        <5> QED
          BY <1>1, <1>2, <4>2, <5>1
      <4> QED
        BY <4>3, <4>4
    <3>2. ASSUME NEW x \in Replied(s) \cup {i}, x # all[1]
          PROVE  \E k \in 1..Len(old) : x = all[k + 1]
      <4>0. ASSUME NEW k \in 1..Len(old) PROVE k \in 1..Len(old) + 1 /\ all[k] = old[k]
        BY <1>0, <1>1
      <4>3. Len(old) + 1 \in 1..Len(old) + 1 /\ all[Len(old) + 1] = i
        BY <1>0, <1>1
      <4>4. \E k \in 1..Len(old) + 1 : x = all[k]
        BY <1>2, <3>2, <4>0, <4>3
      <4>1. PICK k \in 1..Len(old) + 1 : x = all[k] /\ k # 1
        BY <3>2, <4>4
      <4>2. k - 1 \in 1..Len(old) /\ (k - 1) + 1 = k
        BY <1>0, <4>1
      <4> QED
        BY <4>1, <4>2
    <3> QED
      BY <2>6, <3>1, <3>2
  <2> QED
    BY <2>1, <2>4, <2>5, <2>7 DEF old, Recorded
<1> QED
  BY <1>5, <1>6

(* What is on the rest of a queue, and its head, is on the queue.          *)
LEMMA OnTail ==
  ASSUME NEW S, NEW q \in Seq(S), q # <<>>
  PROVE  On(q, Head(q)) /\ \A f : On(Tail(q), f) => On(q, f)
<1>1. /\ Len(q) \in Nat \ {0} /\ Len(Tail(q)) = Len(q) - 1 /\ Head(q) = q[1]
      /\ \A k \in 1..Len(q) - 1 : Tail(q)[k] = q[k + 1]
  BY HeadTailProperties, EmptySeq
<1>2. On(q, Head(q))
  BY <1>1 DEF On
<1>3. ASSUME NEW f, On(Tail(q), f) PROVE On(q, f)
  <2>1. PICK k \in 1..Len(q) - 1 : Tail(q)[k] = f
    BY <1>1, <1>3 DEF On
  <2>2. k + 1 \in 1..Len(q) /\ q[k + 1] = f
    BY <1>1, <2>1
  <2> QED
    BY <2>2 DEF On
<1> QED
  BY <1>2, <1>3

(* A queue of one frame holds no other, and an empty one holds none.       *)
LEMMA OnFew ==
  ASSUME NEW f
  PROVE  ~On(<<>>, f) /\ \A g : On(<<f>>, g) <=> g = f
<1>1. Len(<<f>>) = 1 /\ <<f>>[1] = f
  OBVIOUS
<1>2. \A g : On(<<f>>, g) <=> g = f
  BY <1>1 DEF On
<1>3. ~On(<<>>, f)
  BY DEF On
<1> QED
  BY <1>2, <1>3

(* What is replayed are replies that are in the history.                   *)
LEMMA OnSince ==
  ASSUME TypeOK, NEW s \in Sess, NEW after, NEW f, On(Since(s, after), f)
  PROVE  \E i \in Replied(s) : f = Reply(i)
<1> DEFINE missed == {k \in 1..Len(replies[s]) : replies[s][k] > after}
           c == Cardinality(missed)
           q == InOrder(missed)
           r == [k \in 1..c |-> Reply(replies[s][q[k]])]
<1>1. Len(replies[s]) \in Nat /\ missed \in SUBSET (1..Len(replies[s]))
  BY DEF TypeOK
<1>2. Since(s, after) = r
  BY DEF Since
<1> HIDE DEF missed
<1>3. c \in Nat /\ q \in [1..c -> missed]
  BY <1>1, Counted, InOrderIs
<1> HIDE DEF c, q
<1>4. r \in Seq({Reply(replies[s][q[k]]) : k \in 1..c}) /\ Len(r) = c
  <2>1. r \in [1..c -> {Reply(replies[s][q[k]]) : k \in 1..c}]
    OBVIOUS
  <2>2. c \in Nat
    BY <1>3
  <2> QED
    BY <2>1, <2>2, ListOf
<1>5. PICK k \in 1..c : f = Reply(replies[s][q[k]])
  BY <1>2, <1>4 DEF On
<1>6. replies[s][q[k]] \in Replied(s)
  BY <1>1, <1>3 DEF Replied
<1> QED
  BY <1>5, <1>6

(* What is resent are calls.                                               *)
LEMMA OnCallFrames ==
  ASSUME NEW ids \in SUBSET Id, NEW f, On(CallFrames(ids), f)
  PROVE  f.t = "call"
<1> DEFINE c == Cardinality(ids)
           q == InOrder(ids)
           r == [k \in 1..c |-> CallOf(q[k])]
<1>1. CallFrames(ids) = r
  BY DEF CallFrames, CallOf
<1>2. c \in Nat
  <2>1. MaxCalls \in Nat /\ ids \in SUBSET (1..MaxCalls)
    BY BoundAssumption DEF Id
  <2> QED
    BY <2>1, Counted
<1> HIDE DEF c, q
<1>3. r \in Seq({CallOf(q[k]) : k \in 1..c}) /\ Len(r) = c
  <2>1. r \in [1..c -> {CallOf(q[k]) : k \in 1..c}]
    OBVIOUS
  <2> QED
    BY <1>2, <2>1, ListOf
<1>4. PICK k \in 1..c : f = CallOf(q[k])
  BY <1>1, <1>3 DEF On
<1> QED
  BY <1>4 DEF CallOf

Awaits(p, s) ==
  \A v \in running' : \A q \in v.to :
    (q = p /\ v.sess = s) \/ \E w \in running : w.sess = v.sess /\ q \in w.to

RunsOnlyIn(s) ==
  \A t \in Sess, j \in Id : runs'[t][j] >= runs[t][j] /\ (t # s => runs'[t][j] = runs[t][j])

(* What a call frame does to the executions: each has the pipes it had, or *)
(* this one too if it runs the call of this pipe's session; none is of     *)
(* another session, and only there a call is executed once more.           *)
LEMMA OnCallTakes ==
  ASSUME TypeOK, NEW p \in Pipe, NEW i \in Id, NEW s \in Sess, s = session[p], OnCall(p, i)
  PROVE  /\ Awaits(p, s) /\ RunsOnlyIn(s)
         /\ down'[p] = down[p] \/ (down'[p] = down[p] \o <<Reply(i)>> /\ i \in Replied(s))
<1>1. /\ running \subseteq Execution /\ runs \in [Sess -> [Id -> 0..MaxRuns]]
      /\ down \in [Pipe -> Seq(Frame)] /\ MaxRuns \in Nat
  BY BoundAssumption DEF TypeOK, Execution
<1>2. CASE s \in store /\ i \in Replied(s) /\ Send(p, <<Reply(i)>>) /\ UNCHANGED <<running, runs>>
  <2>1. <<Reply(i)>> \in Seq(Frame)
    BY DEF Reply, Frame
  <2>2. \A t \in Sess, j \in Id : runs[t][j] >= runs[t][j]
    BY <1>1
  <2> QED
    BY <1>2, <2>1, <2>2, SendIs DEF Awaits, RunsOnlyIn
<1>3. CASE /\ InFlight(s, i) # {} /\ UNCHANGED <<runs, down>>
           /\ running' = {IF w \in InFlight(s, i) THEN [w EXCEPT !.to = @ \cup {p}] ELSE w : w \in running}
  <2>1. ASSUME NEW v \in running'
        PROVE  \/ v \in running
               \/ v.sess = s /\ v.id = i /\ \E w \in running : w.sess = s /\ v.to = w.to \cup {p}
    <3>1. PICK w \in running : v = IF w \in InFlight(s, i) THEN [w EXCEPT !.to = @ \cup {p}] ELSE w
      BY <1>3
    <3>2. CASE w \in InFlight(s, i)
      <4>1. /\ [w EXCEPT !.to = @ \cup {p}].sess = w.sess /\ [w EXCEPT !.to = @ \cup {p}].id = w.id
            /\ [w EXCEPT !.to = @ \cup {p}].to = w.to \cup {p}
        BY <1>1 DEF Execution
      <4> QED
        BY <3>1, <3>2, <4>1 DEF InFlight
    <3>3. CASE w \notin InFlight(s, i)
      BY <3>1, <3>3
    <3> QED
      BY <3>2, <3>3
  <2>2. \A t \in Sess, j \in Id : runs[t][j] >= runs[t][j]
    BY <1>1
  <2> QED
    BY <1>3, <2>1, <2>2 DEF Awaits, RunsOnlyIn
<1>4. CASE /\ runs[s][i] < MaxRuns /\ runs' = [runs EXCEPT ![s][i] = @ + 1] /\ UNCHANGED down
           /\ running' = running \cup {[sess |-> s, id |-> i, run |-> runs'[s][i], to |-> {p}]}
  <2>1. RunsOnlyIn(s)
    BY <1>1, <1>4 DEF RunsOnlyIn
  <2>2. \A v \in running' : v \in running \/ (v.sess = s /\ v.id = i /\ v.to = {p})
    BY <1>4
  <2> QED
    BY <1>4, <2>1, <2>2 DEF Awaits
<1> QED
  BY <1>2, <1>3, <1>4 DEF OnCall

(* A freshly minted session runs nothing and has no replies.               *)
LEMMA MintedIsIdle ==
  ASSUME PipeInv, RoomInv, CallInv, ExecInv, Mint
  PROVE  /\ \A i \in Id : runs[minted'][i] = 0
         /\ \A w \in running : w.sess # minted'
         /\ Replied(minted') = {} /\ replies' = replies
<1>1. minted' \in Sess /\ minted' > minted /\ replies' = replies
  <2>1. minted' = minted + 1 /\ minted' \in Sess /\ replies' = replies /\ minted \in Nat
    BY MintIs, SMTT(30) DEF PipeInv, TypeOK
  <2> QED
    BY <2>1
<1>2. \A i \in Id : runs[minted'][i] = 0
  BY <1>1 DEF CallInv
<1>3. running \subseteq Execution /\ replies \in [Sess -> Seq(Id)]
  BY DEF PipeInv, TypeOK, Execution
<1>4. ASSUME NEW w \in running PROVE w.sess # minted'
  <2>1. runs[w.sess][w.id] > 0 /\ w.id \in Id
    BY <1>3 DEF ExecInv, Execution
  <2> QED
    BY <1>2, <2>1
<1>5. ASSUME NEW i \in Replied(minted') PROVE FALSE
  <2>1. i \in Id
    BY <1>1, <1>3, ElementOfSeq DEF Replied
  <2> QED
    BY <1>1, <1>2, <1>5, <2>1 DEF ExecInv
<1> QED
  BY <1>1, <1>2, <1>4, <1>5

(* One step keeps ExecInv.                                                 *)
LEMMA ExecStep == PipeInv /\ RoomInv /\ CallInv /\ ExecInv /\ [Next]_vars => ExecInv'
<1> SUFFICES ASSUME PipeInv, RoomInv, CallInv, ExecInv, [Next]_vars PROVE ExecInv'
  OBVIOUS
<1>0. /\ TypeOK /\ running \subseteq Execution /\ runs \in [Sess -> [Id -> 0..MaxRuns]]
      /\ replies \in [Sess -> Seq(Id)] /\ session \in [Pipe -> Sess \cup {None}]
      /\ store \subseteq 1..minted /\ store \subseteq Sess /\ minted \in Nat /\ MaxRuns \in Nat
      /\ None \notin Nat /\ 1..minted \subseteq Sess
  <2>1. minted \in 0..MaxMinted /\ MaxMinted \in Nat
    BY BoundAssumption DEF PipeInv, TypeOK
  <2>2. 1..minted \subseteq Sess
    BY <2>1 DEF Sess
  <2>3. TypeOK /\ store \subseteq 1..minted
    BY DEF PipeInv
  <2>4. /\ running \subseteq Execution /\ runs \in [Sess -> [Id -> 0..MaxRuns]]
        /\ replies \in [Sess -> Seq(Id)] /\ session \in [Pipe -> Sess \cup {None}] /\ store \subseteq Sess
    BY <2>3 DEF TypeOK, Execution
  <2> QED
    BY <2>1, <2>2, <2>3, <2>4, BoundAssumption, PipeAssumption
<1>a. /\ \A w \in running : runs[w.sess][w.id] > 0 /\ \A p \in w.to : session[p] # None
      /\ \A s \in Sess : \A i \in Replied(s) : runs[s][i] > 0
      /\ \A s \in store : Once(s)
  BY DEF ExecInv
<1>1. ASSUME store' \subseteq store, UNCHANGED <<running, runs, replies>>,
             \A p \in Pipe : session[p] # None => session'[p] # None
      PROVE  ExecInv'
  <2>1. \A w \in running' : runs'[w.sess][w.id] > 0 /\ \A p \in w.to : session'[p] # None
    BY <1>0, <1>a, <1>1 DEF Execution
  <2>2. \A s \in Sess : \A i \in Replied(s)' : runs'[s][i] > 0
    BY <1>a, <1>1 DEF Replied
  <2>3. \A s \in store' : Once(s)'
    BY <1>a, <1>1 DEF Once, Replied
  <2> QED
    BY <2>1, <2>2, <2>3 DEF ExecInv
<1>2. ASSUME NEW p \in Pipe, Handle(p), Head(up[p]).t = "resume" PROVE ExecInv'
  <2>1. up[p] # <<>> /\ OnResume(p, Head(up[p])) /\ UNCHANGED <<minted, replies, callVars>>
    BY <1>2 DEF Handle
  <2>2. PICK f : f = Head(up[p]) /\ f.sess \in Sess
    BY <1>0, <1>2, <2>1, UpHead
  <2>3. session[p] \in 1..minted
    BY <2>1 DEF PipeInv
  <2>4. store' \subseteq store /\ session'[p] \in 1..minted /\ \A q \in Pipe \ {p} : session'[q] = session[q]
    BY <1>0, <2>1, <2>2, <2>3, OnResumeIs
  <2>5. \A q \in Pipe : session[q] # None => session'[q] # None
    BY <1>0, <2>4
  <2> QED
    BY <1>1, <2>1, <2>4, <2>5 DEF callVars
<1>3. ASSUME NEW p \in Pipe, Handle(p), Head(up[p]).t = "call" PROVE ExecInv'
  <2>1. up[p] # <<>> /\ OnCall(p, Head(up[p]).id) /\ UNCHANGED <<storeVars, trimmed, session>>
    BY <1>3 DEF Handle
  <2>2. PICK i \in Id : i = Head(up[p]).id
    BY <1>0, <1>3, <2>1, UpHead
  <2>3. PICK s \in Sess : s = session[p] /\ s # None
    <3>1. session[p] \in 1..minted
      BY <2>1 DEF PipeInv
    <3> QED
      BY <1>0, <3>1
  <2>4. OnCall(p, i)
    BY <2>1, <2>2
  <2>5. /\ Awaits(p, s) /\ RunsOnlyIn(s)
        /\ running' \subseteq Execution /\ runs' \in [Sess -> [Id -> 0..MaxRuns]]
    <3>1. session[p] \in Sess
      BY <2>3
    <3>2. running' \subseteq Execution /\ runs' \in [Sess -> [Id -> 0..MaxRuns]]
      BY <1>0, <2>4, <3>1, OnCallIs
    <3>3. Awaits(p, s) /\ RunsOnlyIn(s)
      BY <1>0, <2>3, <2>4, OnCallTakes
    <3> QED
      BY <3>2, <3>3
  <2>6. /\ store' = store /\ replies' = replies /\ session' = session
        /\ \A t \in Sess : Replied(t)' = Replied(t)
    BY <2>1 DEF storeVars, Replied
  <2>7. \A t \in Sess, j \in Id : runs[t][j] > 0 => runs'[t][j] > 0
    BY <1>0, <2>5 DEF RunsOnlyIn
  <2>8. \A t \in Sess : \A j \in Replied(t)' : runs'[t][j] > 0
    <3>1. ASSUME NEW t \in Sess, NEW j \in Replied(t) PROVE j \in Id
      BY <1>0, ElementOfSeq DEF Replied
    <3> QED
      BY <1>a, <2>6, <2>7, <3>1
  <2>9. \A v \in running' : \A q \in v.to : session'[q] # None
    BY <1>a, <2>3, <2>5, <2>6 DEF Awaits
  <2>10. CASE s \in store /\ i \in Replied(s) /\ UNCHANGED <<running, runs>>
    BY <1>1, <2>6, <2>10
  <2>11. CASE /\ InFlight(s, i) # {} /\ UNCHANGED runs
              /\ running' = {IF w \in InFlight(s, i) THEN [w EXCEPT !.to = @ \cup {p}] ELSE w : w \in running}
    <3>1. ASSUME NEW v \in running'
          PROVE  \E w \in running : /\ v = IF w \in InFlight(s, i) THEN [w EXCEPT !.to = @ \cup {p}] ELSE w
                                   /\ v.sess = w.sess /\ v.id = w.id
      <4>1. PICK w \in running : v = IF w \in InFlight(s, i) THEN [w EXCEPT !.to = @ \cup {p}] ELSE w
        BY <2>11
      <4>2. [w EXCEPT !.to = @ \cup {p}].sess = w.sess /\ [w EXCEPT !.to = @ \cup {p}].id = w.id
        BY <1>0 DEF Execution
      <4> QED
        BY <4>1, <4>2
    <3>2. \A v \in running' : runs'[v.sess][v.id] > 0
      BY <1>a, <2>11, <3>1
    <3>3. ASSUME NEW t \in store PROVE Once(t)'
      <4>1. Once(t)
        BY <1>a
      <4>2. ASSUME NEW v \in running', NEW u \in running', v.sess = t, u.sess = t, v.id = u.id PROVE v = u
        <5>1. PICK w \in running : /\ v = IF w \in InFlight(s, i) THEN [w EXCEPT !.to = @ \cup {p}] ELSE w
                                   /\ v.sess = w.sess /\ v.id = w.id
          BY <3>1
        <5>2. PICK x \in running : /\ u = IF x \in InFlight(s, i) THEN [x EXCEPT !.to = @ \cup {p}] ELSE x
                                   /\ u.sess = x.sess /\ u.id = x.id
          BY <3>1
        <5>3. w = x
          BY <4>1, <4>2, <5>1, <5>2 DEF Once
        <5> QED
          BY <5>1, <5>2, <5>3
      <4>3. \A v \in running' : v.sess = t => v.id \notin Replied(t)
        BY <3>1, <4>1 DEF Once
      <4> QED
        BY <1>0, <2>6, <4>1, <4>2, <4>3 DEF Once
    <3> QED
      BY <2>6, <2>8, <2>9, <3>2, <3>3 DEF ExecInv
  <2>12. CASE /\ ~(s \in store /\ i \in Replied(s)) /\ InFlight(s, i) = {}
              /\ runs' = [runs EXCEPT ![s][i] = @ + 1]
              /\ running' = running \cup {[sess |-> s, id |-> i, run |-> runs'[s][i], to |-> {p}]}
    <3> DEFINE new == [sess |-> s, id |-> i, run |-> runs'[s][i], to |-> {p}]
    <3>1. new.sess = s /\ new.id = i /\ running' = running \cup {new}
      BY <2>12
    <3> HIDE DEF new
    <3>2. runs'[s][i] > 0
      <4>1. runs'[s][i] = runs[s][i] + 1 /\ runs[s][i] \in Nat
        BY <1>0, <2>2, <2>3, <2>12
      <4> QED
        BY <4>1
    <3>3. \A v \in running' : runs'[v.sess][v.id] > 0
      BY <1>0, <1>a, <2>7, <3>1, <3>2 DEF Execution
    <3>4. ASSUME NEW t \in store PROVE Once(t)'
      <4>1. Once(t)
        BY <1>a
      <4>2. t = s => i \notin Replied(s) /\ \A w \in running : ~(w.sess = s /\ w.id = i)
        BY <2>12 DEF InFlight
      <4>3. \A v, u \in running' : v.sess = t /\ u.sess = t /\ v.id = u.id => v = u
        BY <3>1, <4>1, <4>2 DEF Once
      <4>4. \A v \in running' : v.sess = t => v.id \notin Replied(t)
        BY <3>1, <4>1, <4>2 DEF Once
      <4> QED
        BY <1>0, <2>6, <4>1, <4>3, <4>4 DEF Once
    <3> QED
      BY <2>6, <2>8, <2>9, <3>3, <3>4 DEF ExecInv
  <2> QED
    BY <2>3, <2>4, <2>10, <2>11, <2>12 DEF OnCall
<1>4. ASSUME NEW p \in Pipe, PipeDies(p) PROVE ExecInv'
  <2>1. /\ session' = [session EXCEPT ![p] = None]
        /\ running' = {[w EXCEPT !.to = @ \ {p}] : w \in running}
        /\ UNCHANGED <<storeVars, runs>>
    BY <1>4 DEF PipeDies, Closing
  <2>2. ASSUME NEW v \in running'
        PROVE  \E w \in running : v = [w EXCEPT !.to = @ \ {p}] /\ v.sess = w.sess /\ v.id = w.id /\ v.to = w.to \ {p}
    <3>1. PICK w \in running : v = [w EXCEPT !.to = @ \ {p}]
      BY <2>1
    <3>2. v.sess = w.sess /\ v.id = w.id /\ v.to = w.to \ {p}
      BY <1>0, <3>1 DEF Execution
    <3> QED
      BY <3>1, <3>2
  <2>3. ASSUME NEW v \in running' PROVE runs'[v.sess][v.id] > 0 /\ \A q \in v.to : session'[q] # None
    <3>1. PICK w \in running : v.sess = w.sess /\ v.id = w.id /\ v.to = w.to \ {p}
      BY <2>2
    <3>2. \A q \in w.to : q \in Pipe
      BY <1>0 DEF Execution
    <3> QED
      BY <1>0, <1>a, <2>1, <3>1, <3>2
  <2>4. \A s \in Sess : \A i \in Replied(s)' : runs'[s][i] > 0
    BY <1>a, <2>1 DEF Replied, storeVars
  <2>5. ASSUME NEW s \in store' PROVE Once(s)'
    <3>1. Once(s) /\ replies' = replies
      BY <1>a, <2>1 DEF storeVars
    <3>2. ASSUME NEW v \in running', NEW u \in running', v.sess = s, u.sess = s, v.id = u.id PROVE v = u
      <4>1. PICK w \in running : v = [w EXCEPT !.to = @ \ {p}] /\ v.sess = w.sess /\ v.id = w.id
        BY <2>2
      <4>2. PICK x \in running : u = [x EXCEPT !.to = @ \ {p}] /\ u.sess = x.sess /\ u.id = x.id
        BY <2>2
      <4>3. w = x
        BY <3>1, <3>2, <4>1, <4>2 DEF Once
      <4> QED
        BY <4>1, <4>2, <4>3
    <3>3. ASSUME NEW v \in running', v.sess = s PROVE v.id \notin Replied(s)'
      <4>1. PICK w \in running : v.sess = w.sess /\ v.id = w.id
        BY <2>2
      <4> QED
        BY <3>1, <3>3, <4>1 DEF Once, Replied
    <3> QED
      BY <3>1, <3>2, <3>3 DEF Once
  <2> QED
    BY <2>3, <2>4, <2>5 DEF ExecInv
<1>5. ASSUME Mint, UNCHANGED callVars, \A p \in Pipe : session'[p] = session[p] \/ session'[p] = minted'
      PROVE  ExecInv'
  <2>1. /\ store' \subseteq store \cup {minted'} /\ minted' \in Nat /\ minted' \in Sess
        /\ \A w \in running : w.sess # minted'
        /\ Replied(minted') = {} /\ replies' = replies /\ UNCHANGED <<running, runs>>
    BY <1>5, MintIs, MintedIsIdle DEF callVars, Sess
  <2>2. ASSUME NEW w \in running PROVE runs[w.sess][w.id] > 0 /\ \A p \in w.to : session'[p] # None
    <3>1. \A p \in w.to : p \in Pipe
      BY <1>0 DEF Execution
    <3> QED
      BY <1>0, <1>a, <1>5, <2>1, <3>1
  <2>3. \A s \in Sess : \A i \in Replied(s)' : runs'[s][i] > 0
    BY <1>a, <2>1 DEF Replied
  <2>4. ASSUME NEW s \in store' PROVE Once(s)'
    <3>1. CASE s = minted'
      <4>1. ASSUME NEW k \in 1..Len(replies[s]) PROVE FALSE
        <5>1. replies[s][k] \in Replied(s)
          BY DEF Replied
        <5>2. Replied(s) = {}
          BY <2>1, <3>1
        <5> QED
          BY <5>1, <5>2
      <4>2. Distinct(replies[s])
        BY <4>1 DEF Distinct
      <4> QED
        BY <2>1, <3>1, <4>2 DEF Once
    <3>2. CASE s # minted'
      BY <1>a, <2>1, <3>2 DEF Once, Replied
    <3> QED
      BY <3>1, <3>2
  <2> QED
    BY <2>1, <2>2, <2>3, <2>4 DEF ExecInv
<1>6. ASSUME NEW p \in Pipe, Connect(p) PROVE ExecInv'
  <2>1. Mint /\ session' = [session EXCEPT ![p] = minted'] /\ UNCHANGED callVars
    BY <1>6 DEF Connect
  <2> QED
    BY <1>0, <1>5, <2>1
<1>7. CASE OtherOpens
  BY <1>5, <1>7 DEF OtherOpens
<1>8. ASSUME NEW w \in running, Finish(w) PROVE ExecInv'
  <2>1. /\ running' = running \ {w} /\ Record(w.sess, w.id) /\ UNCHANGED <<store, runs, session>>
    BY <1>8 DEF Finish
  <2>2. PICK s \in Sess, i \in Id : s = w.sess /\ i = w.id
    BY <1>0 DEF Execution
  <2>3. \A v \in running' : runs'[v.sess][v.id] > 0 /\ \A q \in v.to : session'[q] # None
    BY <1>a, <2>1
  <2>4. CASE s \notin store
    <3>1. replies' = replies
      BY <2>1, <2>2, <2>4 DEF Record
    <3>2. \A t \in Sess : \A j \in Replied(t)' : runs'[t][j] > 0
      BY <1>a, <2>1, <3>1 DEF Replied
    <3>3. \A t \in store : Once(t)'
      BY <1>a, <2>1, <3>1 DEF Once, Replied
    <3> QED
      BY <2>1, <2>3, <3>2, <3>3 DEF ExecInv
  <2>5. CASE s \in store
    <3>1. i \notin Replied(s) /\ Distinct(replies[s])
      BY <1>a, <2>2, <2>5 DEF Once
    <3>2. /\ Distinct(replies'[s])
          /\ Replied(s)' \subseteq Replied(s) \cup {i}
          /\ \A q \in Sess \ {s} : replies'[q] = replies[q]
      <4>1. Record(s, i)
        BY <2>1, <2>2
      <4>2. Recorded(s, i)
        BY <1>0, <2>5, <3>1, <4>1, RecordOnce
      <4> QED
        BY <4>2 DEF Recorded
    <3>5. \A t \in Sess \ {s} : Replied(t)' = Replied(t)
      BY <3>2 DEF Replied
    <3>3. \A t \in Sess : \A j \in Replied(t)' : runs'[t][j] > 0
      BY <1>a, <2>1, <2>2, <3>2, <3>5
    <3>4. ASSUME NEW t \in store PROVE Once(t)'
      <4>1. Once(t)
        BY <1>a
      <4>2. CASE t = s
        <5>1. \A v \in running' : v.sess = s => v.id \notin Replied(s)'
          BY <2>1, <2>2, <3>2, <4>1, <4>2 DEF Once
        <5> QED
          BY <2>1, <3>2, <4>1, <4>2, <5>1 DEF Once
      <4>3. CASE t # s
        BY <1>0, <2>1, <3>2, <3>5, <4>1, <4>3 DEF Once
      <4> QED
        BY <4>2, <4>3
    <3> QED
      BY <2>1, <2>3, <3>3, <3>4 DEF ExecInv
  <2> QED
    BY <2>4, <2>5
<1>9. CASE Tick \/ Receive \/ Call \/ LoseSocket \/ UNCHANGED vars
  BY <1>1, <1>9 DEF Tick, Receive, Call, LoseSocket, vars, storeVars, callVars
<1>10. ASSUME NEW p \in Pipe, Handle(p) PROVE ExecInv'
  BY <1>2, <1>3, <1>10 DEF Handle
<1> QED
  BY <1>4, <1>6, <1>7, <1>8, <1>9, <1>10 DEF Next

(* What is on a queue is of the queue's kind.                              *)
LEMMA OnKind ==
  ASSUME NEW S, NEW q \in Seq(S), NEW f, On(q, f)
  PROVE  f \in S
BY ElementOfSeq DEF On

(* A queue that is worked off names no session it did not name; one that   *)
(* takes a frame names that frame's.                                       *)
LEMMA NamedLess ==
  ASSUME NEW S, NEW q \in Seq(S), q # <<>>
  PROVE  /\ \A s : Named(Tail(q), s) => Named(q, s)
         /\ Head(q).t = "resume" => Named(q, Head(q).sess)
BY OnTail DEF Named

(* The session the client's pipe was given stays untouched as long as      *)
(* nobody takes it up.                                                     *)
LEMMA UntouchedStays ==
  ASSUME NEW s \in Sess, Untouched(s), mine' = mine, cur' = cur,
         \A i \in Id : runs'[s][i] = runs[s][i],
         \A p \in Pipe : p # cur => session'[p] = session[p] \/ session'[p] # s,
         \A p \in Pipe : Named(up'[p], s) => Named(up[p], s)
  PROVE  Untouched(s)'
BY DEF Untouched

(* Answers stay answers of executed calls.                                 *)
LEMMA HonestStays ==
  ASSUME NEW q \in Seq(Frame), Honest(q), mine' = mine,
         \A i \in Id : runs[mine][i] > 0 => runs'[mine][i] > 0
  PROVE  Honest(q)'
<1>1. ASSUME NEW f, On(q, f) PROVE f.t = "reply" /\ runs'[mine'][f.id] > 0
  <2>1. f \in Frame /\ f.t = "reply" /\ runs[mine][f.id] > 0
    BY <1>1, OnKind DEF Honest
  <2>2. f.id \in Id
    BY <2>1 DEF Frame
  <2> QED
    BY <2>1, <2>2
<1> QED
  BY <1>1 DEF Honest

(* What does not touch the client, its queues or its session keeps what    *)
(* the handshake relies on.                                                *)
LEMMA HandStays ==
  ASSUME PipeInv, HandInv, cur \in Pipe, UNCHANGED <<mine, mode, cur>>,
         up'[cur] = up[cur], down'[cur] = down[cur], session'[cur] = session[cur],
         \A v \in running' : cur \in v.to => \E w \in running : w.sess = v.sess /\ cur \in w.to,
         \A t \in Sess, i \in Id : runs[t][i] > 0 => runs'[t][i] > 0,
         \A s \in Sess : s = session[cur] /\ Untouched(s) => Untouched(s)'
  PROVE  HandInv'
<1>1. PICK s \in Sess : s = session[cur]
  <2>1. session[cur] \in 1..minted /\ minted \in 0..MaxMinted
    BY DEF PipeInv, TypeOK
  <2> QED
    BY <2>1, BoundAssumption DEF Sess
<1>2. session'[cur'] = s /\ up'[cur'] = up[cur] /\ down'[cur'] = down[cur] /\ down[cur] \in Seq(Frame)
  BY <1>1 DEF PipeInv, TypeOK
<1>3. NobodyFor(cur) => NobodyFor(cur)'
  BY DEF NobodyFor
<1>4. Untouched(session[cur]) => Untouched(session[cur])'
  BY <1>1, <1>2
<1>5. ASSUME NEW q \in Seq(Frame), Honest(q), s = mine PROVE Honest(q)'
  BY <1>5, HonestStays
<1>6. Hello => Hello'
  BY <1>2, <1>3, <1>4 DEF Hello
<1>7. Asked => Asked'
  BY <1>2, <1>3, <1>4 DEF Asked
<1>8. Refused => Refused'
  BY <1>2, <1>3, <1>4 DEF Refused
<1>9. Granted => Granted'
  <2>1. SUFFICES ASSUME Granted PROVE Granted'
    OBVIOUS
  <2>2. Tail(down[cur]) \in Seq(Frame)
    BY <1>2, <2>1, HeadTailProperties DEF Granted
  <2>3. Honest(Tail(down[cur]))'
    BY <1>1, <1>2, <1>5, <2>1, <2>2 DEF Granted
  <2> QED
    BY <1>1, <1>2, <1>3, <2>1, <2>3 DEF Granted
<1>10. Ready => Ready'
  <2>1. SUFFICES ASSUME Ready PROVE Ready'
    OBVIOUS
  <2>2. Honest(down[cur])'
    BY <1>1, <1>2, <1>5, <2>1 DEF Ready
  <2>3. \A v \in running' : cur \in v.to => v.sess = mine
    BY <2>1 DEF Ready
  <2> QED
    BY <1>1, <1>2, <2>1, <2>2, <2>3 DEF Ready
<1> QED
  BY <1>6, <1>7, <1>8, <1>9, <1>10 DEF HandInv

(* What the next frame for the client tells of the handshake.              *)
LEMMA HeadTells ==
  ASSUME PipeInv, HandInv, cur # None, down[cur] # <<>>
  PROVE  /\ Head(down[cur]).t = "ready" =>
              mode = "hello" /\ Hello /\ Head(down[cur]).sess = session[cur] /\ Tail(down[cur]) = <<>>
         /\ Head(down[cur]).t = "resumeFailed" =>
              mode = "resuming" /\ mine # None /\ Refused
              /\ Head(down[cur]).sess = session[cur] /\ Tail(down[cur]) = <<>>
         /\ Head(down[cur]).t = "resumed" => mode = "resuming" /\ mine # None /\ Granted
         /\ Head(down[cur]).t = "reply" => mode = "ready" /\ Ready /\ runs[mine][Head(down[cur]).id] > 0
<1> DEFINE f == Head(down[cur])
<1>1. mode \in {"hello", "resuming", "ready"} /\ down[cur] \in Seq(Frame)
  BY DEF PipeInv, TypeOK
<1>2. \A x : Head(<<x>>) = x /\ Tail(<<x>>) = <<>>
  OBVIOUS
<1>3. CASE mode = "hello"
  <2>1. Hello /\ f = [t |-> "ready", sess |-> session[cur]] /\ Tail(down[cur]) = <<>>
    BY <1>2, <1>3 DEF HandInv, Hello
  <2> HIDE DEF f
  <2>2. f.t = "ready" /\ f.sess = session[cur]
    BY <2>1
  <2> QED
    BY <1>3, <2>1, <2>2 DEF f
<1>4. CASE mode = "resuming"
  <2>1. mine # None /\ (Refused \/ Granted)
    BY <1>4 DEF HandInv, Asked
  <2>2. CASE Refused
    <3>1. f = [t |-> "resumeFailed", sess |-> session[cur]] /\ Tail(down[cur]) = <<>>
      BY <1>2, <2>2 DEF Refused
    <3> HIDE DEF f
    <3>2. f.t = "resumeFailed" /\ f.sess = session[cur]
      BY <3>1
    <3> QED
      BY <1>4, <2>1, <2>2, <3>1, <3>2 DEF f
  <2>3. CASE Granted
    <3>1. f.t = "resumed"
      BY <2>3 DEF Granted
    <3> QED
      BY <1>4, <2>1, <2>3, <3>1
  <2> QED
    BY <2>1, <2>2, <2>3
<1>5. CASE mode = "ready"
  <2>1. Ready
    BY <1>5 DEF HandInv
  <2>2. f.t = "reply" /\ runs[mine][f.id] > 0
    BY <1>1, <2>1, OnTail DEF Ready, Honest
  <2> QED
    BY <1>5, <2>1, <2>2
<1> QED
  BY <1>1, <1>3, <1>4, <1>5

(* What the queues and pipes name is minted, in every case of a step that  *)
(* leaves the client alone.                                                *)
LEMMA KnownStays ==
  ASSUME Known, UNCHANGED <<mine, answered>>, minted \in Nat, minted' \in Nat, minted <= minted',
         \A p \in Pipe : session'[p] = session[p] \/ session'[p] \in 1..minted' \cup {None},
         \A p \in Pipe, s \in Sess : Named(up'[p], s) => Named(up[p], s)
  PROVE  Known'
<1>1. 1..minted \subseteq 1..minted'
  OBVIOUS
<1>2. mine' \in 1..minted' \cup {None} /\ (mine' = None => answered' = {})
  BY <1>1 DEF Known
<1>3. \A p \in Pipe : session'[p] \in 1..minted' \cup {None}
  BY <1>1 DEF Known
<1>4. \A p \in Pipe, s \in Sess : Named(up'[p], s) => s \in 1..minted'
  BY <1>1 DEF Known
<1> QED
  BY <1>2, <1>3, <1>4 DEF Known

(* A queue that took frames names what it named and what they name.        *)
LEMMA NamedMore ==
  ASSUME NEW S, NEW q \in Seq(S), NEW r \in Seq(S), NEW s
  PROVE  Named(q \o r, s) <=> Named(q, s) \/ Named(r, s)
BY OnMore DEF Named

(* One step keeps Known.                                                   *)
LEMMA KnownStep == PipeInv /\ PipeInv' /\ RoomInv /\ HandInv /\ Known /\ [Next]_vars => Known'
<1> SUFFICES ASSUME PipeInv, PipeInv', RoomInv, HandInv, Known, [Next]_vars PROVE Known'
  OBVIOUS
<1>0. /\ TypeOK /\ minted \in Nat /\ minted' \in Nat
      /\ session \in [Pipe -> Sess \cup {None}]
      /\ up \in [Pipe -> Seq(Request)] /\ down \in [Pipe -> Seq(Frame)]
      /\ None \notin Nat /\ mine \in Sess \cup {None}
      /\ \A p \in Pipe : up[p] # <<>> \/ p = cur => session[p] \in 1..minted
  <2>1. TypeOK /\ TypeOK' /\ \A p \in Pipe : up[p] # <<>> \/ p = cur => session[p] \in 1..minted
    BY DEF PipeInv
  <2>2. minted \in 0..MaxMinted /\ minted' \in 0..MaxMinted
    BY <2>1 DEF TypeOK
  <2>3. /\ session \in [Pipe -> Sess \cup {None}] /\ mine \in Sess \cup {None}
        /\ up \in [Pipe -> Seq(Request)] /\ down \in [Pipe -> Seq(Frame)]
    BY <2>1 DEF TypeOK
  <2> QED
    BY <2>1, <2>2, <2>3, PipeAssumption
<1>1. ASSUME UNCHANGED <<mine, answered, minted, session, up>> PROVE Known'
  BY <1>0, <1>1, KnownStays
<1>2. ASSUME NEW p \in Pipe, up[p] # <<>>, up' = [up EXCEPT ![p] = Tail(@)]
      PROVE  \A q \in Pipe, s \in Sess : Named(up'[q], s) => Named(up[q], s)
  <2>1. \A s : Named(Tail(up[p]), s) => Named(up[p], s)
    BY <1>0, <1>2, NamedLess
  <2> QED
    BY <1>0, <1>2, <2>1
<1>3. ASSUME NEW p \in Pipe, Handle(p), Head(up[p]).t = "resume" PROVE Known'
  <2>1. /\ up[p] # <<>> /\ up' = [up EXCEPT ![p] = Tail(@)] /\ OnResume(p, Head(up[p]))
        /\ UNCHANGED <<minted, clientVars>>
    BY <1>3 DEF Handle
  <2>2. PICK f : f = Head(up[p]) /\ f.sess \in Sess
    BY <1>0, <1>3, <2>1, UpHead
  <2>3. session[p] \in 1..minted /\ store \subseteq 1..minted
    BY <1>0, <2>1 DEF PipeInv
  <2>4. session'[p] \in 1..minted /\ \A q \in Pipe \ {p} : session'[q] = session[q]
    BY <1>0, <2>1, <2>2, <2>3, OnResumeIs
  <2>5. \A q \in Pipe : session'[q] = session[q] \/ session'[q] \in 1..minted' \cup {None}
    BY <2>1, <2>4
  <2>6. \A q \in Pipe, s \in Sess : Named(up'[q], s) => Named(up[q], s)
    BY <1>2, <2>1
  <2> QED
    BY <1>0, <2>1, <2>5, <2>6, KnownStays DEF clientVars
<1>4. ASSUME NEW p \in Pipe, Handle(p), Head(up[p]).t = "call" PROVE Known'
  <2>1. /\ up[p] # <<>> /\ up' = [up EXCEPT ![p] = Tail(@)]
        /\ UNCHANGED <<minted, session, clientVars>>
    BY <1>4 DEF Handle, storeVars
  <2>2. \A q \in Pipe, s \in Sess : Named(up'[q], s) => Named(up[q], s)
    BY <1>2, <2>1
  <2> QED
    BY <1>0, <2>1, <2>2, KnownStays DEF clientVars
<1>5. ASSUME NEW p \in Pipe, PipeDies(p) PROVE Known'
  <2>1. /\ session' = [session EXCEPT ![p] = None] /\ up' = [up EXCEPT ![p] = <<>>]
        /\ UNCHANGED <<minted, mine, answered>>
    BY <1>5 DEF PipeDies, Closing, storeVars, clientVars
  <2>2. \A s : ~Named(<<>>, s)
    BY OnFew DEF Named
  <2>3. \A q \in Pipe, s \in Sess : Named(up'[q], s) => Named(up[q], s)
    BY <1>0, <2>1, <2>2
  <2> QED
    BY <1>0, <2>1, <2>3, KnownStays
<1>6. ASSUME NEW p \in Pipe, Connect(p) PROVE Known'
  <2>1. /\ Mint /\ session' = [session EXCEPT ![p] = minted'] /\ UNCHANGED <<up, mine, answered>>
    BY <1>6 DEF Connect
  <2>2. minted' = minted + 1 /\ minted' \in 1..minted'
    BY <2>1, MintIs
  <2> QED
    BY <1>0, <2>1, <2>2, KnownStays
<1>7. CASE OtherOpens
  <2>1. Mint /\ UNCHANGED <<session, up, mine, answered>>
    BY <1>7 DEF OtherOpens, clientVars
  <2>2. minted' = minted + 1
    BY <2>1, MintIs
  <2> QED
    BY <1>0, <2>1, <2>2, KnownStays
<1>8. ASSUME NEW w \in running, Finish(w) PROVE Known'
  BY <1>1, <1>8 DEF Finish, clientVars
<1>9. CASE Tick \/ LoseSocket \/ UNCHANGED vars
  BY <1>1, <1>9 DEF Tick, LoseSocket, storeVars, clientVars, vars
<1>10. CASE Call
  <2>1. Ask(<<CallOf(asked + 1)>>) /\ asked < MaxCalls /\ mode = "ready" /\ UNCHANGED <<minted, session, mine, answered>>
    BY <1>10 DEF Call, CallOf, storeVars
  <2>2. cur \in Pipe /\ asked + 1 \in Id
    BY <1>0, <2>1, BoundAssumption DEF PipeInv, TypeOK, Id
  <2>3. <<CallOf(asked + 1)>> \in Seq(Request) /\ CallOf(asked + 1).t = "call"
    BY <2>2 DEF CallOf, Request
  <2>4. up'[cur] = up[cur] \o <<CallOf(asked + 1)>> /\ \A q \in Pipe \ {cur} : up'[q] = up[q]
    BY <1>0, <2>1, <2>2, <2>3, AskIs
  <2>5. \A s : ~Named(<<CallOf(asked + 1)>>, s)
    BY <2>3, OnFew DEF Named
  <2>6. \A s : Named(up'[cur], s) => Named(up[cur], s)
    <3> DEFINE r == <<CallOf(asked + 1)>>
    <3>1. r \in Seq(Request) /\ up[cur] \in Seq(Request) /\ up'[cur] = up[cur] \o r /\ \A s : ~Named(r, s)
      BY <1>0, <2>2, <2>3, <2>4, <2>5
    <3> HIDE DEF r
    <3> QED
      BY <3>1, NamedMore
  <2>7. \A q \in Pipe, s \in Sess : Named(up'[q], s) => Named(up[q], s)
    BY <2>4, <2>6
  <2> QED
    BY <1>0, <2>1, <2>7, KnownStays
<1>11. CASE Receive
  <2> DEFINE f == Head(down[cur])
  <2>1. /\ cur \in Pipe /\ down[cur] # <<>> /\ cur # None /\ UNCHANGED <<minted, session, cur>>
    BY <1>0, <1>11 DEF Receive, storeVars, PipeInv, TypeOK
  <2>2. session[cur] \in 1..minted /\ 1..minted \subseteq Nat
    BY <1>0, <2>1
  <2>3. /\ \A p \in Pipe : session'[p] \in 1..minted' \cup {None}
        /\ \A p \in Pipe, s \in Sess : Named(up[p], s) => s \in 1..minted'
        /\ mine \in 1..minted' \cup {None} /\ (mine = None => answered = {})
    BY <2>1 DEF Known
  <2>4. CASE f.t = "ready" /\ OnReady(f.sess)
    <3>1. f.sess = session[cur]
      BY <2>1, <2>4, HeadTells
    <3>2. CASE mine = None
      <4>1. mine' = session[cur] /\ up' = up
        BY <2>4, <3>1, <3>2 DEF OnReady
      <4> QED
        BY <1>0, <2>1, <2>2, <2>3, <4>1 DEF Known
    <3>3. CASE mine # None
      <4>1. Ask(<<[t |-> "resume", sess |-> mine, after |-> seen]>>) /\ UNCHANGED <<mine, answered>>
        BY <2>4, <3>3 DEF OnReady
      <4> DEFINE r == [t |-> "resume", sess |-> mine, after |-> seen]
      <4>2. r \in Request /\ <<r>> \in Seq(Request) /\ r.sess = mine
        <5>1. seen \in 0..MaxCalls
          BY DEF PipeInv, TypeOK
        <5> QED
          BY <1>0, <3>3, <5>1 DEF Request
      <4> HIDE DEF r
      <4>3. Ask(<<r>>)
        BY <4>1 DEF r
      <4>4. up'[cur] = up[cur] \o <<r>> /\ \A q \in Pipe \ {cur} : up'[q] = up[q]
        BY <1>0, <2>1, <4>2, <4>3, AskIs
      <4>5. \A s : Named(<<r>>, s) => s = mine
        BY <4>2, OnFew DEF Named
      <4>6. \A s : Named(up'[cur], s) => Named(up[cur], s) \/ s = mine
        <5>1. up[cur] \in Seq(Request)
          BY <1>0, <2>1
        <5>2. ASSUME NEW s PROVE Named(up[cur] \o <<r>>, s) <=> Named(up[cur], s) \/ Named(<<r>>, s)
          BY <4>2, <5>1, NamedMore
        <5> QED
          BY <4>4, <4>5, <5>2
      <4>7. \A p \in Pipe, s \in Sess : Named(up'[p], s) => s \in 1..minted'
        BY <2>1, <2>3, <3>3, <4>4, <4>6
      <4> QED
        BY <2>3, <4>1, <4>7 DEF Known
    <3> QED
      BY <3>2, <3>3
  <2>5. CASE f.t = "resumed" /\ OnResumed
    <3>1. Ask(CallFrames(Unanswered)) /\ UNCHANGED <<mine, answered>> /\ Unanswered \in SUBSET Id
      BY <2>5 DEF OnResumed, Unanswered
    <3>2. CallFrames(Unanswered) \in Seq(Request)
      BY <3>1, CallFramesAre
    <3>3. up'[cur] = up[cur] \o CallFrames(Unanswered) /\ \A q \in Pipe \ {cur} : up'[q] = up[q]
      BY <1>0, <2>1, <3>1, <3>2, AskIs
    <3>4. \A s : ~Named(CallFrames(Unanswered), s)
      BY <3>1, OnCallFrames DEF Named
    <3>5. \A s : Named(up'[cur], s) => Named(up[cur], s)
      BY <1>0, <2>1, <3>2, <3>3, <3>4, NamedMore
    <3>6. \A q \in Pipe, s \in Sess : Named(up'[q], s) => s \in 1..minted'
      BY <2>3, <3>3, <3>5
    <3> QED
      BY <2>3, <3>1, <3>6 DEF Known
  <2>6. CASE f.t = "resumeFailed" /\ OnResumeFailed(f.sess)
    <3>1. f.sess = session[cur]
      BY <2>1, <2>6, HeadTells
    <3>2. mine' = session[cur] /\ up' = up
      BY <2>6, <3>1 DEF OnResumeFailed
    <3> QED
      BY <1>0, <2>1, <2>2, <2>3, <3>2 DEF Known
  <2>7. CASE f.t = "reply" /\ OnReply(f.id)
    <3>1. mode = "ready" /\ Ready
      BY <2>1, <2>7, HeadTells
    <3>2. mine = session[cur] /\ mine' = mine /\ up' = up
      BY <2>7, <3>1 DEF Ready, OnReply
    <3> QED
      BY <1>0, <2>1, <2>2, <2>3, <3>2 DEF Known
  <2> QED
    BY <1>11, <2>4, <2>5, <2>6, <2>7 DEF Receive
<1>12. ASSUME NEW p \in Pipe, Handle(p) PROVE Known'
  BY <1>3, <1>4, <1>12 DEF Handle
<1> QED
  BY <1>5, <1>6, <1>7, <1>8, <1>9, <1>10, <1>11, <1>12 DEF Next

(* A frame put before a queue is its head, and the queue the rest.         *)
LEMMA FirstOf ==
  ASSUME NEW S, NEW x \in S, NEW q \in Seq(S)
  PROVE  <<x>> \o q # <<>> /\ Head(<<x>> \o q) = x /\ Tail(<<x>> \o q) = q /\ <<>> \o q = q
OBVIOUS

(* One frame more is honest as long as it is.                              *)
LEMMA HonestMore ==
  ASSUME NEW q \in Seq(Frame), Honest(q), NEW i \in Id, runs[mine][i] > 0
  PROVE  Honest(q \o <<Reply(i)>>)
<1>1. Reply(i).t = "reply" /\ Reply(i).id = i /\ <<Reply(i)>> \in Seq(Frame)
  BY DEF Reply, Frame
<1>2. ASSUME NEW f, On(q \o <<Reply(i)>>, f) PROVE On(q, f) \/ f = Reply(i)
  <2> DEFINE r == <<Reply(i)>>
  <2>1. r \in Seq(Frame) /\ On(q \o r, f) /\ (On(r, f) => f = Reply(i))
    BY <1>1, <1>2, OnFew
  <2> HIDE DEF r
  <2> QED
    BY <2>1, OnMore
<1> QED
  BY <1>1, <1>2 DEF Honest

(* One step keeps HandInv.                                                 *)
LEMMA HandStep ==
  PipeInv /\ PipeInv' /\ RoomInv /\ CallInv /\ ExecInv /\ Known /\ HandInv /\ [Next]_vars => HandInv'
<1> SUFFICES ASSUME PipeInv, PipeInv', RoomInv, CallInv, ExecInv, Known, HandInv, [Next]_vars PROVE HandInv'
  OBVIOUS
<1>0. /\ TypeOK /\ TypeOK' /\ running \subseteq Execution /\ runs \in [Sess -> [Id -> 0..MaxRuns]]
      /\ session \in [Pipe -> Sess \cup {None}]
      /\ up \in [Pipe -> Seq(Request)] /\ down \in [Pipe -> Seq(Frame)]
      /\ None \notin Nat /\ mine \in Sess \cup {None} /\ cur \in Pipe \cup {None}
      /\ \A p \in Pipe : up[p] # <<>> \/ p = cur => session[p] \in 1..minted
      /\ 1..minted \subseteq Sess /\ MaxRuns \in Nat /\ store \subseteq 1..minted
      /\ None \notin Pipe
  <2>1. /\ TypeOK /\ TypeOK' /\ \A p \in Pipe : up[p] # <<>> \/ p = cur => session[p] \in 1..minted
        /\ store \subseteq 1..minted
    BY DEF PipeInv
  <2>2. minted \in 0..MaxMinted /\ MaxMinted \in Nat /\ MaxRuns \in Nat
    BY <2>1, BoundAssumption DEF TypeOK
  <2>3. 1..minted \subseteq Sess
    BY <2>2 DEF Sess
  <2>4. /\ session \in [Pipe -> Sess \cup {None}] /\ mine \in Sess \cup {None}
        /\ up \in [Pipe -> Seq(Request)] /\ down \in [Pipe -> Seq(Frame)] /\ cur \in Pipe \cup {None}
        /\ running \subseteq Execution /\ runs \in [Sess -> [Id -> 0..MaxRuns]]
    BY <2>1 DEF TypeOK, Execution
  <2> QED
    BY <2>1, <2>2, <2>3, <2>4, PipeAssumption
<1>a. SUFFICES ASSUME cur' \in Pipe, mode' # "offline" PROVE HandInv'
  <2>1. mode' = "offline" => HandInv'
    BY DEF HandInv
  <2>2. mode' # "offline" => cur' \in Pipe
    BY DEF PipeInv, TypeOK
  <2> QED
    BY <2>1, <2>2
<1>b. ASSUME NEW p \in Pipe, up[p] # <<>>, up' = [up EXCEPT ![p] = Tail(@)]
      PROVE  \A q \in Pipe, s \in Sess : Named(up'[q], s) => Named(up[q], s)
  <2>1. \A s : Named(Tail(up[p]), s) => Named(up[p], s)
    BY <1>0, <1>b, NamedLess
  <2> QED
    BY <1>0, <1>b, <2>1
<1>c. ASSUME UNCHANGED <<mine, mode, cur, up, session, running, runs>>, down'[cur] = down[cur] PROVE HandInv'
  <2>1. \A s \in Sess : Untouched(s) => Untouched(s)'
    BY <1>c DEF Untouched
  <2> QED
    BY <1>a, <1>c, <2>1, HandStays
<1>1. ASSUME NEW p \in Pipe, Handle(p), Head(up[p]).t = "resume" PROVE HandInv'
  <2>1. /\ up[p] # <<>> /\ up' = [up EXCEPT ![p] = Tail(@)] /\ OnResume(p, Head(up[p]))
        /\ UNCHANGED <<minted, replies, running, runs, mine, mode, cur>>
    BY <1>1 DEF Handle, callVars, clientVars
  <2>2. PICK f : f = Head(up[p]) /\ f.t = "resume" /\ f.sess \in Sess /\ Named(up[p], f.sess)
    <3>1. Head(up[p]).sess \in Sess
      BY <1>0, <1>1, <2>1, UpHead
    <3>2. Named(up[p], Head(up[p]).sess)
      BY <1>0, <1>1, <2>1, NamedLess
    <3> QED
      BY <1>1, <3>1, <3>2
  <2>3. session[p] \in 1..minted /\ cur \in Pipe /\ OnResume(p, f)
    BY <1>0, <1>a, <2>1, <2>2
  <2>4. \A q \in Pipe \ {p} : session'[q] = session[q] /\ down'[q] = down[q]
    BY <1>0, <2>2, <2>3, OnResumeIs
  <2>5. CASE p # cur
    <3>1. up'[cur] = up[cur] /\ down'[cur] = down[cur] /\ session'[cur] = session[cur]
      BY <1>0, <2>1, <2>3, <2>4, <2>5
    <3>2. session'[p] = session[p] \/ session'[p] = f.sess
      BY <1>0, <2>3 DEF OnResume
    <3>3. ASSUME NEW s \in Sess, Untouched(s) PROVE Untouched(s)'
      <4>1. f.sess # s
        BY <2>2, <3>3 DEF Untouched
      <4>2. \A q \in Pipe : session'[q] = session[q] \/ session'[q] # s
        BY <2>4, <3>2, <4>1
      <4>3. \A q \in Pipe : Named(up'[q], s) => Named(up[q], s)
        BY <1>b, <2>1
      <4> QED
        BY <2>1, <3>3, <4>2, <4>3, UntouchedStays
    <3> QED
      BY <2>1, <2>3, <3>1, <3>3, HandStays
  <2>6. CASE p = cur
    <3>1. mode = "resuming" /\ mine # None /\ Asked
      <4>1. mode # "hello"
        BY <2>1, <2>6 DEF HandInv, Hello
      <4>2. mode # "ready"
        <5>1. On(up[cur], f)
          BY <1>0, <2>1, <2>2, <2>6, OnTail
        <5> QED
          BY <2>2, <5>1 DEF HandInv, Ready
      <4>3. mode = "resuming"
        BY <1>0, <1>a, <2>1, <4>1, <4>2 DEF TypeOK
      <4> QED
        BY <2>1, <2>6, <4>3 DEF HandInv, Refused, Granted
    <3>2. PICK a \in 0..MaxCalls : up[cur] = <<[t |-> "resume", sess |-> mine, after |-> a]>>
      BY <3>1 DEF Asked
    <3>3. f = [t |-> "resume", sess |-> mine, after |-> a] /\ Tail(up[cur]) = <<>>
      BY <2>2, <2>6, <3>2
    <3>4. f.sess = mine /\ f.after = a /\ up'[cur] = <<>> /\ mine \in Sess
      BY <1>0, <2>1, <2>3, <2>6, <3>1, <3>3
    <3>5. NobodyFor(cur)'  /\ down[cur] = <<>>
      BY <2>1, <3>1 DEF Asked, NobodyFor
    <3>6. CASE mine \in Fresh
      <4>1. /\ session' = [session EXCEPT ![cur] = mine]
            /\ Send(cur, <<[t |-> "resumed", sess |-> mine]>> \o Since(mine, a))
        BY <2>3, <2>6, <3>4, <3>6 DEF OnResume
      <4> DEFINE x == [t |-> "resumed", sess |-> mine]
                 q == Since(mine, a)
      <4>2. x \in Frame /\ q \in Seq(Frame) /\ x.t = "resumed"
        BY <1>0, <3>4, SinceIs DEF Frame
      <4>3. ASSUME NEW g, On(q, g) PROVE g.t = "reply" /\ runs[mine][g.id] > 0
        <5>1. PICK i \in Replied(mine) : g = Reply(i)
          BY <1>0, <3>4, <4>3, OnSince
        <5> QED
          BY <3>4, <5>1 DEF Reply, ExecInv
      <4>4. Send(cur, <<x>> \o q)
        BY <4>1
      <4> HIDE DEF x, q
      <4>5. <<x>> \o q # <<>> /\ Head(<<x>> \o q) = x /\ Tail(<<x>> \o q) = q /\ <<>> \o (<<x>> \o q) = <<x>> \o q
        <5>1. <<x>> \in Seq(Frame) /\ <<x>> \o q \in Seq(Frame)
          BY <4>2, ConcatProperties
        <5> QED
          BY <4>2, <5>1, FirstOf
      <4>6. down'[cur] = <<x>> \o q
        <5>1. down'[cur] = down[cur] \o (<<x>> \o q)
          BY <1>0, <2>3, <4>4 DEF Send
        <5> QED
          BY <3>5, <4>5, <5>1
      <4>7. session'[cur] = mine
        BY <1>0, <2>3, <4>1
      <4>8. Honest(Tail(down[cur]))'
        BY <2>1, <4>3, <4>5, <4>6 DEF Honest
      <4>9. Granted'
        BY <2>1, <3>4, <3>5, <4>2, <4>5, <4>6, <4>7, <4>8 DEF Granted
      <4> QED
        BY <2>1, <3>1, <4>9 DEF HandInv
    <3>7. CASE mine \notin Fresh
      <4>1. session' = session /\ Send(cur, <<[t |-> "resumeFailed", sess |-> session[cur]]>>)
        BY <2>3, <2>6, <3>4, <3>7 DEF OnResume
      <4>2. down'[cur] = <<[t |-> "resumeFailed", sess |-> session[cur]]>>
        BY <1>0, <2>3, <3>5, <4>1 DEF Send
      <4>3. PICK s \in Sess : s = session[cur] /\ Untouched(s)
        BY <1>0, <2>3, <2>6, <3>1 DEF Asked
      <4>4. Untouched(s)'
        <5>1. \A q \in Pipe : Named(up'[q], s) => Named(up[q], s)
          BY <1>b, <2>1
        <5> QED
          BY <2>1, <4>1, <4>3, <5>1, UntouchedStays
      <4>5. Untouched(session[cur])'
        BY <2>1, <4>1, <4>3, <4>4
      <4>6. Refused'
        BY <2>1, <3>4, <3>5, <4>1, <4>2, <4>5 DEF Refused
      <4> QED
        BY <2>1, <3>1, <4>6 DEF HandInv
    <3> QED
      BY <3>6, <3>7
  <2> QED
    BY <2>5, <2>6
<1>2. ASSUME NEW p \in Pipe, Handle(p), Head(up[p]).t = "call" PROVE HandInv'
  <2>1. /\ up[p] # <<>> /\ up' = [up EXCEPT ![p] = Tail(@)] /\ OnCall(p, Head(up[p]).id)
        /\ UNCHANGED <<session, mine, mode, cur>>
    BY <1>2 DEF Handle, storeVars, clientVars
  <2>2. PICK i \in Id : i = Head(up[p]).id
    BY <1>0, <1>2, <2>1, UpHead
  <2>3. PICK s \in Sess : s = session[p]
    BY <1>0, <2>1
  <2>4. OnCall(p, i) /\ cur \in Pipe
    BY <1>a, <2>1, <2>2
  <2>5. \A q \in Pipe \ {p} : down'[q] = down[q]
    <3>1. session[p] \in Sess
      BY <2>3
    <3> QED
      BY <1>0, <2>4, <3>1, OnCallIs
  <2>6. Awaits(p, s) /\ RunsOnlyIn(s) /\ (down'[p] = down[p] \/ (down'[p] = down[p] \o <<Reply(i)>> /\ i \in Replied(s)))
    BY <1>0, <2>3, <2>4, OnCallTakes
  <2>7. \A t \in Sess, j \in Id : runs[t][j] > 0 => runs'[t][j] > 0
    <3>1. \A t \in Sess, j \in Id : runs'[t][j] \in 0..MaxRuns /\ runs[t][j] \in 0..MaxRuns
      BY <1>0 DEF TypeOK
    <3> QED
      BY <1>0, <2>6, <3>1 DEF RunsOnlyIn
  <2>8. CASE p # cur
    <3>1. up'[cur] = up[cur] /\ down'[cur] = down[cur] /\ session'[cur] = session[cur]
      BY <1>0, <2>1, <2>4, <2>5, <2>8
    <3>2. \A v \in running' : cur \in v.to => \E w \in running : w.sess = v.sess /\ cur \in w.to
      BY <2>6, <2>8 DEF Awaits
    <3>3. ASSUME NEW t \in Sess, Untouched(t) PROVE Untouched(t)'
      <4>1. t # s
        BY <2>3, <2>8, <3>3 DEF Untouched
      <4>2. \A j \in Id : runs'[t][j] = runs[t][j]
        BY <2>6, <4>1 DEF RunsOnlyIn
      <4>3. \A q \in Pipe : Named(up'[q], t) => Named(up[q], t)
        BY <1>b, <2>1
      <4> QED
        BY <2>1, <3>3, <4>2, <4>3, UntouchedStays
    <3> QED
      BY <2>1, <2>4, <2>7, <3>1, <3>2, <3>3, HandStays
  <2>9. CASE p = cur
    <3>1. mode = "ready" /\ Ready
      <4>1. mode # "hello"
        BY <2>1, <2>9 DEF HandInv, Hello
      <4>2. mode # "resuming"
        <5>1. ASSUME NEW a, up[cur] = <<[t |-> "resume", sess |-> mine, after |-> a]>> PROVE FALSE
          BY <1>2, <2>9, <5>1
        <5>2. ~Asked
          BY <5>1 DEF Asked
        <5> QED
          BY <2>1, <2>9, <5>2 DEF HandInv, Refused, Granted
      <4>3. mode = "ready"
        BY <1>0, <1>a, <2>1, <4>1, <4>2 DEF TypeOK
      <4> QED
        BY <4>3 DEF HandInv
    <3>2. s = mine /\ session'[cur'] = mine'
      BY <2>1, <2>3, <2>9, <3>1 DEF Ready
    <3>3. PICK q \in Seq(Frame) : q = down'[cur] /\ Honest(q)
      <4>1. down[cur] \in Seq(Frame) /\ Honest(down[cur])
        BY <1>0, <2>4, <3>1 DEF Ready
      <4>2. CASE down'[cur] = down[cur]
        BY <4>1, <4>2
      <4>3. CASE down'[cur] = down[cur] \o <<Reply(i)>> /\ i \in Replied(s)
        <5>1. runs[mine][i] > 0
          BY <3>2, <4>3 DEF ExecInv
        <5>2. Honest(down[cur] \o <<Reply(i)>>)
          BY <4>1, <5>1, HonestMore
        <5>3. down[cur] \o <<Reply(i)>> \in Seq(Frame)
          BY <1>0, <2>4, <4>3 DEF TypeOK
        <5> QED
          BY <4>3, <5>2, <5>3
      <4> QED
        BY <2>6, <2>9, <4>2, <4>3
    <3>4. Honest(down[cur])'
      <4>1. Honest(q)'
        BY <2>1, <2>7, <3>2, <3>3, HonestStays
      <4> QED
        BY <2>1, <3>3, <4>1
    <3>5. \A f : On(up[cur], f)' => f.t = "call"
      <4>1. up'[cur'] = Tail(up[cur])
        BY <1>0, <2>1, <2>4, <2>9
      <4>2. \A f : On(Tail(up[cur]), f) => On(up[cur], f)
        BY <1>0, <2>1, <2>4, <2>9, OnTail
      <4>3. \A f : On(up'[cur'], f) => f.t = "call"
        BY <3>1, <4>1, <4>2 DEF Ready
      <4> QED
        BY <4>3 DEF On
    <3>6. \A v \in running' : cur' \in v.to => v.sess = mine'
      BY <2>1, <2>6, <2>9, <3>1, <3>2 DEF Awaits, Ready
    <3>7. Ready'
      BY <3>2, <3>4, <3>5, <3>6 DEF Ready
    <3> QED
      BY <2>1, <3>1, <3>7 DEF HandInv
  <2> QED
    BY <2>8, <2>9
<1>3. ASSUME NEW p \in Pipe, PipeDies(p) PROVE HandInv'
  <2>1. /\ p # cur /\ session' = [session EXCEPT ![p] = None] /\ up' = [up EXCEPT ![p] = <<>>]
        /\ running' = {[w EXCEPT !.to = @ \ {p}] : w \in running}
        /\ UNCHANGED <<runs, down, mine, mode, cur>>
    BY <1>3 DEF PipeDies, Closing, clientVars
  <2>2. cur \in Pipe /\ up'[cur] = up[cur] /\ down'[cur] = down[cur] /\ session'[cur] = session[cur]
    BY <1>0, <1>a, <2>1
  <2>3. ASSUME NEW v \in running', cur \in v.to PROVE \E w \in running : w.sess = v.sess /\ cur \in w.to
    <3>1. PICK w \in running : v = [w EXCEPT !.to = @ \ {p}]
      BY <2>1
    <3>2. v.sess = w.sess /\ v.to = w.to \ {p}
      BY <1>0, <3>1 DEF Execution
    <3> QED
      BY <2>3, <3>2
  <2>4. \A q \in Pipe, s \in Sess : Named(up'[q], s) => Named(up[q], s)
    <3>1. \A s : ~Named(<<>>, s)
      BY OnFew DEF Named
    <3> QED
      BY <1>0, <2>1, <3>1
  <2>5. ASSUME NEW s \in Sess, Untouched(s) PROVE Untouched(s)'
    <3>1. s # None
      BY <1>0 DEF Sess
    <3>2. \A q \in Pipe : session'[q] = session[q] \/ session'[q] # s
      BY <1>0, <2>1, <3>1
    <3> QED
      BY <2>1, <2>4, <2>5, <3>2, UntouchedStays
  <2> QED
    BY <2>1, <2>2, <2>3, <2>5, HandStays
<1>4. ASSUME NEW p \in Pipe, Connect(p) PROVE HandInv'
  <2>1. /\ mode = "offline" /\ session[p] = None /\ Mint /\ session' = [session EXCEPT ![p] = minted']
        /\ down' = [down EXCEPT ![p] = <<[t |-> "ready", sess |-> minted']>>]
        /\ cur' = p /\ mode' = "hello" /\ UNCHANGED <<running, runs, up, mine>>
    BY <1>4 DEF Connect, callVars
  <2>2. /\ minted' = minted + 1 /\ minted' \in Sess /\ minted' \notin 1..minted
        /\ \A i \in Id : runs[minted'][i] = 0
    <3>1. minted' = minted + 1 /\ minted' \in Sess
      BY <2>1, MintIs
    <3>2. minted \in Nat
      BY <1>0 DEF TypeOK
    <3> QED
      BY <2>1, <3>1, <3>2, MintedIsIdle
  <2>3. up[p] = <<>>
    BY <1>0, <2>1
  <2>4. session'[p] = minted' /\ down'[p] = <<[t |-> "ready", sess |-> minted']>>
    BY <1>0, <2>1
  <2>5. NobodyFor(cur)'
    <3>1. \A w \in running : p \notin w.to
      BY <2>1 DEF ExecInv
    <3> QED
      BY <2>1, <3>1 DEF NobodyFor
  <2>6. Untouched(session[cur])'
    <3>1. minted' # mine /\ minted' # None
      BY <1>0, <2>2 DEF Known, Sess
    <3>2. \A q \in Pipe : ~Named(up[q], minted') /\ (q # p => session'[q] # minted')
      BY <1>0, <2>1, <2>2, <3>1 DEF Known
    <3>3. session'[cur'] = minted'
      BY <2>1, <2>4
    <3>4. /\ minted' # mine' /\ \A i \in Id : runs'[minted'][i] = 0
          /\ \A q \in Pipe : (q # cur' => session'[q] # minted') /\ ~Named(up'[q], minted')
      BY <2>1, <2>2, <3>1, <3>2
    <3> QED
      BY <3>3, <3>4 DEF Untouched
  <2>7. Hello'
    BY <2>1, <2>3, <2>4, <2>5, <2>6 DEF Hello
  <2> QED
    BY <2>1, <2>7 DEF HandInv
<1>5. ASSUME NEW w \in running, Finish(w) PROVE HandInv'
  <2>1. /\ running' = running \ {w}
        /\ down' = [p \in Pipe |-> IF p \in w.to THEN Append(down[p], Reply(w.id)) ELSE down[p]]
        /\ UNCHANGED <<runs, session, up, mine, mode, cur>>
    BY <1>5 DEF Finish, clientVars
  <2>2. cur \in Pipe /\ w.id \in Id
    BY <1>0, <1>a, <2>1 DEF Execution
  <2>3. CASE cur \notin w.to
    <3>1. down'[cur] = down[cur]
      BY <2>1, <2>2, <2>3
    <3>2. \A s \in Sess : Untouched(s) => Untouched(s)'
      BY <2>1 DEF Untouched
    <3> QED
      BY <2>1, <2>2, <3>1, <3>2, HandStays
  <2>4. CASE cur \in w.to
    <3>1. ~NobodyFor(cur)
      BY <2>4 DEF NobodyFor
    <3>2. mode = "ready" /\ Ready
      <4>1. mode = "ready"
        BY <1>0, <1>a, <2>1, <3>1 DEF TypeOK, HandInv, Hello, Asked, Refused, Granted
      <4> QED
        BY <4>1 DEF HandInv
    <3>3. w.sess = mine /\ runs[mine][w.id] > 0 /\ Honest(down[cur]) /\ down[cur] \in Seq(Frame)
      BY <1>0, <2>2, <2>4, <3>2 DEF Ready, ExecInv
    <3>4. down'[cur] = down[cur] \o <<Reply(w.id)>>
      <4>1. Reply(w.id) \in Frame
        BY <2>2 DEF Reply, Frame
      <4>2. Append(down[cur], Reply(w.id)) = down[cur] \o <<Reply(w.id)>>
        BY <3>3, <4>1, AppendIsConcat
      <4> QED
        BY <2>1, <2>2, <2>4, <4>2
    <3>5. Honest(down[cur] \o <<Reply(w.id)>>)
      BY <2>2, <3>3, HonestMore
    <3>6. Honest(down[cur])'
      BY <2>1, <3>4, <3>5 DEF Honest
    <3>7. Ready'
      BY <2>1, <3>2, <3>6 DEF Ready, On
    <3> QED
      BY <2>1, <3>2, <3>7 DEF HandInv
  <2> QED
    BY <2>3, <2>4
<1>6. CASE OtherOpens \/ Tick
  BY <1>c, <1>6 DEF OtherOpens, Tick, callVars, clientVars
<1>7. CASE LoseSocket
  BY <1>a, <1>7 DEF LoseSocket
<1>8. CASE Call
  <2>1. /\ mode = "ready" /\ Ask(<<CallOf(asked + 1)>>) /\ asked < MaxCalls
        /\ UNCHANGED <<running, runs, session, down, cur, mode, mine>>
    BY <1>8 DEF Call, CallOf, callVars
  <2>2. cur \in Pipe /\ asked + 1 \in Id /\ Ready
    <3>1. asked \in 0..MaxCalls
      BY <1>0 DEF TypeOK
    <3> QED
      BY <1>a, <2>1, <3>1, BoundAssumption DEF Id, HandInv
  <2> DEFINE r == <<CallOf(asked + 1)>>
  <2>3. r \in Seq(Request) /\ \A f : On(r, f) => f.t = "call"
    <3>1. CallOf(asked + 1) \in Request /\ CallOf(asked + 1).t = "call"
      BY <2>2 DEF CallOf, Request
    <3> QED
      BY <3>1, OnFew
  <2>4. Ask(r)
    BY <2>1
  <2> HIDE DEF r
  <2>5. up'[cur] = up[cur] \o r /\ up[cur] \in Seq(Request)
    BY <1>0, <2>2, <2>3, <2>4, AskIs
  <2>6. \A f : On(up'[cur], f) => f.t = "call"
    BY <2>2, <2>3, <2>5, OnMore DEF Ready
  <2>7. Ready'
    BY <2>1, <2>2, <2>6 DEF Ready, Honest, On
  <2> QED
    BY <2>1, <2>7 DEF HandInv
<1>9. CASE Receive
  <2> DEFINE f == Head(down[cur])
  <2>1. /\ cur \in Pipe /\ cur # None /\ down[cur] # <<>> /\ down' = [down EXCEPT ![cur] = Tail(@)]
        /\ UNCHANGED <<running, runs, session, cur>>
    BY <1>0, <1>9 DEF Receive, callVars
  <2>2. /\ down'[cur] = Tail(down[cur]) /\ session[cur] \in Sess /\ down[cur] \in Seq(Frame)
        /\ NobodyFor(cur) <=> NobodyFor(cur)'
    BY <1>0, <2>1 DEF NobodyFor
  <2>3. ASSUME mode' = "ready", mine' = session[cur], NobodyFor(cur), down'[cur] = <<>>,
               \A x : On(up'[cur], x) => x.t = "call"
        PROVE  HandInv'
    <3>1. \A w \in running' : cur' \notin w.to
      BY <2>1, <2>3 DEF NobodyFor
    <3>2. Honest(down[cur])'
      <4>1. \A x : ~On(<<>>, x)
        BY OnFew
      <4> QED
        BY <2>1, <2>3, <4>1 DEF Honest
    <3>3. Ready'
      BY <2>1, <2>3, <3>1, <3>2 DEF Ready, On
    <3> QED
      BY <2>3, <3>3 DEF HandInv
  <2>4. CASE f.t = "ready" /\ OnReady(f.sess)
    <3>1. Hello /\ f.sess = session[cur] /\ Tail(down[cur]) = <<>>
      BY <2>1, <2>4, HeadTells
    <3>2. CASE mine = None
      <4>1. mode' = "ready" /\ mine' = session[cur] /\ up' = up
        BY <2>4, <3>1, <3>2 DEF OnReady
      <4>2. \A x : ~On(up'[cur], x)
        BY <3>1, <4>1, OnFew DEF Hello
      <4> QED
        BY <2>2, <2>3, <3>1, <4>1, <4>2 DEF Hello
    <3>3. CASE mine # None
      <4>1. /\ mode' = "resuming" /\ Ask(<<[t |-> "resume", sess |-> mine, after |-> seen]>>) /\ mine' = mine
        BY <2>4, <3>3 DEF OnReady
      <4> DEFINE r == [t |-> "resume", sess |-> mine, after |-> seen]
      <4>2. seen \in 0..MaxCalls /\ r \in Request /\ <<r>> \in Seq(Request) /\ r.sess = mine
        <5>1. seen \in 0..MaxCalls
          BY <1>0 DEF TypeOK
        <5> QED
          BY <1>0, <3>3, <5>1 DEF Request
      <4>3. Ask(<<r>>)
        BY <4>1
      <4> HIDE DEF r
      <4>4. up'[cur] = <<r>> /\ \A q \in Pipe \ {cur} : up'[q] = up[q]
        <5>1. up'[cur] = up[cur] \o <<r>> /\ \A q \in Pipe \ {cur} : up'[q] = up[q]
          BY <1>0, <2>1, <4>2, <4>3, AskIs
        <5>2. <<>> \o <<r>> = <<r>>
          BY <4>2, ConcatEmptySeq
        <5> QED
          BY <3>1, <5>1, <5>2 DEF Hello
      <4>5. PICK s \in Sess : s = session[cur] /\ Untouched(s)
        BY <2>2, <3>1 DEF Hello
      <4>6. Untouched(s)'
        <5>1. \A x : Named(<<r>>, x) => x = mine
          BY <4>2, OnFew DEF Named
        <5>2. s # mine
          BY <4>5 DEF Untouched
        <5>3. \A q \in Pipe : ~Named(up'[q], s)
          BY <4>4, <4>5, <5>1, <5>2 DEF Untouched
        <5> QED
          BY <2>1, <4>1, <4>5, <5>3 DEF Untouched
      <4>7. Untouched(session[cur])'
        BY <2>1, <4>5, <4>6
      <4>8. Asked'
        BY <2>1, <2>2, <3>1, <4>1, <4>2, <4>4, <4>7 DEF Asked, Hello, r
      <4> QED
        BY <3>3, <4>1, <4>8 DEF HandInv
    <3> QED
      BY <3>2, <3>3
  <2>5. CASE f.t = "resumed" /\ OnResumed
    <3>1. Granted
      BY <2>1, <2>5, HeadTells
    <3>2. mode' = "ready" /\ mine' = mine /\ Ask(CallFrames(Unanswered)) /\ Unanswered \in SUBSET Id
      BY <2>5 DEF OnResumed, Unanswered
    <3>3. CallFrames(Unanswered) \in Seq(Request)
      BY <3>2, CallFramesAre
    <3>4. up'[cur] = <<>> \o CallFrames(Unanswered)
      BY <1>0, <2>1, <3>1, <3>2, <3>3, AskIs DEF Granted
    <3>5. up'[cur] = CallFrames(Unanswered)
      BY <3>3, <3>4, ConcatEmptySeq
    <3>6. \A x : On(up'[cur], x) => x.t = "call"
      BY <3>2, <3>5, OnCallFrames
    <3>7. Honest(down[cur])'
      BY <2>1, <2>2, <3>1, <3>2 DEF Granted, Honest
    <3>8. \A w \in running' : cur' \notin w.to
      BY <2>1, <3>1 DEF Granted, NobodyFor
    <3>9. Ready'
      BY <2>1, <3>1, <3>2, <3>6, <3>7, <3>8 DEF Ready, Granted, On
    <3> QED
      BY <3>2, <3>9 DEF HandInv
  <2>6. CASE f.t = "resumeFailed" /\ OnResumeFailed(f.sess)
    <3>1. Refused /\ f.sess = session[cur] /\ Tail(down[cur]) = <<>>
      BY <2>1, <2>6, HeadTells
    <3>2. mode' = "ready" /\ mine' = session[cur] /\ up' = up
      BY <2>6, <3>1 DEF OnResumeFailed
    <3>3. \A x : ~On(up'[cur], x)
      BY <3>1, <3>2, OnFew DEF Refused
    <3> QED
      BY <2>2, <2>3, <3>1, <3>2, <3>3 DEF Refused
  <2>7. CASE f.t = "reply" /\ OnReply(f.id)
    <3>1. mode = "ready" /\ Ready
      BY <2>1, <2>7, HeadTells
    <3>2. mode' = mode /\ mine' = mine /\ up' = up
      BY <2>7 DEF OnReply
    <3>3. Honest(down[cur])'
      <4>1. \A x : On(Tail(down[cur]), x) => On(down[cur], x)
        BY <2>1, <2>2, OnTail
      <4> QED
        BY <2>1, <2>2, <3>1, <3>2, <4>1 DEF Honest, Ready
    <3>4. Ready'
      BY <2>1, <3>1, <3>2, <3>3 DEF Ready, On
    <3> QED
      BY <3>1, <3>2, <3>4 DEF HandInv
  <2> QED
    BY <1>9, <2>4, <2>5, <2>6, <2>7 DEF Receive
<1>10. CASE UNCHANGED vars
  BY <1>c, <1>10 DEF vars, callVars, clientVars
<1>11. ASSUME NEW p \in Pipe, Handle(p) PROVE HandInv'
  BY <1>1, <1>2, <1>11 DEF Handle
<1> QED
  BY <1>3, <1>4, <1>5, <1>6, <1>7, <1>8, <1>9, <1>10, <1>11 DEF Next

-----------------------------------------------------------------------------
(* What CallLedger sees of a step.                                         *)
Runs(s, i) == \E w \in running : w.sess = s /\ w.id = i

(* A call's fate changes only with what runs, what is in the history and   *)
(* whether it was executed.                                                *)
LEMMA FateStays ==
  ASSUME NEW s, NEW i, Runs(s, i)' <=> Runs(s, i),
         i \in Replied(s)' <=> i \in Replied(s), runs'[s][i] > 0 <=> runs[s][i] > 0
  PROVE  Fate(s, i)' = Fate(s, i)
BY DEF Fate, Runs

(* The ledger stays as it is if every fate does.                           *)
LEMMA SameFates ==
  ASSUME store' = store, \A q \in store, i \in Id : Fate(q, i)' = Fate(q, i)
  PROVE  Fates' = Fates
BY DEF Fates

(* The ledger is what its entries are.                                     *)
LEMMA LedgerIs ==
  ASSUME NEW g \in [Sess -> [Id -> {"unknown", "running", "kept", "forgotten", "new"}]],
         \A q \in Sess, j \in Id : g[q][j] = IF q \in store' THEN Fate(q, j)' ELSE "unknown"
  PROVE  Fates' = g
<1>1. Fates' = [q \in Sess |-> [j \in Id |-> g[q][j]]]
  BY DEF Fates
<1>2. \A q \in Sess : g[q] = [j \in Id |-> g[q][j]]
  OBVIOUS
<1> QED
  BY <1>1, <1>2

(* Each call of each session has one of five fates in the ledger.          *)
LEMMA FatesType == Fates \in [Sess -> [Id -> {"unknown", "running", "kept", "forgotten", "new"}]]
BY DEF Fates, Fate

(* If one call of a session held changed its fate, one entry changed.      *)
LEMMA OneFate ==
  ASSUME store' = store, NEW s \in store, s \in Sess, NEW i \in Id,
         NEW v \in {"running", "kept"}, Fate(s, i)' = v,
         \A q \in store, j \in Id : q # s \/ j # i => Fate(q, j)' = Fate(q, j)
  PROVE  Fates' = [Fates EXCEPT ![s][i] = v]
<1> DEFINE g == [Fates EXCEPT ![s][i] = v]
<1>1. g \in [Sess -> [Id -> {"unknown", "running", "kept", "forgotten", "new"}]]
  BY FatesType
<1>2. \A q \in Sess, j \in Id : Fates[q][j] = IF q \in store THEN Fate(q, j) ELSE "unknown"
  BY DEF Fates
<1>3. \A q \in Sess, j \in Id : g[q][j] = IF q = s /\ j = i THEN v ELSE Fates[q][j]
  BY FatesType
<1> HIDE DEF g
<1>4. \A q \in Sess, j \in Id : g[q][j] = IF q \in store' THEN Fate(q, j)' ELSE "unknown"
  BY <1>2, <1>3
<1>5. Fates' = g
  BY <1>1, <1>4, LedgerIs
<1> QED
  BY <1>5 DEF g

(* If two did, one kept and one forgotten, two entries changed.            *)
LEMMA TwoFates ==
  ASSUME store' = store, NEW s \in store, s \in Sess, NEW i \in Id, NEW k \in Id, i # k,
         Fate(s, i)' = "kept", Fate(s, k)' = "forgotten",
         \A q \in store, j \in Id : q # s \/ (j # i /\ j # k) => Fate(q, j)' = Fate(q, j)
  PROVE  Fates' = [Fates EXCEPT ![s][i] = "kept", ![s][k] = "forgotten"]
<1> DEFINE g == [Fates EXCEPT ![s][i] = "kept", ![s][k] = "forgotten"]
<1>1. g \in [Sess -> [Id -> {"unknown", "running", "kept", "forgotten", "new"}]]
  BY FatesType
<1>2. \A q \in Sess, j \in Id : Fates[q][j] = IF q \in store THEN Fate(q, j) ELSE "unknown"
  BY DEF Fates
<1>3. \A q \in Sess, j \in Id : g[q][j] = IF q = s /\ j = i THEN "kept"
                                         ELSE IF q = s /\ j = k THEN "forgotten" ELSE Fates[q][j]
  BY FatesType
<1> HIDE DEF g
<1>4. \A q \in Sess, j \in Id : g[q][j] = IF q \in store' THEN Fate(q, j)' ELSE "unknown"
  BY <1>2, <1>3
<1>5. Fates' = g
  BY <1>1, <1>4, LedgerIs
<1> QED
  BY <1>5 DEF g

(* Sessions that are held keep their fates, but for one that is new.       *)
LEMMA KeepingIs ==
  ASSUME NEW s, s \in Sess => s \in store' /\ \A i \in Id : Fate(s, i)' = "new",
         \A q \in Sess : q \in store' /\ q # s => q \in store /\ \A i \in Id : Fate(q, i)' = Fate(q, i)
  PROVE  Ledger!Keeping(s)
BY DEF Ledger!Keeping, Ledger!All, Fates

(* Both count the same way.                                                *)
LEMMA SameCount == ASSUME NEW T PROVE Ledger!Cardinality(T) = Cardinality(T)
BY DEF Ledger!Cardinality, Cardinality

(* What the ledger says is kept is the history.                            *)
LEMMA KeptIs ==
  ASSUME TypeOK, NEW s \in store, Once(s)
  PROVE  Ledger!Kept(s) = Replied(s) /\ Cardinality(Ledger!Kept(s)) = Len(replies[s])
<1>1. s \in Sess /\ replies[s] \in Seq(Id)
  BY DEF TypeOK
<1>2. \A j \in Replied(s) : j \in Id
  BY <1>1, ElementOfSeq DEF Replied
<1>3. ASSUME NEW j \in Id PROVE Fates[s][j] = "kept" <=> j \in Replied(s)
  <2>1. Fates[s][j] = Fate(s, j)
    BY <1>1 DEF Fates
  <2> QED
    BY <2>1 DEF Fate, Once
<1>4. Ledger!Kept(s) = Replied(s)
  BY <1>2, <1>3 DEF Ledger!Kept
<1>5. Cardinality(Replied(s)) = Len(replies[s])
  BY <1>1, DistinctCount DEF Once, Replied
<1> QED
  BY <1>4, <1>5

LedgerInv == Inv /\ ExecInv /\ Known /\ HandInv

(* Every step of the pipe is one of the ledger's, or leaves it as it is.   *)
LEMMA LedgerStep == LedgerInv /\ LedgerInv' /\ [Next]_vars => [Ledger!Next]_(Ledger!vars)
<1> SUFFICES ASSUME LedgerInv, LedgerInv', [Next]_vars PROVE [Ledger!Next]_(Ledger!vars)
  OBVIOUS
<1>0. /\ PipeInv /\ RoomInv /\ CallInv /\ ExecInv /\ Known /\ HandInv /\ TypeOK
      /\ ExecInv' /\ running \subseteq Execution /\ runs \in [Sess -> [Id -> 0..MaxRuns]]
      /\ store \subseteq 1..minted /\ 1..minted \subseteq Sess /\ minted \in Nat /\ MaxHistory \in Nat \ {0}
      /\ None \notin Sess /\ replies \in [Sess -> Seq(Id)]
  <2>1. PipeInv /\ RoomInv /\ CallInv /\ ExecInv /\ Known /\ HandInv /\ TypeOK /\ ExecInv' /\ store \subseteq 1..minted
    BY DEF LedgerInv, Inv, PipeInv
  <2>2. minted \in 0..MaxMinted /\ MaxMinted \in Nat /\ MaxHistory \in Nat \ {0}
    BY <2>1, BoundAssumption DEF TypeOK
  <2>3. 1..minted \subseteq Sess /\ None \notin Sess
    BY <2>2, PipeAssumption DEF Sess
  <2>4. running \subseteq Execution /\ runs \in [Sess -> [Id -> 0..MaxRuns]] /\ replies \in [Sess -> Seq(Id)]
    BY <2>1 DEF TypeOK, Execution
  <2> QED
    BY <2>1, <2>2, <2>3, <2>4
<1>1. ASSUME UNCHANGED <<minted, store, running, replies, runs, mine, answered>>
      PROVE  UNCHANGED Ledger!vars
  <2>1. Fates' = Fates
    BY <1>1, SameFates DEF Fate, Replied
  <2> QED
    BY <1>1, <2>1 DEF Ledger!vars
<1>2. ASSUME NEW p \in Pipe, Handle(p), Head(up[p]).t = "resume" PROVE Ledger!Next
  <2>1. OnResume(p, Head(up[p])) /\ UNCHANGED <<minted, replies, running, runs, mine, answered>>
    BY <1>2 DEF Handle, callVars, clientVars
  <2>2. store' \subseteq store
    BY <1>0, <2>1, FreshIs DEF OnResume
  <2>3. \A q, i : Fate(q, i)' = Fate(q, i)
    BY <2>1 DEF Fate, Replied
  <2>4. Ledger!Keeping(None)
    BY <1>0, <2>2, <2>3, KeepingIs
  <2>5. Ledger!Drop
    BY <2>1, <2>2, <2>4 DEF Ledger!Drop
  <2> QED
    BY <2>5 DEF Ledger!Next
<1>3. ASSUME NEW p \in Pipe, Handle(p), Head(up[p]).t = "call" PROVE [Ledger!Next]_(Ledger!vars)
  <2>1. up[p] # <<>> /\ OnCall(p, Head(up[p]).id) /\ UNCHANGED <<minted, store, replies, mine, answered>>
    BY <1>3 DEF Handle, storeVars, clientVars
  <2>2. PICK i \in Id : i = Head(up[p]).id
    BY <1>0, <1>3, <2>1, UpHead
  <2>3. PICK s \in Sess : s = session[p] /\ s \in 1..minted
    <3>1. session[p] \in 1..minted
      BY <2>1 DEF LedgerInv, Inv, PipeInv
    <3> QED
      BY <1>0, <3>1
  <2>4. \A q : Replied(q)' = Replied(q)
    BY <2>1 DEF Replied
  <2>5. CASE UNCHANGED <<running, runs>>
    BY <1>1, <2>1, <2>5
  <2>6. CASE /\ UNCHANGED runs
             /\ running' = {IF w \in InFlight(s, i) THEN [w EXCEPT !.to = @ \cup {p}] ELSE w : w \in running}
    <3>1. ASSUME NEW w \in running
          PROVE  [w EXCEPT !.to = @ \cup {p}].sess = w.sess /\ [w EXCEPT !.to = @ \cup {p}].id = w.id
      BY <1>0 DEF Execution
    <3>2. ASSUME NEW q, NEW j, Runs(q, j) PROVE Runs(q, j)'
      <4>1. PICK w \in running : w.sess = q /\ w.id = j
        BY <3>2 DEF Runs
      <4>2. (IF w \in InFlight(s, i) THEN [w EXCEPT !.to = @ \cup {p}] ELSE w) \in running'
        BY <2>6
      <4> QED
        BY <3>1, <4>1, <4>2 DEF Runs
    <3>3. ASSUME NEW q, NEW j, Runs(q, j)' PROVE Runs(q, j)
      <4>1. PICK v \in running' : v.sess = q /\ v.id = j
        BY <3>3 DEF Runs
      <4>2. PICK w \in running : v = IF w \in InFlight(s, i) THEN [w EXCEPT !.to = @ \cup {p}] ELSE w
        BY <2>6
      <4> QED
        BY <3>1, <4>1, <4>2 DEF Runs
    <3>4. \A q, j : Fate(q, j)' = Fate(q, j)
      BY <2>4, <2>6, <3>2, <3>3, FateStays
    <3>5. Fates' = Fates
      BY <2>1, <3>4, SameFates
    <3> QED
      BY <2>1, <2>6, <3>5 DEF Ledger!vars
  <2>7. CASE /\ ~(s \in store /\ i \in Replied(s)) /\ InFlight(s, i) = {}
             /\ runs' = [runs EXCEPT ![s][i] = @ + 1]
             /\ running' = running \cup {[sess |-> s, id |-> i, run |-> runs'[s][i], to |-> {p}]}
    <3> DEFINE new == [sess |-> s, id |-> i, run |-> runs'[s][i], to |-> {p}]
    <3>1. new.sess = s /\ new.id = i /\ running' = running \cup {new}
      BY <2>7
    <3> HIDE DEF new
    <3>2. ASSUME NEW q \in store, NEW j \in Id, q # s \/ j # i PROVE Fate(q, j)' = Fate(q, j)
      <4>1. runs'[q][j] = runs[q][j]
        BY <1>0, <2>7, <3>2
      <4>2. Runs(q, j)' <=> Runs(q, j)
        BY <3>1, <3>2 DEF Runs
      <4> QED
        BY <2>4, <4>1, <4>2, FateStays
    <3>3. CASE s \in store
      <4>1. Fate(s, i)' = "running"
        BY <3>1 DEF Fate
      <4>2. Fates' = [Fates EXCEPT ![s][i] = "running"]
        BY <2>1, <3>2, <3>3, <4>1, OneFate
      <4>3. Fates[s][i] \in {"new", "forgotten"}
        <5>1. Fates[s][i] = Fate(s, i)
          BY <3>3 DEF Fates
        <5> QED
          BY <2>7, <3>3, <5>1 DEF Fate, InFlight
      <4>4. Ledger!Execute(s, i)
        BY <2>1, <2>3, <2>7, <3>3, <4>2, <4>3 DEF Ledger!Execute
      <4> QED
        BY <4>4 DEF Ledger!Next
    <3>4. CASE s \notin store
      <4>1. Fates' = Fates
        BY <2>1, <3>2, <3>4, SameFates
      <4>2. Ledger!Execute(s, i)
        BY <2>1, <2>3, <2>7, <3>4, <4>1 DEF Ledger!Execute
      <4> QED
        BY <4>2 DEF Ledger!Next
    <3> QED
      BY <3>3, <3>4
  <2> QED
    BY <2>1, <2>2, <2>3, <2>5, <2>6, <2>7 DEF OnCall
<1>4. ASSUME NEW p \in Pipe, PipeDies(p) PROVE UNCHANGED Ledger!vars
  <2>1. /\ running' = {[w EXCEPT !.to = @ \ {p}] : w \in running}
        /\ UNCHANGED <<minted, store, replies, runs, mine, answered>>
    BY <1>4 DEF PipeDies, Closing, storeVars, clientVars
  <2>2. ASSUME NEW w \in running
        PROVE  [w EXCEPT !.to = @ \ {p}].sess = w.sess /\ [w EXCEPT !.to = @ \ {p}].id = w.id
    BY <1>0 DEF Execution
  <2>3. \A q, j : Runs(q, j)' <=> Runs(q, j)
    <3>1. ASSUME NEW q, NEW j, Runs(q, j) PROVE Runs(q, j)'
      <4>1. PICK w \in running : w.sess = q /\ w.id = j
        BY <3>1 DEF Runs
      <4>2. [w EXCEPT !.to = @ \ {p}] \in running'
        BY <2>1
      <4> QED
        BY <2>2, <4>1, <4>2 DEF Runs
    <3>2. ASSUME NEW q, NEW j, Runs(q, j)' PROVE Runs(q, j)
      <4>1. PICK v \in running' : v.sess = q /\ v.id = j
        BY <3>2 DEF Runs
      <4>2. PICK w \in running : v = [w EXCEPT !.to = @ \ {p}]
        BY <2>1
      <4> QED
        BY <2>2, <4>1, <4>2 DEF Runs
    <3> QED
      BY <3>1, <3>2
  <2>4. \A q, j : Fate(q, j)' = Fate(q, j)
    BY <2>1, <2>3, FateStays DEF Replied
  <2>5. Fates' = Fates
    BY <2>1, <2>4, SameFates
  <2> QED
    BY <2>1, <2>5 DEF Ledger!vars
<1>5. ASSUME Mint, UNCHANGED <<running, runs, mine, answered>> PROVE Ledger!Next
  <2>1. PICK s \in Sess : s = minted'
    BY <1>0, <1>5, MintIs
  <2>2. /\ minted' = minted + 1 /\ store' \subseteq store \cup {s} /\ s \in store'
        /\ \A i \in Id : runs[s][i] = 0
        /\ \A w \in running : w.sess # s
        /\ Replied(s) = {} /\ replies' = replies
    <3>1. s \in store'
      BY <1>5, <2>1 DEF Mint
    <3> QED
      BY <1>0, <1>5, <2>1, <3>1, MintIs, MintedIsIdle
  <2>3. \A q, i : Fate(q, i)' = Fate(q, i)
    BY <1>5, <2>2 DEF Fate, Replied
  <2>4. \A i \in Id : Fate(s, i) = "new"
    BY <2>2 DEF Fate
  <2>5. Ledger!Keeping(s)
    BY <2>2, <2>3, <2>4, KeepingIs
  <2>6. s \notin 1..minted /\ 1..minted' = 1..minted \cup {s}
    BY <1>0, <2>1, <2>2
  <2>7. Ledger!Open(s)
    BY <1>5, <2>2, <2>5, <2>6 DEF Ledger!Open
  <2> QED
    BY <2>7 DEF Ledger!Next
<1>6. ASSUME NEW p \in Pipe, Connect(p) PROVE Ledger!Next
  BY <1>5, <1>6 DEF Connect, callVars
<1>7. CASE OtherOpens
  BY <1>5, <1>7 DEF OtherOpens, callVars, clientVars
<1>8. ASSUME NEW w \in running, Finish(w) PROVE [Ledger!Next]_(Ledger!vars)
  <2>1. /\ running' = running \ {w} /\ Record(w.sess, w.id) /\ UNCHANGED <<minted, store, runs, mine, answered>>
    BY <1>8 DEF Finish, clientVars
  <2>2. PICK s \in Sess, i \in Id : s = w.sess /\ i = w.id
    BY <1>0 DEF Execution
  <2>3. Record(s, i)
    BY <2>1, <2>2
  <2>4. \A q, j : q # s \/ j # i => (Runs(q, j)' <=> Runs(q, j))
    BY <2>1, <2>2 DEF Runs
  <2>5. CASE s \notin store
    <3>1. replies' = replies
      BY <2>3, <2>5 DEF Record
    <3>2. ASSUME NEW q \in store, NEW j \in Id PROVE Fate(q, j)' = Fate(q, j)
      <4>1. q # s
        BY <2>5
      <4> QED
        BY <2>1, <2>4, <3>1, <4>1, FateStays DEF Replied
    <3>3. Fates' = Fates
      BY <2>1, <3>2, SameFates
    <3> QED
      BY <2>1, <3>3 DEF Ledger!vars
  <2>6. CASE s \in store
    <3>1. Once(s) /\ i \notin Replied(s)
      BY <1>0, <2>2, <2>6 DEF ExecInv, Once
    <3>2. Recorded(s, i)
      BY <1>0, <2>3, <2>6, <3>1, RecordOnce DEF Once
    <3>3. Runs(s, i) /\ ~Runs(s, i)'
      BY <2>1, <2>2, <3>1 DEF Runs, Once
    <3>4. Fates[s][i] = "running"
      BY <2>6, <3>3 DEF Fates, Fate, Runs
    <3>5. Ledger!Kept(s) = Replied(s) /\ Cardinality(Ledger!Kept(s)) = Len(replies[s])
      BY <1>0, <2>6, <3>1, KeptIs
    <3>6. ASSUME NEW q \in store, NEW j \in Id, q # s PROVE Fate(q, j)' = Fate(q, j)
      <4>1. replies'[q] = replies[q]
        BY <1>0, <3>2, <3>6 DEF Recorded
      <4> QED
        BY <2>1, <2>4, <3>6, <4>1, FateStays DEF Replied
    <3>7. CASE Len(replies[s]) < MaxHistory /\ Replied(s)' = Replied(s) \cup {i}
      <4>1. Fate(s, i)' = "kept"
        BY <3>3, <3>7 DEF Fate, Runs
      <4>2. ASSUME NEW j \in Id, j # i PROVE Fate(s, j)' = Fate(s, j)
        BY <2>1, <2>4, <3>7, <4>2, FateStays
      <4>3. Fates' = [Fates EXCEPT ![s][i] = "kept"]
        BY <2>1, <2>6, <3>6, <4>1, <4>2, OneFate
      <4>4. Ledger!Finish(s, i)
        BY <2>1, <2>6, <3>4, <3>5, <3>7, <4>3, SameCount DEF Ledger!Finish
      <4> QED
        BY <4>4 DEF Ledger!Next
    <3>8. CASE /\ Len(replies[s]) >= MaxHistory
               /\ \E j \in Replied(s) : Replied(s)' = (Replied(s) \cup {i}) \ {j}
      <4>1. PICK j \in Replied(s) : Replied(s)' = (Replied(s) \cup {i}) \ {j}
        BY <3>8
      <4>2. j \in Id /\ j # i
        BY <1>0, <3>1, ElementOfSeq DEF Replied
      <4>3. Fate(s, i)' = "kept"
        <5>1. i \in Replied(s)'
          BY <4>1, <4>2
        <5> QED
          BY <3>3, <5>1 DEF Fate, Runs
      <4>4. ~Runs(s, j)'
        <5>1. ~Runs(s, j)
          BY <3>1 DEF Runs, Once
        <5> QED
          BY <2>4, <4>2, <5>1
      <4>5. Fate(s, j)' = "forgotten"
        <5>1. runs'[s][j] > 0
          BY <1>0, <2>1 DEF ExecInv
        <5> QED
          BY <4>1, <4>4, <5>1 DEF Fate, Runs
      <4>6. ASSUME NEW k \in Id, k # i, k # j PROVE Fate(s, k)' = Fate(s, k)
        BY <2>1, <2>4, <4>1, <4>6, FateStays
      <4>7. Fates' = [Fates EXCEPT ![s][i] = "kept", ![s][j] = "forgotten"]
        BY <2>1, <2>6, <3>6, <4>2, <4>3, <4>5, <4>6, TwoFates
      <4>8. Ledger!Finish(s, i)
        <5>1. /\ Ledger!Cardinality(Ledger!Kept(s)) >= MaxHistory
              /\ \E k \in Ledger!Kept(s) : Fates' = [Fates EXCEPT ![s][i] = "kept", ![s][k] = "forgotten"]
          <6>1. Ledger!Cardinality(Ledger!Kept(s)) >= MaxHistory
            BY <3>5, <3>8, SameCount
          <6> QED
            BY <3>5, <4>7, <6>1, Zenon
        <5> QED
          BY <2>1, <2>6, <3>4, <5>1, Zenon DEF Ledger!Finish
      <4> QED
        BY <4>8 DEF Ledger!Next
    <3> QED
      BY <3>2, <3>7, <3>8 DEF Recorded
  <2> QED
    BY <2>5, <2>6
<1>9. CASE Tick \/ Call \/ LoseSocket \/ UNCHANGED vars
  BY <1>1, <1>9 DEF Tick, Call, LoseSocket, vars, storeVars, callVars, clientVars
<1>10. CASE Receive
  <2> DEFINE f == Head(down[cur])
  <2>1. /\ cur \in Pipe /\ cur # None /\ down[cur] # <<>>
        /\ UNCHANGED <<minted, store, running, replies, runs>>
    BY <1>10 DEF Receive, storeVars, callVars, LedgerInv, Inv, PipeInv, TypeOK
  <2>2. session[cur] \in 1..minted
    BY <2>1 DEF LedgerInv, Inv, PipeInv
  <2>3. Fates' = Fates
    BY <2>1, SameFates DEF Fate, Replied
  <2>4. ASSUME mine' = session[cur], answered' = {}, Untouched(session[cur]) PROVE Ledger!Next
    <3>1. PICK s \in Sess : s = session[cur] /\ s \in 1..minted /\ Untouched(s)
      BY <1>0, <2>2, <2>4
    <3>2. runs[s] = [i \in Id |-> 0]
      BY <1>0, <3>1 DEF Untouched
    <3>3. Ledger!Adopt(s)
      BY <2>1, <2>3, <2>4, <3>1, <3>2 DEF Ledger!Adopt, Ledger!All
    <3> QED
      BY <3>3 DEF Ledger!Next
  <2>5. ASSUME UNCHANGED <<mine, answered>> PROVE UNCHANGED Ledger!vars
    BY <1>1, <2>1, <2>5
  <2>6. CASE f.t = "ready" /\ OnReady(f.sess)
    <3>1. Hello /\ f.sess = session[cur]
      BY <1>0, <2>1, <2>6, HeadTells
    <3>2. CASE mine = None
      <4>1. mine' = session[cur] /\ answered' = {}
        BY <1>0, <2>6, <3>1, <3>2 DEF OnReady, Known
      <4> QED
        BY <2>4, <3>1, <4>1 DEF Hello
    <3>3. CASE mine # None
      BY <2>5, <2>6, <3>3 DEF OnReady
    <3> QED
      BY <3>2, <3>3
  <2>7. CASE f.t = "resumed" /\ OnResumed
    BY <2>5, <2>7 DEF OnResumed
  <2>8. CASE f.t = "resumeFailed" /\ OnResumeFailed(f.sess)
    <3>1. Refused /\ f.sess = session[cur]
      BY <1>0, <2>1, <2>8, HeadTells
    <3>2. mine' = session[cur] /\ answered' = {}
      BY <2>8, <3>1 DEF OnResumeFailed
    <3> QED
      BY <2>4, <3>1, <3>2 DEF Refused
  <2>9. CASE f.t = "reply" /\ OnReply(f.id)
    <3>1. Ready /\ runs[mine][f.id] > 0 /\ f.id \in Id
      BY <1>0, <2>1, <2>9, HeadTells, DownHead
    <3>2. mine \in 1..minted
      BY <2>2, <3>1 DEF Ready
    <3>3. answered' = answered \cup {f.id} /\ mine' = mine
      BY <2>9 DEF OnReply
    <3>4. Ledger!Answer(f.id)
      BY <2>1, <2>3, <3>1, <3>2, <3>3 DEF Ledger!Answer
    <3> QED
      BY <3>1, <3>4 DEF Ledger!Next
  <2> QED
    BY <1>10, <2>6, <2>7, <2>8, <2>9 DEF Receive
<1>11. ASSUME NEW p \in Pipe, Handle(p) PROVE [Ledger!Next]_(Ledger!vars)
  BY <1>2, <1>3, <1>11 DEF Handle
<1> QED
  BY <1>4, <1>6, <1>7, <1>8, <1>9, <1>1, <1>10, <1>11 DEF Next

(* At first there is no session, and nothing is known of any call.         *)
LEMMA LedgerInit == Init => LedgerInv /\ Ledger!Init
<1> SUFFICES ASSUME Init PROVE LedgerInv /\ Ledger!Init
  OBVIOUS
<1>1. Inv
  BY InitInv
<1>2. Len(<<>>) = 0 /\ \A s \in Sess : Replied(s) = {}
  BY DEF Init, Replied
<1>3. ExecInv
  BY <1>2 DEF Init, ExecInv
<1>4. Known
  <2>1. \A s : ~Named(<<>>, s)
    BY OnFew DEF Named
  <2> QED
    BY <2>1 DEF Init, Known
<1>5. HandInv
  BY DEF Init, HandInv
<1>6. Ledger!Init
  <2>1. 1..minted = {}
    BY DEF Init
  <2>2. Fates = [s \in Sess |-> Ledger!All("unknown")]
    BY DEF Init, Fates, Ledger!All
  <2>3. runs = [s \in Sess |-> Ledger!All(0)]
    BY DEF Init, Ledger!All
  <2> QED
    BY <2>1, <2>2, <2>3 DEF Init, Ledger!Init
<1> QED
  BY <1>1, <1>3, <1>4, <1>5, <1>6 DEF LedgerInv

(* The three invariants hold in every state.                               *)
THEOREM LedgerInvariance == Spec => []LedgerInv
<1>1. LedgerInv /\ [Next]_vars => LedgerInv'
  <2> SUFFICES ASSUME LedgerInv, [Next]_vars PROVE LedgerInv'
    OBVIOUS
  <2>1. Inv'
    BY PipeStep, ClientStep, RoomStep, CallStep, StrandStep DEF LedgerInv, Inv
  <2>2. PipeInv /\ PipeInv' /\ RoomInv /\ CallInv /\ ExecInv /\ Known /\ HandInv
    BY <2>1 DEF LedgerInv, Inv
  <2>3. ExecInv' /\ Known' /\ HandInv'
    BY <2>2, ExecStep, KnownStep, HandStep
  <2> QED
    BY <2>1, <2>3 DEF LedgerInv
<1> QED
  BY <1>1, LedgerInit, PTL DEF Spec

(* Whatever sockets die and however often the client resumes and resends,  *)
(* the pipe keeps its ledger: a call of a session that is held runs once   *)
(* at a time and again only after its reply fell out of a full history,    *)
(* and the client is answered only calls that were executed.               *)
THEOREM ImplementsLedger == Spec => KeepsTheLedger
<1>1. Init => Ledger!Init
  BY LedgerInit
<1>2. LedgerInv /\ LedgerInv' /\ [Next]_vars => [Ledger!Next]_(Ledger!vars)
  BY LedgerStep
<1> QED
  BY <1>1, <1>2, LedgerInvariance, PTL DEF Spec, KeepsTheLedger, Ledger!Spec
=============================================================================
