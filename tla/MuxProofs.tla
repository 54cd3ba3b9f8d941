----------------------------- MODULE MuxProofs -----------------------------
(***************************************************************************)
(* Proofs about Mux for every set of streams, every window, batch and      *)
(* payload size that satisfy WireAssumption, and every bound on reads and  *)
(* writes.                                                                 *)
(***************************************************************************)
EXTENDS Mux, TLAPS

USE WireAssumption, ReadWriteAssumption

(* Credit the bridge gave up by sending on a dead link never comes back.   *)
NoCreditMade ==
  \A i \in Stream : credit[i] + outData[i] + peerHeld[i] + inGrant[i] <= Window

(* Less than a batch is ever owed.                                         *)
LessThanABatch == \A i \in Stream : unacked[i] < Batch

(* The windows, with what keeps them from overflowing: inductive.          *)
CreditInv == TypeOK /\ CreditIn /\ CreditOut /\ NoCreditMade /\ LessThanABatch

-----------------------------------------------------------------------------
(* A burst is part of what is to be sent, and within the credit.           *)
LEMMA BurstBound ==
  ASSUME TypeOK, NEW i \in Stream, NEW n \in Nat
  PROVE  Burst(i, n) \in 0..n /\ Burst(i, n) <= credit[i]
<1> DEFINE c == credit[i]
           whole == (c \div MaxPayload) * MaxPayload
<1>1. c \in Nat
  BY DEF TypeOK
<1>2. whole \in 0..c
  BY <1>1
<1> QED
  BY <1>1, <1>2 DEF Burst

(* Ending streams keeps the types of what their readers and writers wait   *)
(* for.                                                                    *)
LEMMA FinishTypes ==
  ASSUME TypeOK, NEW I, FinishAll(I)
  PROVE  /\ ended' \in [Stream -> BOOLEAN] /\ parked' \in [Stream -> BOOLEAN]
         /\ waiting' \in [Stream -> 0..MaxRead]
<1>1. ended' \in [Stream -> BOOLEAN]
  BY DEF TypeOK, FinishAll
<1>2. parked' \in [Stream -> BOOLEAN]
  BY DEF TypeOK, FinishAll
<1>3. waiting' \in [Stream -> 0..MaxRead]
  BY DEF TypeOK, FinishAll
<1> QED
  BY <1>1, <1>2, <1>3

-----------------------------------------------------------------------------
(* A new link has all its windows open.                                    *)
LEMMA CreditInit == Init => CreditInv
BY DEF Init, All, CreditInv, TypeOK, CreditIn, CreditOut, NoCreditMade, LessThanABatch

(* A step that touches no byte counter keeps the windows.                  *)
LEMMA CountersUntouched ==
  ASSUME CreditInv, UNCHANGED <<unacked, credit, wireVars, peerVars>>, up' => up
  PROVE  CreditIn' /\ CreditOut' /\ NoCreditMade' /\ LessThanABatch'
BY DEF CreditInv, CreditIn, CreditOut, NoCreditMade, LessThanABatch, wireVars, peerVars

(* The body of `write` moves credit into the frames under way, or drops it *)
(* when the link is down.                                                  *)
LEMMA WriteOnStep ==
  ASSUME CreditInv, NEW i \in Stream, NEW n \in 1..MaxWrite, WriteOn(i, n),
         UNCHANGED <<up, remote, ended, readerVars, closeSent, inData, inGrant, outGrant, peerVars>>
  PROVE  CreditInv'
<1> DEFINE b == Burst(i, n)
<1>1. b \in 0..n /\ b <= credit[i]
  BY BurstBound DEF CreditInv
<1> HIDE DEF b
<1>2. credit' = [credit EXCEPT ![i] = credit[i] - b]
  BY <1>1 DEF WriteOn, Add, b, CreditInv, TypeOK
<1>3. outData' = IF up THEN [outData EXCEPT ![i] = outData[i] + b] ELSE outData
  BY DEF WriteOn, Add, b
<1>4. rest' = [rest EXCEPT ![i] = IF ended[i] THEN 0 ELSE n - b]
  BY DEF WriteOn, Set, b
<1>5. CreditOut' /\ NoCreditMade'
  BY <1>1, <1>2, <1>3 DEF CreditInv, TypeOK, CreditOut, NoCreditMade, peerVars
<1>6. CreditIn' /\ LessThanABatch'
  BY DEF CreditInv, CreditIn, LessThanABatch, readerVars, peerVars
<1>7. credit' \in [Stream -> 0..Window]
  BY <1>1, <1>2 DEF CreditInv, TypeOK
<1>8. outData' \in [Stream -> 0..Window]
  <2>1. ASSUME NEW j \in Stream PROVE outData'[j] \in 0..Window
    BY <1>1, <1>2, <1>3 DEF CreditInv, TypeOK, NoCreditMade
  <2> QED
    BY <1>3, <2>1 DEF CreditInv, TypeOK
<1>9. rest' \in [Stream -> 0..MaxWrite]
  BY <1>1, <1>4 DEF CreditInv, TypeOK
<1>10. parked' \in [Stream -> BOOLEAN]
  <2>1. (~ended[i] /\ n - Burst(i, n) > 0) \in BOOLEAN
    OBVIOUS
  <2> QED
    BY <2>1 DEF CreditInv, TypeOK, WriteOn, Set
<1>11. TypeOK'
  BY <1>7, <1>8, <1>9, <1>10 DEF CreditInv, TypeOK, readerVars, peerVars
<1> QED
  BY <1>5, <1>6, <1>11 DEF CreditInv

(* DATA turns bytes under way into bytes not acknowledged or granted back. *)
LEMMA OnDataStep ==
  ASSUME CreditInv, NEW i \in Stream, NEW n \in Payload, OnData(i, n)
  PROVE  CreditInv'
<1> DEFINE owed == Owed(unacked[i] + n)
           total == size[i] + n
           serve == waiting[i] > 0 /\ waiting[i] <= total
<1> USE DEF Payload
<1>1. n \in Nat /\ n <= inData[i] /\ unacked[i] \in Nat /\ total \in Nat
  BY DEF OnData, CreditInv, TypeOK
<1>2. owed \in 0..(unacked[i] + n) /\ unacked[i] + n - owed < Batch
  BY <1>1 DEF Owed
<1>3. /\ inData' = [inData EXCEPT ![i] = inData[i] - n]
      /\ unacked' = [unacked EXCEPT ![i] = unacked[i] + n - owed]
      /\ outGrant' = [outGrant EXCEPT ![i] = outGrant[i] + owed]
  BY <1>1 DEF OnData, Add, Set, CreditInv, TypeOK
<1>4. /\ size' = [size EXCEPT ![i] = IF serve THEN total - waiting[i] ELSE total]
      /\ waiting' = IF serve THEN [waiting EXCEPT ![i] = 0] ELSE waiting
  BY DEF OnData, Set
<1>5. UNCHANGED <<up, remote, ended, writerVars, closeSent, inGrant, outData, peerVars>>
  BY DEF OnData
<1>6. size' \in [Stream -> Nat] /\ waiting' \in [Stream -> 0..MaxRead]
  BY <1>1, <1>4 DEF CreditInv, TypeOK
<1> HIDE DEF owed, total, serve
<1>7. CreditIn' /\ LessThanABatch'
  BY <1>1, <1>2, <1>3, <1>5 DEF CreditInv, TypeOK, CreditIn, LessThanABatch, peerVars
<1>8. CreditOut' /\ NoCreditMade'
  BY <1>5 DEF CreditInv, CreditOut, NoCreditMade, writerVars, peerVars
<1>9. ASSUME NEW j \in Stream
      PROVE  inData'[j] \in 0..Window /\ unacked'[j] \in 0..Window /\ outGrant'[j] \in 0..Window
  BY <1>1, <1>2, <1>3, <1>5, <1>7 DEF CreditInv, TypeOK, CreditIn, peerVars
<1>10. TypeOK'
  BY <1>3, <1>5, <1>6, <1>9 DEF CreditInv, TypeOK, writerVars, peerVars
<1> QED
  BY <1>7, <1>8, <1>10 DEF CreditInv

(* Every other frame moves between two counters of one stream.             *)
LEMMA FrameStep ==
  ASSUME CreditInv, NEW i \in Stream, NEW n \in Nat,
         \/ OnGrant(i, n)
         \/ PeerSends(i, n)
         \/ PeerReceives(i, n)
         \/ PeerIsGranted(i, n)
         \/ PeerGrants(i)
  PROVE  CreditInv'
<1> USE DEF CreditInv, TypeOK, Add, Set, readerVars, writerVars, wireVars, peerVars
<1>1. ASSUME OnGrant(i, n) PROVE CreditInv'
  <2>1. CreditIn' /\ CreditOut' /\ NoCreditMade' /\ LessThanABatch'
    BY <1>1 DEF OnGrant, CreditIn, CreditOut, NoCreditMade, LessThanABatch
  <2>2. ASSUME NEW j \in Stream PROVE credit'[j] \in 0..Window /\ inGrant'[j] \in 0..Window
    BY <1>1, <2>1 DEF OnGrant, NoCreditMade
  <2>3. parked' \in [Stream -> BOOLEAN]
    BY <1>1 DEF OnGrant
  <2>4. credit' \in [Stream -> 0..Window] /\ inGrant' \in [Stream -> 0..Window]
    BY <1>1, <2>2 DEF OnGrant
  <2> QED
    BY <1>1, <2>1, <2>3, <2>4 DEF OnGrant
<1>2. ASSUME PeerSends(i, n) PROVE CreditInv'
  <2>1. CreditIn' /\ CreditOut' /\ NoCreditMade' /\ LessThanABatch'
    BY <1>2 DEF PeerSends, CreditIn, CreditOut, NoCreditMade, LessThanABatch
  <2>2. ASSUME NEW j \in Stream PROVE peerCredit'[j] \in 0..Window /\ inData'[j] \in 0..Window
    BY <1>2, <2>1 DEF PeerSends, CreditIn
  <2>3. peerCredit' \in [Stream -> 0..Window] /\ inData' \in [Stream -> 0..Window]
    BY <1>2, <2>2 DEF PeerSends
  <2> QED
    BY <1>2, <2>1, <2>3 DEF PeerSends
<1>3. ASSUME PeerReceives(i, n) PROVE CreditInv'
  <2>1. CreditIn' /\ CreditOut' /\ NoCreditMade' /\ LessThanABatch'
    BY <1>3 DEF PeerReceives, CreditIn, CreditOut, NoCreditMade, LessThanABatch
  <2>2. ASSUME NEW j \in Stream PROVE outData'[j] \in 0..Window /\ peerHeld'[j] \in 0..Window
    BY <1>3, <2>1 DEF PeerReceives, NoCreditMade
  <2>3. outData' \in [Stream -> 0..Window] /\ peerHeld' \in [Stream -> 0..Window]
    BY <1>3, <2>2 DEF PeerReceives
  <2> QED
    BY <1>3, <2>1, <2>3 DEF PeerReceives
<1>4. ASSUME PeerIsGranted(i, n) PROVE CreditInv'
  <2>1. CreditIn' /\ CreditOut' /\ NoCreditMade' /\ LessThanABatch'
    BY <1>4 DEF PeerIsGranted, CreditIn, CreditOut, NoCreditMade, LessThanABatch
  <2>2. ASSUME NEW j \in Stream PROVE outGrant'[j] \in 0..Window /\ peerCredit'[j] \in 0..Window
    BY <1>4, <2>1 DEF PeerIsGranted, CreditIn
  <2>3. outGrant' \in [Stream -> 0..Window] /\ peerCredit' \in [Stream -> 0..Window]
    BY <1>4, <2>2 DEF PeerIsGranted
  <2> QED
    BY <1>4, <2>1, <2>3 DEF PeerIsGranted
<1>5. ASSUME PeerGrants(i) PROVE CreditInv'
  <2>1. CreditIn' /\ CreditOut' /\ NoCreditMade' /\ LessThanABatch'
    BY <1>5 DEF PeerGrants, CreditIn, CreditOut, NoCreditMade, LessThanABatch
  <2>2. ASSUME NEW j \in Stream PROVE inGrant'[j] \in 0..Window /\ peerHeld'[j] \in 0..Window
    BY <1>5, <2>1 DEF PeerGrants, NoCreditMade
  <2>3. inGrant' \in [Stream -> 0..Window] /\ peerHeld' \in [Stream -> 0..Window]
    BY <1>5, <2>2 DEF PeerGrants
  <2> QED
    BY <1>5, <2>1, <2>3 DEF PeerGrants
<1> QED
  BY <1>1, <1>2, <1>3, <1>4, <1>5

(* One step keeps the windows.                                             *)
LEMMA CreditStep == CreditInv /\ [Next]_vars => CreditInv'
<1> SUFFICES ASSUME CreditInv, [Next]_vars PROVE CreditInv'
  OBVIOUS
<1> USE DEF readerVars, writerVars
<1>1. ASSUME NEW i \in Stream, OnOpen(i) \/ PeerOpens(i) \/ PeerCloses(i) PROVE CreditInv'
  <2>1. CreditIn' /\ CreditOut' /\ NoCreditMade' /\ LessThanABatch'
    BY <1>1, CountersUntouched DEF OnOpen, PeerOpens, PeerCloses
  <2>2. remote' \in [Stream -> {"new", "opening", "open", "closing", "closed"}]
    BY <1>1 DEF OnOpen, PeerOpens, PeerCloses, Set, CreditInv, TypeOK
  <2>3. UNCHANGED <<up, ended, readerVars, writerVars, closeSent, wireVars, peerVars>>
    BY <1>1 DEF OnOpen, PeerOpens, PeerCloses
  <2> QED
    BY <2>1, <2>2, <2>3 DEF CreditInv, TypeOK, wireVars, peerVars
<1>2. ASSUME NEW i \in Stream, OnClose(i) PROVE CreditInv'
  <2>1. CreditIn' /\ CreditOut' /\ NoCreditMade' /\ LessThanABatch'
    BY <1>2, CountersUntouched DEF OnClose
  <2>2. remote' \in [Stream -> {"new", "opening", "open", "closing", "closed"}]
    BY <1>2 DEF OnClose, Set, CreditInv, TypeOK
  <2> QED
    BY <1>2, <2>1, <2>2, FinishTypes DEF OnClose, CreditInv, TypeOK, wireVars, peerVars
<1>3. ASSUME NEW i \in Stream, Close(i) PROVE CreditInv'
  <2>1. CreditIn' /\ CreditOut' /\ NoCreditMade' /\ LessThanABatch'
    BY <1>3, CountersUntouched DEF Close
  <2>2. (up \/ closeSent[i]) \in BOOLEAN /\ closeSent' \in [Stream -> BOOLEAN]
    BY <1>3 DEF Close, Set, CreditInv, TypeOK
  <2> QED
    BY <1>3, <2>1, <2>2, FinishTypes DEF Close, CreditInv, TypeOK, wireVars, peerVars
<1>4. ASSUME Destroy PROVE CreditInv'
  <2>1. CreditIn' /\ CreditOut' /\ NoCreditMade' /\ LessThanABatch'
    BY <1>4, CountersUntouched DEF Destroy
  <2> QED
    BY <1>4, <2>1, FinishTypes DEF Destroy, CreditInv, TypeOK, wireVars, peerVars
<1>5. ASSUME NEW i \in Stream, NEW n \in 1..MaxRead, ReadExactly(i, n) PROVE CreditInv'
  <2>1. CreditIn' /\ CreditOut' /\ NoCreditMade' /\ LessThanABatch'
    BY <1>5, CountersUntouched DEF ReadExactly
  <2>2. size' \in [Stream -> Nat] /\ waiting' \in [Stream -> 0..MaxRead]
    BY <1>5 DEF ReadExactly, Add, Set, CreditInv, TypeOK
  <2> QED
    BY <1>5, <2>1, <2>2 DEF ReadExactly, CreditInv, TypeOK, wireVars, peerVars
<1>6. ASSUME NEW i \in Stream, NEW n \in 1..MaxWrite, Write(i, n) PROVE CreditInv'
  BY <1>6, WriteOnStep DEF Write
<1>7. ASSUME NEW i \in Stream, WriteResumes(i) PROVE CreditInv'
  <2>1. rest[i] \in 1..MaxWrite
    BY <1>7 DEF WriteResumes, CreditInv, TypeOK
  <2> QED
    BY <1>7, <2>1, WriteOnStep DEF WriteResumes
<1>8. ASSUME NEW i \in Stream, NEW n \in Nat,
             \/ OnGrant(i, n) \/ PeerSends(i, n) \/ PeerReceives(i, n)
             \/ PeerIsGranted(i, n) \/ PeerGrants(i)
      PROVE  CreditInv'
  BY <1>8, FrameStep
<1>9. ASSUME NEW i \in Stream, PeerGrants(i) PROVE CreditInv'
  BY <1>9, FrameStep, 0 \in Nat
<1>10. CASE UNCHANGED vars
  <2>1. CreditIn' /\ CreditOut' /\ NoCreditMade' /\ LessThanABatch'
    BY <1>10, CountersUntouched DEF vars
  <2> QED
    BY <1>10, <2>1 DEF vars, CreditInv, TypeOK, wireVars, peerVars
<1>11. Payload \subseteq Nat /\ Update \subseteq Nat
  BY DEF Payload, Update
<1> QED
  BY <1>1, <1>2, <1>3, <1>4, <1>5, <1>6, <1>7, <1>8, <1>9, <1>10, <1>11, OnDataStep DEF Next

-----------------------------------------------------------------------------
(* Whatever a stream has been through, one window of inbound credit is     *)
(* accounted for, and one of outbound credit while the link is up; no      *)
(* counter overflows its window or goes below zero.                        *)
THEOREM CreditIsKept == Spec => []CreditKept
<1>1. CreditInv => CreditKept
  BY DEF CreditInv, CreditKept
<1> QED
  BY <1>1, CreditInit, CreditStep, PTL DEF Spec

(* Batching credit never stalls the relay: what it can be short of is less *)
(* than a batch, and a batch and a payload fit in the window.              *)
THEOREM CreditSuffices == Spec => []NeverStalls
<1>1. CreditInv => NeverStalls
  BY DEF CreditInv, TypeOK, CreditIn, LessThanABatch, NeverStalls
<1> QED
  BY <1>1, CreditInit, CreditStep, PTL DEF Spec

-----------------------------------------------------------------------------
(* How streams end: inductive on its own, but for the types.               *)
EndInv == TypeOK /\ EndSettlesAll /\ EndIsShared

(* A new link has no stream that ended.                                    *)
LEMMA EndInit == Init => EndInv
BY CreditInit DEF CreditInv, Init, All, EndInv, EndSettlesAll, EndIsShared

(* A step that ends no stream, starts no wait and takes back no CLOSE.     *)
LEMMA EndStep == CreditInv /\ EndInv /\ [Next]_vars => EndInv'
<1> SUFFICES ASSUME CreditInv, EndInv, [Next]_vars PROVE EndSettlesAll' /\ EndIsShared'
  BY CreditStep DEF CreditInv, EndInv
<1> USE DEF EndInv, EndSettlesAll, EndIsShared, TypeOK
<1>1. ASSUME NEW i \in Stream, OnOpen(i) \/ PeerOpens(i) \/ PeerCloses(i)
      PROVE  EndSettlesAll' /\ EndIsShared'
  BY <1>1 DEF OnOpen, PeerOpens, PeerCloses, Set, readerVars, writerVars
<1>2. ASSUME NEW i \in Stream, OnClose(i) PROVE EndSettlesAll' /\ EndIsShared'
  BY <1>2 DEF OnClose, FinishAll, Set
<1>3. ASSUME NEW i \in Stream, Close(i) PROVE EndSettlesAll' /\ EndIsShared'
  BY <1>3 DEF Close, FinishAll, Set
<1>4. ASSUME Destroy PROVE EndSettlesAll' /\ EndIsShared'
  BY <1>4 DEF Destroy, FinishAll
<1>5. ASSUME NEW i \in Stream, NEW n \in 1..MaxRead, ReadExactly(i, n)
      PROVE  EndSettlesAll' /\ EndIsShared'
  BY <1>5 DEF ReadExactly, Set, writerVars
<1>6. ASSUME NEW i \in Stream, NEW n \in 1..MaxWrite, Write(i, n)
      PROVE  EndSettlesAll' /\ EndIsShared'
  BY <1>6 DEF Write, WriteOn, Set, readerVars
<1>7. ASSUME NEW i \in Stream, WriteResumes(i) PROVE EndSettlesAll' /\ EndIsShared'
  BY <1>7 DEF WriteResumes, WriteOn, Set, readerVars
<1>8. ASSUME NEW i \in Stream, NEW n \in Payload, OnData(i, n)
      PROVE  EndSettlesAll' /\ EndIsShared'
  BY <1>8 DEF OnData, Set, writerVars
<1>9. ASSUME NEW i \in Stream, NEW n \in Update, OnGrant(i, n)
      PROVE  EndSettlesAll' /\ EndIsShared'
  BY <1>9 DEF OnGrant, Set, readerVars
<1>10. ASSUME UNCHANGED <<up, remote, ended, readerVars, writerVars, closeSent>>
       PROVE  EndSettlesAll' /\ EndIsShared'
  BY <1>10 DEF readerVars, writerVars
<1>11. ASSUME NEW i \in Stream, NEW n,
              \/ PeerSends(i, n) \/ PeerReceives(i, n) \/ PeerIsGranted(i, n) \/ PeerGrants(i)
       PROVE  EndSettlesAll' /\ EndIsShared'
  BY <1>10, <1>11 DEF PeerSends, PeerReceives, PeerIsGranted, PeerGrants
<1>12. CASE UNCHANGED vars
  BY <1>10, <1>12 DEF vars
<1> QED
  BY <1>1, <1>2, <1>3, <1>4, <1>5, <1>6, <1>7, <1>8, <1>9, <1>11, <1>12 DEF Next

(* Nobody waits on a stream that has ended, and while the link is up none  *)
(* has ended on the bridge's side alone.                                   *)
THEOREM EndIsHeard == Spec => []EndReachesAll
<1>1. CreditInv /\ EndInv => EndReachesAll
  BY DEF EndInv, EndReachesAll
<1> QED
  BY <1>1, CreditInit, CreditStep, EndInit, EndStep, PTL DEF Spec

=============================================================================
