-------------------------------- MODULE Mux --------------------------------
(***************************************************************************)
(* MuxLink and MuxStream of src/src/mux.ts: the streams multiplexed on one *)
(* link to the relay, with a credit window in each direction.              *)
(*                                                                         *)
(* The link is a TCP connection, so frames arrive in order or the link is  *)
(* gone.  Of the frames on their way only what the streams tell apart is   *)
(* kept: how many bytes of DATA and how many granted by WINDOW_UPDATE are  *)
(* under way per stream and direction (the two kinds act on different      *)
(* fields, so their order does not matter), and whether OPEN is ahead of   *)
(* them or CLOSE behind them.  The relay is external: it opens each stream *)
(* id once, keeps to its credit and sends nothing after CLOSE.             *)
(***************************************************************************)
EXTENDS Integers, FiniteSets

CONSTANTS
  Stream,      \* stream ids
  Window,      \* WINDOW
  Batch,       \* WINDOW_BATCH
  MaxPayload,  \* MAX_PAYLOAD
  MaxRead,     \* bound on the bytes one readExactly asks for
  MaxWrite,    \* bound on the bytes one write is given
  MaxBuffered  \* bound on the bytes sent to a reader that does not read

ASSUME WireAssumption ==
  /\ Window \in Nat /\ Batch \in Nat \ {0} /\ MaxPayload \in Nat \ {0}
  /\ Batch + MaxPayload <= Window
ASSUME ReadWriteAssumption == MaxRead \in Nat /\ MaxWrite \in Nat /\ MaxBuffered \in Nat

VARIABLES
  up,        \* ~MuxLink.closed
  remote,    \* the relay's side of a stream: new, opening (OPEN under way),
             \* open, closing (CLOSE under way), closed
  ended,     \* MuxStream.ended
  size,      \* MuxStream.size: bytes buffered
  unacked,   \* MuxStream.unacked
  credit,    \* MuxStream.credit
  waiting,   \* MuxStream.waiting: what a pending readExactly needs, or 0
  rest,      \* what a write still has to send, 0 if none is in progress
  parked,    \* does that write wait in `drains`?
  closeSent, \* has the bridge sent CLOSE?
  inData, inGrant,   \* bytes under way to the bridge: DATA, WINDOW_UPDATE
  outData, outGrant, \* the same to the relay
  peerCredit, \* external: bytes the relay may still send
  peerHeld    \* external: bytes the relay has received and not granted back

readerVars == <<size, unacked, waiting>>
writerVars == <<credit, rest, parked>>
wireVars   == <<inData, inGrant, outData, outGrant>>
peerVars   == <<peerCredit, peerHeld>>
vars == <<up, remote, ended, readerVars, writerVars, closeSent, wireVars, peerVars>>

Opened == {i \in Stream : remote[i] \in {"open", "closing", "closed"}}

TypeOK ==
  /\ up \in BOOLEAN
  /\ remote \in [Stream -> {"new", "opening", "open", "closing", "closed"}]
  /\ ended \in [Stream -> BOOLEAN] /\ parked \in [Stream -> BOOLEAN]
  /\ closeSent \in [Stream -> BOOLEAN]
  /\ size \in [Stream -> Nat] /\ waiting \in [Stream -> 0..MaxRead]
  /\ unacked \in [Stream -> 0..Window]
  /\ rest \in [Stream -> 0..MaxWrite] /\ credit \in [Stream -> 0..Window]
  /\ inData \in [Stream -> 0..Window] /\ inGrant \in [Stream -> 0..Window]
  /\ outData \in [Stream -> 0..Window] /\ outGrant \in [Stream -> 0..Window]
  /\ peerCredit \in [Stream -> 0..Window] /\ peerHeld \in [Stream -> 0..Window]

All(v) == [i \in Stream |-> v]

Init ==
  /\ up = TRUE /\ remote = All("new")
  /\ ended = All(FALSE) /\ parked = All(FALSE) /\ closeSent = All(FALSE)
  /\ size = All(0) /\ unacked = All(0) /\ waiting = All(0)
  /\ rest = All(0) /\ credit = All(Window)
  /\ inData = All(0) /\ inGrant = All(0) /\ outData = All(0) /\ outGrant = All(0)
  /\ peerCredit = All(Window) /\ peerHeld = All(0)

Add(f, i, n) == [f EXCEPT ![i] = @ + n]
Set(f, i, v) == [f EXCEPT ![i] = v]

-----------------------------------------------------------------------------
(* Mutant of FinishAll: a parked write is not woken by the end.            *)
FinishReadersOnly(I) ==
  /\ ended'   = [i \in Stream |-> i \in I \/ ended[i]]
  /\ waiting' = [i \in Stream |-> IF i \in I THEN 0 ELSE waiting[i]]
  /\ UNCHANGED parked

(* `finish` of every stream in I: a pending read gives up (what it needs   *)
(* is not there, or it would not be pending) and a parked write is woken.  *)
FinishAll(I) ==
  /\ ended'   = [i \in Stream |-> i \in I \/ ended[i]]
  /\ waiting' = [i \in Stream |-> IF i \in I THEN 0 ELSE waiting[i]]
  /\ parked'  = [i \in Stream |-> i \notin I /\ parked[i]]

(* OPEN is dispatched: the stream is created and served.                   *)
OnOpen(i) ==
  /\ up /\ remote[i] = "opening"
  /\ remote' = Set(remote, i, "open")
  /\ UNCHANGED <<up, ended, readerVars, writerVars, closeSent, wireVars, peerVars>>

(* Mutant of Owed: credit is returned only once the window is used up.     *)
OwedAtTheEnd(n) == IF n < Window THEN 0 ELSE n

(* Credit is returned in batches.                                          *)
Owed(n) == IF n < Batch THEN 0 ELSE n

(* Mutant of OnData: what an ended stream receives is not acknowledged.    *)
OnDataUnlessEnded(i, n) ==
  LET total == size[i] + n
      owed  == IF ended[i] THEN 0 ELSE Owed(unacked[i] + n)
      serve == waiting[i] > 0 /\ waiting[i] <= total IN
  /\ up /\ i \in Opened /\ n <= inData[i]
  /\ inData'   = Add(inData, i, -n)
  /\ size'     = Set(size, i, IF serve THEN total - waiting[i] ELSE total)
  /\ waiting'  = IF serve THEN Set(waiting, i, 0) ELSE waiting
  /\ unacked'  = Set(unacked, i, IF ended[i] THEN unacked[i] ELSE unacked[i] + n - owed)
  /\ outGrant' = Add(outGrant, i, owed)
  /\ UNCHANGED <<up, remote, ended, writerVars, closeSent, inGrant, outData, peerVars>>

(* DATA of n bytes is dispatched to `push`: a pending read that has enough *)
(* now is served, and the bytes count as received, ended or not.           *)
OnData(i, n) ==
  LET total == size[i] + n
      owed  == Owed(unacked[i] + n)
      serve == waiting[i] > 0 /\ waiting[i] <= total IN
  /\ up /\ i \in Opened /\ n <= inData[i]
  /\ inData'   = Add(inData, i, -n)
  /\ size'     = Set(size, i, IF serve THEN total - waiting[i] ELSE total)
  /\ waiting'  = IF serve THEN Set(waiting, i, 0) ELSE waiting
  /\ unacked'  = Set(unacked, i, unacked[i] + n - owed)
  /\ outGrant' = Add(outGrant, i, owed)
  /\ UNCHANGED <<up, remote, ended, writerVars, closeSent, inGrant, outData, peerVars>>

(* Mutant of OnGrant: credit is added without waking the writer.           *)
OnGrantSilently(i, n) ==
  /\ up /\ i \in Opened /\ n <= inGrant[i]
  /\ inGrant' = Add(inGrant, i, -n)
  /\ credit'  = Add(credit, i, n)
  /\ UNCHANGED <<up, remote, ended, readerVars, rest, parked, closeSent, inData, outData, outGrant, peerVars>>

(* WINDOW_UPDATE is dispatched to `grant`, which wakes a parked write.     *)
OnGrant(i, n) ==
  /\ up /\ i \in Opened /\ n <= inGrant[i]
  /\ inGrant' = Add(inGrant, i, -n)
  /\ credit'  = Add(credit, i, n)
  /\ parked'  = Set(parked, i, FALSE)
  /\ UNCHANGED <<up, remote, ended, readerVars, rest, closeSent, inData, outData, outGrant, peerVars>>

(* CLOSE is dispatched, after everything sent before it: finish, forget.   *)
OnClose(i) ==
  /\ up /\ remote[i] = "closing" /\ inData[i] = 0 /\ inGrant[i] = 0
  /\ remote' = Set(remote, i, "closed")
  /\ FinishAll({i})
  /\ UNCHANGED <<up, size, unacked, credit, rest, closeSent, wireVars, peerVars>>

(* MuxLink.destroy: the socket failed or closed, a frame did not decrypt   *)
(* or was too short, or LINK_IDLE_MS went by in silence.                   *)
Destroy ==
  /\ up
  /\ up' = FALSE
  /\ FinishAll(Opened)
  /\ UNCHANGED <<remote, size, unacked, credit, rest, closeSent, wireVars, peerVars>>

-----------------------------------------------------------------------------
(* `readExactly(n)`; only one read is ever pending on a stream.            *)
ReadExactly(i, n) ==
  /\ i \in Opened /\ waiting[i] = 0
  /\ \/ size[i] >= n /\ size' = Add(size, i, -n) /\ UNCHANGED waiting
     \/ size[i] < n /\ ~ended[i] /\ waiting' = Set(waiting, i, n) /\ UNCHANGED size
  /\ UNCHANGED <<up, remote, ended, unacked, writerVars, closeSent, wireVars, peerVars>>

(* Mutant of Burst: a payload goes out while there is any credit at all.   *)
BurstOverdrawn(i, n) ==
  LET some == ((credit[i] + MaxPayload - 1) \div MaxPayload) * MaxPayload
  IN  IF n <= some THEN n ELSE some

(* The bytes of a write of n that go out before it must wait: whole        *)
(* payloads while the credit lasts, the last one possibly shorter.         *)
Burst(i, n) == IF n <= credit[i] THEN n ELSE (credit[i] \div MaxPayload) * MaxPayload

(* Mutant of WriteOn: a woken write charges the whole of what is left.     *)
WriteOnCharging(i, n) ==
  LET left == n - Burst(i, n) IN
  /\ credit'  = Set(credit, i, IF credit[i] > n THEN credit[i] - n ELSE 0)
  /\ outData' = IF up THEN Add(outData, i, Burst(i, n)) ELSE outData
  /\ rest'    = Set(rest, i, IF ended[i] THEN 0 ELSE left)
  /\ parked'  = Set(parked, i, ~ended[i] /\ left > 0)

(* The body of `write` up to the next await.  Credit is looked at before   *)
(* `ended`: a write on an ended stream stops only where it would park.     *)
WriteOn(i, n) ==
  LET left == n - Burst(i, n) IN
  /\ credit'  = Add(credit, i, -Burst(i, n))
  /\ outData' = IF up THEN Add(outData, i, Burst(i, n)) ELSE outData
  /\ rest'    = Set(rest, i, IF ended[i] THEN 0 ELSE left)
  /\ parked'  = Set(parked, i, ~ended[i] /\ left > 0)

Write(i, n) ==
  /\ i \in Opened /\ rest[i] = 0
  /\ WriteOn(i, n)
  /\ UNCHANGED <<up, remote, ended, readerVars, closeSent, inData, inGrant, outGrant, peerVars>>

(* A write that was woken goes on.                                         *)
WriteResumes(i) ==
  /\ rest[i] > 0 /\ ~parked[i]
  /\ WriteOn(i, rest[i])
  /\ UNCHANGED <<up, remote, ended, readerVars, closeSent, inData, inGrant, outGrant, peerVars>>

(* Mutant of Close: finished first, so it never finds the stream open.     *)
CloseAfterFinish(i) ==
  /\ i \in Opened /\ ~ended[i]
  /\ FinishAll({i})
  /\ UNCHANGED <<up, remote, size, unacked, credit, rest, closeSent, wireVars, peerVars>>

(* `close`: tell the relay, then finish.  The stream stays in the map      *)
(* until the relay closes it too.                                          *)
Close(i) ==
  /\ i \in Opened /\ ~ended[i]
  /\ closeSent' = Set(closeSent, i, up \/ closeSent[i])
  /\ FinishAll({i})
  /\ UNCHANGED <<up, remote, size, unacked, credit, rest, wireVars, peerVars>>

-----------------------------------------------------------------------------
(* The relay: opens a stream for a phone, forwards what the phone sends    *)
(* within its credit, grants back what the phone has taken, closes.        *)
PeerOpens(i) ==
  /\ up /\ remote[i] = "new"
  /\ remote' = Set(remote, i, "opening")
  /\ UNCHANGED <<up, ended, readerVars, writerVars, closeSent, wireVars, peerVars>>

PeerSends(i, n) ==
  /\ up /\ remote[i] \in {"opening", "open"} /\ n <= peerCredit[i]
  /\ size[i] + inData[i] + n <= MaxBuffered
  /\ peerCredit' = Add(peerCredit, i, -n)
  /\ inData' = Add(inData, i, n)
  /\ UNCHANGED <<up, remote, ended, readerVars, writerVars, closeSent, inGrant, outData, outGrant, peerHeld>>

PeerReceives(i, n) ==
  /\ up /\ n <= outData[i]
  /\ outData' = Add(outData, i, -n)
  /\ peerHeld' = Add(peerHeld, i, n)
  /\ UNCHANGED <<up, remote, ended, readerVars, writerVars, closeSent, inData, inGrant, outGrant, peerCredit>>

PeerIsGranted(i, n) ==
  /\ up /\ n <= outGrant[i]
  /\ outGrant' = Add(outGrant, i, -n)
  /\ peerCredit' = Add(peerCredit, i, n)
  /\ UNCHANGED <<up, remote, ended, readerVars, writerVars, closeSent, inData, inGrant, outData, peerHeld>>

PeerGrants(i) ==
  /\ up /\ remote[i] = "open" /\ peerHeld[i] > 0
  /\ inGrant' = Add(inGrant, i, peerHeld[i])
  /\ peerHeld' = Set(peerHeld, i, 0)
  /\ UNCHANGED <<up, remote, ended, readerVars, writerVars, closeSent, inData, outData, outGrant, peerCredit>>

PeerCloses(i) ==
  /\ up /\ remote[i] = "open"
  /\ remote' = Set(remote, i, "closing")
  /\ UNCHANGED <<up, ended, readerVars, writerVars, closeSent, wireVars, peerVars>>

Payload == 1..MaxPayload
Update  == 1..Window

Next ==
  \/ \E i \in Stream :
       \/ OnOpen(i) \/ OnClose(i) \/ Close(i) \/ WriteResumes(i)
       \/ \E n \in Payload : OnData(i, n)
       \/ \E n \in Update : OnGrant(i, n)
       \/ \E n \in 1..MaxRead : ReadExactly(i, n)
       \/ \E n \in 1..MaxWrite : Write(i, n)
       \/ PeerOpens(i) \/ PeerGrants(i) \/ PeerCloses(i)
       \/ \E n \in Payload : PeerSends(i, n) \/ PeerReceives(i, n)
       \/ \E n \in Update : PeerIsGranted(i, n)
  \/ Destroy

Spec == Init /\ [][Next]_vars

(* Frames that arrive are dispatched, woken writers run; the relay takes   *)
(* what it is sent and grants it back.                                     *)
FairSpec ==
  /\ Spec
  /\ \A i \in Stream :
       /\ WF_vars(OnOpen(i)) /\ WF_vars(OnClose(i)) /\ WF_vars(WriteResumes(i))
       /\ WF_vars(\E n \in Payload : OnData(i, n))
       /\ WF_vars(\E n \in Update : OnGrant(i, n))
       /\ WF_vars(\E n \in Payload : PeerReceives(i, n))
       /\ WF_vars(PeerGrants(i))

-----------------------------------------------------------------------------
(* Credit is neither made nor lost: what the relay may still send, what is *)
(* under way, what the bridge has not acknowledged and what it has granted *)
(* back add up to one window, whatever the stream has been through.        *)
CreditIn ==
  \A i \in Stream :
    peerCredit[i] + inData[i] + unacked[i] + outGrant[i] = Window

(* The same for what the bridge sends, as long as the link is up.          *)
CreditOut ==
  up => \A i \in Stream :
          credit[i] + outData[i] + peerHeld[i] + inGrant[i] = Window

(* Both windows are conserved, and no counter leaves its range: credit is  *)
(* never negative, nor more than a window.                                 *)
CreditKept == TypeOK /\ CreditIn /\ CreditOut

(* "It can never stall waiting for credit": when nothing is under way, the *)
(* relay can send a whole payload, although credit comes in batches.       *)
NeverStalls ==
  \A i \in Stream :
    inData[i] = 0 /\ outGrant[i] = 0 => peerCredit[i] >= MaxPayload

(* Whoever waits on a stream learns of its end: no reader is left pending  *)
(* and no writer parked on a stream that has ended.                        *)
EndSettlesAll == \A i \in Stream : ended[i] => waiting[i] = 0 /\ ~parked[i]

(* An end is never one-sided while the link is up: a stream the bridge has *)
(* ended is one the relay closed or has been told to close, and the relay  *)
(* keeps no slot for it.                                                   *)
EndIsShared ==
  up => \A i \in Stream : ended[i] => closeSent[i] \/ remote[i] = "closed"

(* An end reaches all it concerns, here and on the other side.             *)
EndReachesAll == EndSettlesAll /\ EndIsShared

(* Every write ends: it is sent, or its stream has ended.                  *)
WritesEnd == \A i \in Stream : rest[i] > 0 ~> rest[i] = 0

=============================================================================
