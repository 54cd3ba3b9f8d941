--------------------------- MODULE SessionsProofs ---------------------------
(***************************************************************************)
(* Proofs about Sessions for every set of streams, devices, codes and      *)
(* Peers, every lifetime and every length of the queue of writes.  The     *)
(* invariant is built in layers, each inductive given the ones before it:  *)
(* types, the list and its connections, codes, the queue of writes, Peers. *)
(***************************************************************************)
EXTENDS Sessions, TLAPS, FiniteSetTheorems, SequenceTheorems

USE PhonesAssumption, RegistryAssumption, PeersAssumption

WriteRecord == [snap : [Device -> Nat], by : Session \cup Device \cup {None}]
Moment      == 0..(Start + MaxClock)

(* The types of the registry, of the runs and of the histories.            *)
CoreTypeOK ==
  /\ RegistryTypeOK
  /\ run \in [Session -> Run]
  /\ overtaken \subseteq Session
  /\ redeemed \in [Token -> SUBSET Device] /\ revoked \subseteq Device

(* A run that has got past the first message knows its device.             *)
Proved == \A s \in Session : run[s].phase \in Authorizing \cup {"connected"} => run[s].dev \in Device

CoreInv == CoreTypeOK /\ Proved

-----------------------------------------------------------------------------
(* What the helpers do to the types, whatever action uses them.            *)
LEMMA ContinueRuns ==
  ASSUME CoreInv, NEW s, NEW R, NEW r \in Run, Continue(s, r, R),
         r.phase \in Authorizing \cup {"connected"} => r.dev \in Device
  PROVE  run' \in [Session -> Run] /\ Proved'
<1>1. Idle \in Run /\ Idle.phase = "idle"
  BY DEF Idle, Run, Phase, Start
<1> QED
  BY <1>1 DEF CoreInv, CoreTypeOK, Proved, Continue, Authorizing

(* A step of run s leaves every run a run.                                 *)
LEMMA StepRuns ==
  ASSUME CoreInv, NEW s \in Session, NEW ph \in Phase, Step(s, ph),
         ph \in Authorizing \cup {"connected"} => run[s].dev \in Device
  PROVE  run' \in [Session -> Run] /\ Proved'
<1>1. [run[s] EXCEPT !.phase = ph] \in Run
  BY DEF CoreInv, CoreTypeOK, Run
<1> QED
  BY <1>1, ContinueRuns DEF Step, CoreInv, CoreTypeOK, Run

(* Queueing a write keeps the registry typed; the new write comes last.    *)
LEMMA SaveTypes ==
  ASSUME CoreTypeOK, NEW queue \in Seq(WriteRecord), NEW list \in [Device -> Nat],
         NEW by \in Session \cup Device \cup {None}, Save(queue, list, by)
  PROVE  writes' \in Seq(WriteRecord) /\ lastWrite' \in Moment
<1>1. [snap |-> list, by |-> by] \in WriteRecord
  BY DEF WriteRecord
<1> QED
  BY <1>1, AppendProperties DEF Save, CoreTypeOK, RegistryTypeOK, Moment, Start

(* Ending a connection keeps the runs and the registry typed.              *)
LEMMA LeaveTypes ==
  ASSUME CoreTypeOK, NEW queue \in Seq(WriteRecord), NEW d \in Device, NEW s, Leave(queue, d, s)
  PROVE  /\ writes' \in Seq(WriteRecord) /\ lastWrite' \in Moment
         /\ live' \in [Device -> SUBSET Session]
<1>1. devices \in [Device -> Nat]
  BY DEF CoreTypeOK, RegistryTypeOK
<1>2. live' \in [Device -> SUBSET Session]
  BY DEF Leave, CoreTypeOK, RegistryTypeOK
<1>3. CASE NoSave(queue)
  BY <1>2, <1>3 DEF NoSave, CoreTypeOK, RegistryTypeOK, Moment
<1>4. CASE Save(queue, devices, None)
  BY <1>1, <1>2, <1>4, SaveTypes
<1> QED
  BY <1>3, <1>4 DEF Leave

(* Attaching a connection keeps the runs and the registry typed.           *)
LEMMA AttachTypes ==
  ASSUME CoreInv, NEW queue \in Seq(WriteRecord), NEW s \in Session, Attach(queue, s),
         run[s].dev \in Device
  PROVE  /\ writes' \in Seq(WriteRecord) /\ lastWrite' \in Moment
         /\ live' \in [Device -> SUBSET Session]
         /\ run' \in [Session -> Run] /\ Proved'
<1>1. CASE run[s].gone
  <2>1. Idle \in Run /\ Idle.phase = "idle"
    BY DEF Idle, Run, Phase, Start
  <2> QED
    BY <1>1, <2>1, LeaveTypes, ContinueRuns DEF Attach, CoreInv, Authorizing
<1>2. CASE ~run[s].gone
  <2>1. run' \in [Session -> Run] /\ Proved'
    BY <1>2, StepRuns DEF Attach, Phase
  <2>2. live' = [live EXCEPT ![run[s].dev] = @ \cup {s}] /\ NoSave(queue)
    BY <1>2 DEF Attach
  <2>3. live' \in [Device -> SUBSET Session]
    BY <2>2 DEF CoreInv, CoreTypeOK, RegistryTypeOK
  <2> QED
    BY <2>1, <2>2, <2>3 DEF NoSave, CoreInv, CoreTypeOK, RegistryTypeOK, Moment
<1> QED
  BY <1>1, <1>2

(* Queueing a write, if any, keeps the queue typed.                        *)
LEMMA QueueTypes ==
  ASSUME CoreTypeOK, writes # <<>>
  PROVE  /\ Head(writes) \in WriteRecord /\ Tail(writes) \in Seq(WriteRecord)
         /\ Head(writes).snap \in [Device -> Nat]
         /\ Head(writes).by \in Session \cup Device \cup {None}
<1>1. writes \in Seq(WriteRecord)
  BY DEF CoreTypeOK, RegistryTypeOK, WriteRecord
<1>2. Head(writes) \in WriteRecord /\ Tail(writes) \in Seq(WriteRecord)
  BY <1>1, HeadTailProperties
<1> QED
  BY <1>2 DEF WriteRecord

(* One step keeps every field of the registry and of the runs in its type. *)
LEMMA CoreStep == CoreInv /\ [Next]_vars => CoreInv'
<1> SUFFICES ASSUME CoreInv, [Next]_vars PROVE CoreInv'
  OBVIOUS
<1> USE DEF CoreInv
<1>0. /\ clock \in Start..(Start + MaxClock) /\ clock \in Moment /\ clock \in Nat
      /\ lastWrite \in Moment
      /\ devices \in [Device -> Nat] /\ disk \in [Device -> Nat]
      /\ pairings \in [Token -> Nat] /\ minted \in SUBSET Token
      /\ live \in [Device -> SUBSET Session] /\ writes \in Seq(WriteRecord)
      /\ run \in [Session -> Run] /\ overtaken \in SUBSET Session
      /\ redeemed \in [Token -> SUBSET Device] /\ revoked \in SUBSET Device
  BY DEF CoreTypeOK, RegistryTypeOK, WriteRecord, Moment, Start
<1>1. ASSUME /\ clock' \in Start..(Start + MaxClock) /\ lastWrite' \in Moment
             /\ devices' \in [Device -> Nat] /\ disk' \in [Device -> Nat]
             /\ pairings' \in [Token -> Nat] /\ minted' \in SUBSET Token
             /\ live' \in [Device -> SUBSET Session] /\ writes' \in Seq(WriteRecord)
             /\ run' \in [Session -> Run] /\ overtaken' \in SUBSET Session
             /\ redeemed' \in [Token -> SUBSET Device] /\ revoked' \in SUBSET Device
      PROVE  CoreTypeOK'
  BY <1>1 DEF CoreTypeOK, RegistryTypeOK, WriteRecord, Moment, Start
<1>2. Idle \in Run /\ Idle.phase = "idle" /\ \A s \in Session : run[s] \in Run
  <2>1. Idle \in Run /\ Idle.phase = "idle"
    BY DEF Idle, Run, Phase, Start
  <2> QED
    BY <1>0, <2>1
<1>3. ASSUME NEW D, Overtake(D) PROVE overtaken' \in SUBSET Session
  BY <1>0, <1>3 DEF Overtake, InPhase
<1>4. ASSUME NEW D PROVE Without(D) \in [Device -> Nat]
  BY <1>0 DEF Without
<1>5. ASSUME NEW D, Disconnect(D) PROVE live' \in [Device -> SUBSET Session]
  BY <1>0, <1>5 DEF Disconnect
<1>6. ASSUME NEW t, Redeem(t) PROVE pairings' \in [Token -> Nat]
  BY <1>0, <1>6 DEF Redeem
<1>7. ASSUME NEW queue \in Seq(WriteRecord), NoSave(queue)
      PROVE  writes' \in Seq(WriteRecord) /\ lastWrite' \in Moment
  BY <1>0, <1>7 DEF NoSave
<1>11. ASSUME NEW s \in Session, Open(s) PROVE CoreInv'
  <2>1. run' \in [Session -> Run] /\ Proved'
    BY <1>11, StepRuns DEF Open, Phase, Authorizing
  <2> QED
    BY <1>0, <1>1, <1>11, <2>1 DEF Open, registryVars, history
<1>12. ASSUME NEW s \in Session, Rejected(s) PROVE CoreInv'
  <2>1. run' \in [Session -> Run] /\ Proved'
    BY <1>2, <1>12, ContinueRuns DEF Rejected, Authorizing
  <2> QED
    BY <1>0, <1>1, <1>12, <2>1 DEF Rejected, registryVars, history
<1>13. ASSUME NEW s \in Session, NEW d \in Device, NEW t \in minted \cup {None}, Hello(s, d, t)
       PROVE  CoreInv'
  <2> DEFINE due == Expired(clock)
             r == [phase |-> IF due = {} THEN "admitting" ELSE "expiring",
                   dev |-> d, token |-> t, now |-> clock, gone |-> FALSE]
  <2>1. r \in Run
    BY <1>0 DEF Run, Phase, Authorizing, Moment, Start
  <2>2. Continue(s, r, ConnectionsOf(due)) /\ Disconnect(due) /\ Overtake(due) /\ devices' = Without(due)
    BY <1>13 DEF Hello, HangUp
  <2>3. run' \in [Session -> Run] /\ Proved'
    BY <2>1, <2>2, ContinueRuns
  <2>4. writes' \in Seq(WriteRecord) /\ lastWrite' \in Moment
    BY <1>0, <1>4, <1>7, <1>13, SaveTypes DEF Hello
  <2> QED
    BY <1>0, <1>1, <1>3, <1>4, <1>5, <1>13, <2>2, <2>3, <2>4 DEF Hello
<1>14. ASSUME NEW s \in Session, AdmitKnown(s) PROVE CoreInv'
  <2>1. run[s].phase = "admitting" /\ run[s].dev \in Device
    BY <1>14 DEF AdmitKnown, Proved, Authorizing
  <2>2. CASE Attach(writes, s)
    BY <1>0, <1>1, <1>14, <2>1, <2>2, AttachTypes DEF AdmitKnown, history
  <2>3. CASE Save(writes, devices, s) /\ Step(s, "saving") /\ UNCHANGED <<live, peersVars>>
    <3>1. run' \in [Session -> Run] /\ Proved'
      BY <2>1, <2>3, StepRuns DEF Phase, Authorizing
    <3>2. writes' \in Seq(WriteRecord) /\ lastWrite' \in Moment
      BY <1>0, <2>3, SaveTypes
    <3> QED
      BY <1>0, <1>1, <1>14, <2>3, <3>1, <3>2 DEF AdmitKnown, history
  <2> QED
    BY <1>14, <2>2, <2>3 DEF AdmitKnown
<1>15. ASSUME NEW s \in Session, AdmitByCode(s) PROVE CoreInv'
  <2> DEFINE d == run[s].dev
             r == [run[s] EXCEPT !.phase = "saving"]
  <2>1. d \in Device
    BY <1>15 DEF AdmitByCode, Proved, Authorizing
  <2>2. r \in Run /\ r.dev = d
    BY <1>2 DEF Run, Phase, Authorizing
  <2>3. Continue(s, r, ConnectionsOf({d})) /\ Disconnect({d}) /\ Overtake({}) /\ Redeem(run[s].token)
    BY <1>15 DEF AdmitByCode, HangUp
  <2>4. run' \in [Session -> Run] /\ Proved'
    BY <2>1, <2>2, <2>3, ContinueRuns
  <2>5. devices' \in [Device -> Nat] /\ redeemed' \in [Token -> SUBSET Device]
    <3>1. run[s].now + DeviceTtl \in Nat
      BY <1>2 DEF Run, Start
    <3> QED
      BY <1>0, <1>15, <2>1, <3>1 DEF AdmitByCode
  <2>6. writes' \in Seq(WriteRecord) /\ lastWrite' \in Moment
    BY <1>0, <1>15, <2>5, SaveTypes DEF AdmitByCode
  <2>7. revoked' \in SUBSET Device /\ UNCHANGED <<clock, disk, minted>>
    BY <1>0, <1>15 DEF AdmitByCode
  <2> QED
    BY <1>0, <1>1, <1>3, <1>5, <1>6, <2>3, <2>4, <2>5, <2>6, <2>7
<1>16. ASSUME NEW s \in Session, TurnAway(s) PROVE CoreInv'
  <2>1. run' \in [Session -> Run] /\ Proved'
    BY <1>2, <1>16, ContinueRuns DEF TurnAway, Authorizing
  <2> QED
    BY <1>0, <1>1, <1>6, <1>16, <2>1 DEF TurnAway, history
<1>17. ASSUME NEW s \in Session, StreamEnds(s) PROVE CoreInv'
  <2>1. Overtake({}) /\ UNCHANGED <<clock, devices, pairings, disk, minted, redeemed, revoked>>
    BY <1>17 DEF StreamEnds
  <2>2. run' \in [Session -> Run] /\ Proved'
    <3>1. CASE Continue(s, Idle, {})
      BY <1>2, <3>1, ContinueRuns DEF Authorizing
    <3>2. CASE run[s].phase \in Authorizing /\ Continue(s, [run[s] EXCEPT !.gone = TRUE], {})
      <4>1. [run[s] EXCEPT !.gone = TRUE] \in Run /\ [run[s] EXCEPT !.gone = TRUE].dev = run[s].dev
        BY <1>2 DEF Run
      <4> QED
        BY <3>2, <4>1, ContinueRuns DEF Proved
    <3> QED
      BY <1>17, <3>1, <3>2 DEF StreamEnds
  <2>3. /\ writes' \in Seq(WriteRecord) /\ lastWrite' \in Moment
        /\ live' \in [Device -> SUBSET Session]
    <3>1. CASE UNCHANGED <<live, lastWrite, writes, peersVars>>
      BY <1>0, <3>1
    <3>2. CASE run[s].phase = "connected" /\ Leave(writes, run[s].dev, s)
      BY <1>0, <3>2, LeaveTypes DEF Proved
    <3> QED
      BY <1>17, <3>1, <3>2 DEF StreamEnds
  <2> QED
    BY <1>0, <1>1, <1>3, <2>1, <2>2, <2>3
<1>18. ASSUME NEW d \in Device, Revoke(d) PROVE CoreInv'
  <2>1. Continue(None, Idle, ConnectionsOf({d})) /\ Disconnect({d}) /\ Overtake({d}) /\ devices' = Without({d})
    BY <1>18 DEF Revoke, HangUp
  <2>2. run' \in [Session -> Run] /\ Proved'
    BY <1>2, <2>1, ContinueRuns DEF Authorizing
  <2>3. writes' \in Seq(WriteRecord) /\ lastWrite' \in Moment
    BY <1>0, <1>4, <1>18, SaveTypes DEF Revoke
  <2> QED
    BY <1>0, <1>1, <1>3, <1>4, <1>5, <1>18, <2>1, <2>2, <2>3 DEF Revoke
<1>19. ASSUME WriteLands PROVE CoreInv'
  <2> DEFINE s == Head(writes).by
             queue == Tail(writes)
  <2>1. Overtake({}) /\ UNCHANGED <<clock, devices, pairings, minted, redeemed>> /\ disk' = Head(writes).snap
    BY <1>19 DEF WriteLands
  <2>2. queue \in Seq(WriteRecord) /\ disk' \in [Device -> Nat]
    BY <1>19, <2>1, QueueTypes DEF WriteLands
  <2>3. CASE s \in Session /\ run[s].phase = "expiring" /\ Step(s, "admitting") /\ NoSave(queue)
             /\ UNCHANGED <<live, peersVars, revoked>>
    <3>1. run' \in [Session -> Run] /\ Proved'
      BY <2>3, StepRuns DEF Phase, Authorizing, Proved
    <3> QED
      BY <1>0, <1>1, <1>3, <1>7, <2>1, <2>2, <2>3, <3>1
  <2>4. CASE s \in Session /\ run[s].phase = "saving" /\ Attach(queue, s) /\ UNCHANGED revoked
    <3>1. run[s].dev \in Device
      BY <2>4 DEF Proved, Authorizing
    <3> QED
      BY <1>0, <1>1, <1>3, <2>1, <2>2, <2>4, <3>1, AttachTypes
  <2>5. CASE NoSave(queue) /\ revoked' \in SUBSET Device /\ UNCHANGED <<live, run>>
    BY <1>0, <1>1, <1>3, <1>7, <2>1, <2>2, <2>5 DEF Proved
  <2>6. \/ s \in Session /\ run[s].phase = "expiring" /\ Step(s, "admitting") /\ NoSave(queue)
           /\ UNCHANGED <<live, peersVars, revoked>>
        \/ s \in Session /\ run[s].phase = "saving" /\ Attach(queue, s) /\ UNCHANGED revoked
        \/ NoSave(queue) /\ revoked' \in SUBSET Device /\ UNCHANGED <<live, run>>
    BY <1>0, <1>19 DEF WriteLands
  <2> QED
    BY <2>3, <2>4, <2>5, <2>6
<1>20. ASSUME WriteFails PROVE CoreInv'
  <2>1. run' \in [Session -> Run] /\ Proved'
    BY <1>2, <1>20, ContinueRuns DEF WriteFails, Authorizing
  <2>2. writes' \in Seq(WriteRecord) /\ lastWrite' \in Moment
    BY <1>7, <1>20, QueueTypes DEF WriteFails
  <2> QED
    BY <1>0, <1>1, <1>3, <1>20, <2>1, <2>2 DEF WriteFails
<1>21. ASSUME Restart PROVE CoreInv'
  <2>1. <<>> \in Seq(WriteRecord) /\ 0 \in Moment
    BY EmptySeq DEF Moment, Start
  <2>2. run' \in [Session -> Run] /\ Proved'
    BY <1>2, <1>21 DEF Restart, Proved, Authorizing
  <2> QED
    BY <1>0, <1>1, <1>21, <2>1, <2>2 DEF Restart
<1>22. ASSUME NEW d \in Device, Rename(d), UNCHANGED <<peersVars, run, history>> PROVE CoreInv'
  <2>1. writes' \in Seq(WriteRecord) /\ lastWrite' \in Moment
    BY <1>0, <1>22, SaveTypes DEF Rename
  <2> QED
    BY <1>0, <1>1, <1>22, <2>1 DEF Rename, history, Proved
<1>23. ASSUME NEW t \in Token, CreatePairing(t), UNCHANGED <<peersVars, run, history>> PROVE CoreInv'
  <2>1. pairings' \in [Token -> Nat] /\ minted' \in SUBSET Token
    BY <1>0, <1>23 DEF CreatePairing
  <2> QED
    BY <1>0, <1>1, <1>23, <2>1 DEF CreatePairing, history, Proved
<1>24. ASSUME ActivePairing \/ Tick, UNCHANGED <<peersVars, run, history>> PROVE CoreInv'
  <2>1. pairings' \in [Token -> Nat]
    BY <1>0, <1>24 DEF ActivePairing, Tick
  <2>2. clock' \in Start..(Start + MaxClock)
    BY <1>0, <1>24 DEF ActivePairing, Tick, Start
  <2> QED
    BY <1>0, <1>1, <1>24, <2>1, <2>2 DEF ActivePairing, Tick, history, Proved
<1>25. ASSUME UNCHANGED <<registryVars, run, history>> PROVE CoreInv'
  BY <1>0, <1>1, <1>25 DEF registryVars, history, Proved
<1> QED
  BY <1>11, <1>12, <1>13, <1>14, <1>15, <1>16, <1>17, <1>18, <1>19, <1>20, <1>21, <1>22,
     <1>23, <1>24, <1>25 DEF Next, vars

(* The fields are typed when the program starts.                           *)
LEMMA CoreInit == Init => CoreInv
<1> SUFFICES ASSUME Init PROVE CoreInv
  OBVIOUS
<1>1. Idle \in Run /\ Idle.phase = "idle"
  BY DEF Idle, Run, Phase, Start
<1>2. <<>> \in Seq([snap : [Device -> Nat], by : Session \cup Device \cup {None}])
  BY EmptySeq
<1> QED
  BY <1>1, <1>2 DEF Init, RegistryInit, CoreInv, CoreTypeOK, RegistryTypeOK, Proved, Authorizing, Start

-----------------------------------------------------------------------------
(* The connections.  These lemmas say how each helper changes who is       *)
(* connected; the list and the Peers both follow from them.                *)
SameRuns(C) == \A q \in C : run'[q] = run[q]

(* The connections the registry holds are those of connected runs.         *)
LEMMA ConnectionsAre ==
  ASSUME CoreInv, PresenceIsTrue, NEW D \in SUBSET Device
  PROVE  ConnectionsOf(D) = {q \in Connected : run[q].dev \in D}
BY DEF CoreInv, Proved, PresenceIsTrue, ConnectionsOf, Connected, InPhase

(* Run s, which is not connected, goes on as r, which is not either.       *)
LEMMA ContinueKeeps ==
  ASSUME CoreInv, NEW s, NEW r, Continue(s, r, {}), r.phase # "connected",
         s \in Session => run[s].phase # "connected"
  PROVE  Connected' = Connected /\ SameRuns(Session \ {s}) /\ (s \in Session => run'[s] = r)
<1>1. run' = [q \in Session |-> IF q = s THEN r ELSE run[q]]
  BY DEF Continue
<1> QED
  BY <1>1 DEF Connected, InPhase, SameRuns

(* Presence stays true while the runs and the connections stay.            *)
LEMMA PresenceKept ==
  ASSUME CoreInv, PresenceIsTrue, Connected' = Connected, SameRuns(Connected), UNCHANGED live
  PROVE  PresenceIsTrue'
BY DEF PresenceIsTrue, SameRuns

(* Hanging up on devices leaves exactly the other connections.             *)
LEMMA HangUpConnections ==
  ASSUME CoreInv, PresenceIsTrue, NEW D \in SUBSET Device, NEW s, NEW r, HangUp(D, s, r),
         r.phase # "connected", s \in Session => run[s].phase # "connected"
  PROVE  /\ PresenceIsTrue'
         /\ Connected' = Connected \ ConnectionsOf(D)
         /\ ConnectionsOf(D) = {q \in Connected : run[q].dev \in D}
         /\ \A q \in Session :
              run'[q] = IF q \in ConnectionsOf(D) THEN Idle ELSE IF q = s THEN r ELSE run[q]
<1>1. ConnectionsOf(D) = {q \in Connected : run[q].dev \in D}
  BY ConnectionsAre
<1>2. \A q \in Session :
        run'[q] = IF q \in ConnectionsOf(D) THEN Idle ELSE IF q = s THEN r ELSE run[q]
  BY DEF HangUp, Continue
<1>3. live' = [d \in Device |-> IF d \in D THEN {} ELSE live[d]]
  BY DEF HangUp, Disconnect
<1>4. Idle.phase = "idle"
  BY DEF Idle
<1>5. Connected' = Connected \ ConnectionsOf(D)
  BY <1>1, <1>2, <1>4 DEF Connected, InPhase
<1>6. \A q \in Connected' : run'[q] = run[q]
  BY <1>1, <1>2, <1>5 DEF Connected, InPhase
<1>7. PresenceIsTrue'
  BY <1>1, <1>3, <1>5, <1>6 DEF PresenceIsTrue
<1> QED
  BY <1>1, <1>2, <1>5, <1>7

(* A run that attaches to a stream that has ended leaves no trace.         *)
LEMMA AttachGone ==
  ASSUME CoreInv, PresenceIsTrue, NEW queue, NEW s \in Session, Attach(queue, s),
         run[s].phase \in {"admitting", "saving"}, run[s].gone
  PROVE  /\ PresenceIsTrue' /\ Connected' = Connected
         /\ SameRuns(Session \ {s}) /\ run'[s] = Idle
<1>1. Leave(queue, run[s].dev, s) /\ Continue(s, Idle, {})
  BY DEF Attach
<1>2. Connected' = Connected /\ SameRuns(Session \ {s}) /\ run'[s] = Idle
  BY <1>1, ContinueKeeps DEF Idle
<1>3. run[s].dev \in Device /\ s \notin Connected
  BY DEF CoreInv, Proved, Authorizing, Connected, InPhase
<1>4. live' = live
  <2>1. live' = [live EXCEPT ![run[s].dev] = @ \ {s}]
    BY <1>1 DEF Leave
  <2>2. s \notin live[run[s].dev] /\ live \in [Device -> SUBSET Session]
    BY <1>3 DEF PresenceIsTrue, CoreInv, CoreTypeOK, RegistryTypeOK
  <2>3. live[run[s].dev] \ {s} = live[run[s].dev]
    BY <2>2
  <2> QED
    BY <1>3, <2>1, <2>2, <2>3
<1> QED
  BY <1>2, <1>3, <1>4, PresenceKept DEF SameRuns, Connected, InPhase

(* A run that attaches to a live stream is the one new connection.         *)
LEMMA AttachConnects ==
  ASSUME CoreInv, PresenceIsTrue, NEW queue, NEW s \in Session, Attach(queue, s),
         run[s].phase \in {"admitting", "saving"}, ~run[s].gone
  PROVE  /\ PresenceIsTrue' /\ Connected' = Connected \cup {s}
         /\ SameRuns(Session \ {s}) /\ run'[s] = [run[s] EXCEPT !.phase = "connected"]
         /\ Acquire(s, run[s].dev) /\ NoSave(queue)
<1>1. /\ live' = [live EXCEPT ![run[s].dev] = @ \cup {s}]
      /\ Step(s, "connected") /\ Acquire(s, run[s].dev) /\ NoSave(queue)
  BY DEF Attach
<1>2. SameRuns(Session \ {s}) /\ run'[s] = [run[s] EXCEPT !.phase = "connected"]
  BY <1>1 DEF Step, Continue, SameRuns
<1>3. run[s].dev \in Device /\ s \notin Connected
  BY DEF CoreInv, Proved, Authorizing, Connected, InPhase
<1>4. run[s] \in Run
  BY DEF CoreInv, CoreTypeOK
<1>5. run'[s].phase = "connected" /\ run'[s].dev = run[s].dev
  BY <1>2, <1>4 DEF Run
<1>6. Connected' = Connected \cup {s}
  BY <1>2, <1>5 DEF Connected, InPhase, SameRuns
<1>7. \A q \in Connected : run'[q] = run[q]
  BY <1>2, <1>3 DEF SameRuns, Connected, InPhase
<1>8. PresenceIsTrue'
  <2>1. \A d \in Device : live'[d] = IF d = run[s].dev THEN live[d] \cup {s} ELSE live[d]
    BY <1>1, <1>3 DEF CoreInv, CoreTypeOK, RegistryTypeOK
  <2>2. \A d \in Device : {q \in Connected' : run'[q].dev = d}
          = {q \in Connected : run[q].dev = d} \cup (IF d = run[s].dev THEN {s} ELSE {})
    BY <1>3, <1>5, <1>6, <1>7
  <2>3. \A d \in Device : live[d] = {q \in Connected : run[q].dev = d}
    BY DEF PresenceIsTrue
  <2>4. \A d \in Device : live'[d] = {q \in Connected' : run'[q].dev = d}
    BY <2>1, <2>2, <2>3
  <2> QED
    BY <2>4 DEF PresenceIsTrue
<1> QED
  BY <1>1, <1>2, <1>6, <1>8

(* A connection ends with its stream.                                      *)
LEMMA LeaveDisconnects ==
  ASSUME CoreInv, PresenceIsTrue, NEW s \in Connected, Leave(writes, run[s].dev, s), Continue(s, Idle, {})
  PROVE  /\ PresenceIsTrue' /\ Connected' = Connected \ {s}
         /\ SameRuns(Session \ {s}) /\ run'[s] = Idle
<1>1. run' = [q \in Session |-> IF q = s THEN Idle ELSE run[q]] /\ s \in Session
  BY DEF Continue, Connected, InPhase
<1>2. Idle.phase = "idle"
  BY DEF Idle
<1>3. Connected' = Connected \ {s} /\ SameRuns(Session \ {s}) /\ run'[s] = Idle
  BY <1>1, <1>2 DEF Connected, InPhase, SameRuns
<1>4. run[s].dev \in Device /\ run[s].phase = "connected"
  BY DEF CoreInv, Proved, Connected, InPhase
<1>5. live' = [live EXCEPT ![run[s].dev] = @ \ {s}]
  BY DEF Leave
<1>6. \A q \in Connected' : run'[q] = run[q]
  BY <1>3 DEF SameRuns, Connected, InPhase
<1>7. PresenceIsTrue'
  BY <1>3, <1>4, <1>5, <1>6 DEF PresenceIsTrue, CoreInv, CoreTypeOK, RegistryTypeOK
<1> QED
  BY <1>3, <1>7

-----------------------------------------------------------------------------
(* The queue of writes.  What Append and Tail do to the writes that wake a *)
(* run, to the last one, and to what each of them stores.                  *)
Waiting == {s \in Session : run[s].phase \in {"expiring", "saving"}}

WakersIn(queue, s) == {i \in 1..Len(queue) : queue[i].by = s}
WokenOnce(queue, s) == \E i \in 1..Len(queue) : WakersIn(queue, s) = {i}
Awaited(queue, s) == IF s \in Waiting THEN WokenOnce(queue, s) ELSE WakersIn(queue, s) = {}

EndsWith(queue, list) == queue # <<>> => queue[Len(queue)].snap = list
Omits(queue, D) == \A i \in 1..Len(queue) : \A d \in D : queue[i].snap[d] = 0
OmitsOwn(queue) ==
  \A i \in 1..Len(queue) : queue[i].by \in Device => queue[i].snap[queue[i].by] = 0

(* Every run that waits has its one write; the last write is the list; a   *)
(* revocation's write leaves its device out, and so does all there is once *)
(* the revocation was answered.                                            *)
QueueInv ==
  /\ \A s \in Session : Awaited(writes, s)
  /\ EndsWith(writes, devices)
  /\ OmitsOwn(writes) /\ Omits(writes, revoked)
  /\ \A d \in revoked : devices[d] = 0 /\ disk[d] = 0

(* What the head and the tail of a queue of writes are.                    *)
LEMMA TailIs ==
  ASSUME NEW queue \in Seq(WriteRecord), queue # <<>>
  PROVE  /\ Len(Tail(queue)) = Len(queue) - 1 /\ Len(queue) \in Nat \ {0}
         /\ \A i \in 1..Len(Tail(queue)) : Tail(queue)[i] = queue[i + 1]
         /\ Head(queue) = queue[1] /\ Tail(queue) \in Seq(WriteRecord)
BY HeadTailProperties, EmptySeq

(* What a queue of writes is after one more.                               *)
LEMMA AppendIs ==
  ASSUME NEW queue \in Seq(WriteRecord), NEW w \in WriteRecord
  PROVE  /\ Append(queue, w) \in Seq(WriteRecord) /\ Append(queue, w) # <<>>
         /\ Len(Append(queue, w)) = Len(queue) + 1 /\ Len(queue) \in Nat
         /\ \A i \in 1..Len(queue) : Append(queue, w)[i] = queue[i]
         /\ Append(queue, w)[Len(queue) + 1] = w
BY AppendProperties

(* Taking the oldest write off leaves the others waking whom they woke.    *)
LEMMA TailWakers ==
  ASSUME NEW queue \in Seq(WriteRecord), queue # <<>>, NEW s
  PROVE  /\ WakersIn(queue, s) = {} => Head(queue).by # s /\ WakersIn(Tail(queue), s) = {}
         /\ WokenOnce(queue, s) =>
              IF Head(queue).by = s THEN WakersIn(Tail(queue), s) = {} ELSE WokenOnce(Tail(queue), s)
<1>1. /\ Len(Tail(queue)) = Len(queue) - 1 /\ Len(queue) \in Nat \ {0}
      /\ \A i \in 1..Len(Tail(queue)) : Tail(queue)[i] = queue[i + 1]
      /\ Head(queue) = queue[1]
  BY TailIs
<1>2. \A i \in 1..Len(Tail(queue)) : i \in WakersIn(Tail(queue), s) <=> i + 1 \in WakersIn(queue, s)
  BY <1>1 DEF WakersIn
<1>3. 1 \in WakersIn(queue, s) <=> Head(queue).by = s
  BY <1>1 DEF WakersIn
<1>4. WakersIn(queue, s) \subseteq 1..Len(queue) /\ WakersIn(Tail(queue), s) \subseteq 1..Len(Tail(queue))
  BY DEF WakersIn
<1>5. ASSUME WakersIn(queue, s) = {} PROVE Head(queue).by # s /\ WakersIn(Tail(queue), s) = {}
  BY <1>2, <1>3, <1>4, <1>5
<1>6. ASSUME NEW i \in 1..Len(queue), WakersIn(queue, s) = {i}
      PROVE  IF Head(queue).by = s THEN WakersIn(Tail(queue), s) = {} ELSE WokenOnce(Tail(queue), s)
  <2>1. CASE i = 1
    <3>1. \A j \in 1..Len(Tail(queue)) : j + 1 # 1
      BY <1>1
    <3>2. WakersIn(Tail(queue), s) = {}
      BY <1>2, <1>4, <1>6, <2>1, <3>1
    <3> QED
      BY <1>3, <1>6, <2>1, <3>2
  <2>2. CASE i # 1
    <3>1. i - 1 \in 1..Len(Tail(queue)) /\ \A j \in 1..Len(Tail(queue)) : j + 1 = i <=> j = i - 1
      BY <1>1, <2>2
    <3>2. WakersIn(Tail(queue), s) = {i - 1}
      BY <1>2, <1>4, <1>6, <3>1
    <3>3. Head(queue).by # s
      BY <1>3, <1>6, <2>2
    <3> QED
      BY <3>1, <3>2, <3>3 DEF WokenOnce
  <2> QED
    BY <2>1, <2>2
<1> QED
  BY <1>5, <1>6 DEF WokenOnce

(* One more write wakes whom it wakes, and nobody it woke already.         *)
LEMMA AppendWakers ==
  ASSUME NEW queue \in Seq(WriteRecord), NEW w \in WriteRecord, NEW s
  PROVE  /\ w.by # s => /\ WakersIn(queue, s) = {} => WakersIn(Append(queue, w), s) = {}
                        /\ WokenOnce(queue, s) => WokenOnce(Append(queue, w), s)
         /\ w.by = s /\ WakersIn(queue, s) = {} => WokenOnce(Append(queue, w), s)
<1>1. /\ Len(Append(queue, w)) = Len(queue) + 1 /\ Len(queue) \in Nat
      /\ \A i \in 1..Len(queue) : Append(queue, w)[i] = queue[i]
      /\ Append(queue, w)[Len(queue) + 1] = w
  BY AppendIs
<1>2. 1..Len(Append(queue, w)) = 1..Len(queue) \cup {Len(queue) + 1}
  BY <1>1
<1>3. WakersIn(Append(queue, w), s) = WakersIn(queue, s) \cup (IF w.by = s THEN {Len(queue) + 1} ELSE {})
  BY <1>1, <1>2 DEF WakersIn
<1> QED
  BY <1>2, <1>3 DEF WokenOnce

(* A shorter queue omits what it omitted and ends as it ended.             *)
LEMMA TailKeeps ==
  ASSUME NEW queue \in Seq(WriteRecord), queue # <<>>, NEW list, NEW D
  PROVE  /\ EndsWith(queue, list) => EndsWith(Tail(queue), list)
         /\ Omits(queue, D) => Omits(Tail(queue), D)
         /\ OmitsOwn(queue) => OmitsOwn(Tail(queue))
<1>1. /\ Len(Tail(queue)) = Len(queue) - 1 /\ Len(queue) \in Nat \ {0}
      /\ \A i \in 1..Len(Tail(queue)) : Tail(queue)[i] = queue[i + 1]
      /\ Tail(queue) \in Seq(WriteRecord)
  BY TailIs
<1>2. Tail(queue) # <<>> => Len(Tail(queue)) \in 1..Len(Tail(queue)) /\ Len(Tail(queue)) + 1 = Len(queue)
  BY <1>1, EmptySeq
<1>3. \A i \in 1..Len(Tail(queue)) : i + 1 \in 1..Len(queue)
  BY <1>1
<1>4. EndsWith(queue, list) => EndsWith(Tail(queue), list)
  BY <1>1, <1>2 DEF EndsWith
<1>5. (Omits(queue, D) => Omits(Tail(queue), D)) /\ (OmitsOwn(queue) => OmitsOwn(Tail(queue)))
  BY <1>1, <1>3 DEF Omits, OmitsOwn
<1> QED
  BY <1>4, <1>5

(* A longer queue omits what both it and the new write omit.               *)
LEMMA AppendKeeps ==
  ASSUME NEW queue \in Seq(WriteRecord), NEW w \in WriteRecord, NEW D
  PROVE  /\ EndsWith(Append(queue, w), w.snap)
         /\ Omits(queue, D) /\ (\A d \in D : w.snap[d] = 0) => Omits(Append(queue, w), D)
         /\ OmitsOwn(queue) /\ (w.by \in Device => w.snap[w.by] = 0) => OmitsOwn(Append(queue, w))
<1>1. /\ Len(Append(queue, w)) = Len(queue) + 1 /\ Len(queue) \in Nat
      /\ \A i \in 1..Len(queue) : Append(queue, w)[i] = queue[i]
      /\ Append(queue, w)[Len(queue) + 1] = w
  BY AppendIs
<1>2. 1..Len(Append(queue, w)) = 1..Len(queue) \cup {Len(queue) + 1}
  BY <1>1
<1>3. EndsWith(Append(queue, w), w.snap)
  BY <1>1 DEF EndsWith
<1>4. Omits(queue, D) /\ (\A d \in D : w.snap[d] = 0) => Omits(Append(queue, w), D)
  BY <1>1, <1>2 DEF Omits
<1>5. OmitsOwn(queue) /\ (w.by \in Device => w.snap[w.by] = 0) => OmitsOwn(Append(queue, w))
  BY <1>1, <1>2 DEF OmitsOwn
<1> QED
  BY <1>3, <1>4, <1>5

(* Whoever awaits the oldest write waits.                                  *)
LEMMA HeadIsAwaited ==
  ASSUME CoreInv, QueueInv, writes # <<>>, Head(writes).by \in Session
  PROVE  Head(writes).by \in Waiting
<1>1. writes \in Seq(WriteRecord)
  BY DEF CoreInv, CoreTypeOK, RegistryTypeOK, WriteRecord
<1> QED
  BY <1>1, TailWakers DEF QueueInv, Awaited

-----------------------------------------------------------------------------
(* The list.  A run that saves, or is connected, has its device on the     *)
(* list, unless it was overtaken; no other run counts as overtaken.        *)
Committed == {s \in Session : run[s].phase \in {"saving", "connected"}}

ListInv ==
  /\ PresenceIsTrue
  /\ overtaken \subseteq Committed
  /\ \A s \in Committed \ overtaken : devices[run[s].dev] # 0

(* The devices in D may leave the list, if the runs that saved them are    *)
(* overtaken and the connections are gone.                                 *)
LEMMA ListMoves ==
  ASSUME CoreInv, ListInv, PresenceIsTrue', NEW D, Overtake(D),
         \A d \in Device \ D : devices[d] # 0 => devices'[d] # 0,
         \A q \in Committed \ Committed' : run'[q].phase = "idle",
         \A q \in Committed' :
           \/ q \notin Committed /\ devices'[run'[q].dev] # 0
           \/ /\ q \in Committed /\ run'[q].dev = run[q].dev
              /\ run[q].dev \in D => run[q].phase = "saving"
  PROVE  ListInv'
<1>1. overtaken' = {q \in overtaken \cup {r \in InPhase("saving") : run[r].dev \in D} :
                     run'[q].phase # "idle"}
  BY DEF Overtake
<1>2. InPhase("saving") \subseteq Committed
  BY DEF InPhase, Committed
<1>3. overtaken' \subseteq Committed'
  BY <1>1, <1>2 DEF ListInv
<1>4. ASSUME NEW q \in Committed' \ overtaken' PROVE devices'[run'[q].dev] # 0
  <2>1. CASE q \notin Committed
    BY <2>1
  <2>2. CASE q \in Committed
    <3>1. run'[q].dev = run[q].dev /\ run[q].dev \in Device
      BY <2>2 DEF Committed, CoreInv, Proved, Authorizing
    <3>2. run'[q].phase # "idle"
      BY DEF Committed
    <3>3. q \notin overtaken /\ ~(q \in InPhase("saving") /\ run[q].dev \in D)
      BY <1>1, <3>2
    <3>4. run[q].dev \notin D
      BY <2>2, <3>3 DEF InPhase, Committed
    <3> QED
      BY <2>2, <3>1, <3>3, <3>4 DEF ListInv
  <2> QED
    BY <2>1, <2>2
<1> QED
  BY <1>3, <1>4 DEF ListInv

(* As long as no run that counts goes on, nobody is overtaken.             *)
LEMMA OvertakesNobody ==
  ASSUME ListInv, UNCHANGED overtaken, SameRuns(Committed)
  PROVE  Overtake({})
BY DEF ListInv, Overtake, SameRuns, Committed

(* Steps that leave the list and the connections alone.                    *)
LEMMA ListStays ==
  ASSUME CoreInv, ListInv, UNCHANGED devices, PresenceIsTrue', Overtake({}),
         NEW s, SameRuns(Session \ {s}),
         s \in Session => \/ run'[s].phase = "idle"
                          \/ s \notin Committed /\ s \notin Committed'
                          \/ s \in Committed /\ s \in Committed' /\ run'[s].dev = run[s].dev
                          \/ s \notin Committed /\ devices[run'[s].dev] # 0
  PROVE  ListInv'
<1>1. \A q \in Session \ {s} : run'[q] = run[q]
  BY DEF SameRuns
<1>2. \A q \in Session \ {s} : q \in Committed <=> q \in Committed'
  BY <1>1 DEF Committed
<1>3. \A q \in Committed \ Committed' : run'[q].phase = "idle"
  BY <1>2 DEF Committed
<1>4. ASSUME NEW q \in Committed'
      PROVE  \/ q \notin Committed /\ devices'[run'[q].dev] # 0
             \/ q \in Committed /\ run'[q].dev = run[q].dev
  <2>1. q \in Session /\ run'[q].phase # "idle"
    BY DEF Committed
  <2> QED
    BY <1>1, <1>2, <2>1
<1> QED
  BY <1>3, <1>4, ListMoves

(* Attaching a connection keeps the list true to the runs.                 *)
LEMMA AttachList ==
  ASSUME CoreInv, ListInv, NEW queue, NEW s \in Session, Attach(queue, s), UNCHANGED devices,
         Overtake({}), run[s].phase = "saving" \/ (run[s].phase = "admitting" /\ devices[run[s].dev] # 0)
  PROVE  ListInv'
<1>1. PresenceIsTrue /\ run[s] \in Run
  BY DEF ListInv, CoreInv, CoreTypeOK
<1>2. CASE run[s].gone
  <2>1. PresenceIsTrue' /\ SameRuns(Session \ {s}) /\ run'[s] = Idle
    BY <1>1, <1>2, AttachGone
  <2> QED
    BY <2>1, ListStays DEF Idle
<1>3. CASE ~run[s].gone
  <2>1. /\ PresenceIsTrue' /\ SameRuns(Session \ {s})
        /\ run'[s] = [run[s] EXCEPT !.phase = "connected"]
    BY <1>1, <1>3, AttachConnects
  <2>2. run'[s].phase = "connected" /\ run'[s].dev = run[s].dev
    BY <1>1, <2>1 DEF Run
  <2> QED
    BY <2>1, <2>2, ListStays DEF Committed
<1> QED
  BY <1>2, <1>3

(* Hanging up on devices keeps the list true to the runs.                  *)
LEMMA HangUpList ==
  ASSUME CoreInv, ListInv, NEW D \in SUBSET Device, NEW s, NEW r, HangUp(D, s, r),
         NEW E \in SUBSET D, Overtake(E),
         s \in Session => run[s].phase \in {"greeting", "admitting"},
         \A d \in Device \ E : devices[d] # 0 => devices'[d] # 0,
         \/ r.phase \in {"idle", "admitting", "expiring"}
         \/ r.phase = "saving" /\ devices'[r.dev] # 0
  PROVE  ListInv'
<1>0. PresenceIsTrue
  BY DEF ListInv
<1>1. /\ PresenceIsTrue'
      /\ ConnectionsOf(D) = {q \in Connected : run[q].dev \in D}
      /\ \A q \in Session :
           run'[q] = IF q \in ConnectionsOf(D) THEN Idle ELSE IF q = s THEN r ELSE run[q]
  <2>1. r.phase # "connected" /\ (s \in Session => run[s].phase # "connected")
    OBVIOUS
  <2>2. PresenceIsTrue' /\ ConnectionsOf(D) = {q \in Connected : run[q].dev \in D}
    BY <1>0, <2>1, HangUpConnections, Zenon
  <2>3. \A q \in Session :
           run'[q] = IF q \in ConnectionsOf(D) THEN Idle ELSE IF q = s THEN r ELSE run[q]
    BY DEF HangUp, Continue
  <2> QED
    BY <2>2, <2>3
<1>2. Idle.phase = "idle"
  BY DEF Idle
<1>3. ASSUME NEW q \in Committed \ Committed' PROVE run'[q].phase = "idle"
  BY <1>1, <1>2 DEF Committed
<1>4. ASSUME NEW q \in Committed'
      PROVE  \/ q \notin Committed /\ devices'[run'[q].dev] # 0
             \/ /\ q \in Committed /\ run'[q].dev = run[q].dev
                /\ run[q].dev \in E => run[q].phase = "saving"
  <2>1. q \in Session /\ run'[q].phase \in {"saving", "connected"} /\ q \notin ConnectionsOf(D)
    BY <1>1, <1>2 DEF Committed
  <2>2. CASE q = s
    BY <1>1, <2>1, <2>2 DEF Committed
  <2>3. CASE q # s
    BY <1>1, <2>1, <2>3 DEF Committed, Connected, InPhase
  <2> QED
    BY <2>2, <2>3
<1> QED
  BY <1>1, <1>3, <1>4, ListMoves

(* One step keeps the list true to the runs.                               *)
LEMMA ListStep == CoreInv /\ QueueInv /\ ListInv /\ [Next]_vars => ListInv'
<1> SUFFICES ASSUME CoreInv, QueueInv, ListInv, [Next]_vars PROVE ListInv'
  OBVIOUS
<1>1. /\ PresenceIsTrue /\ \A s \in Session : run[s] \in Run
      /\ devices \in [Device -> Nat] /\ clock \in Nat /\ clock # 0
      /\ \A s \in Session : run[s].now \in Nat
  BY DEF ListInv, CoreInv, CoreTypeOK, RegistryTypeOK, Run, Start
<1>2. Idle.phase = "idle"
  BY DEF Idle
<1>3. ASSUME UNCHANGED <<devices, live, overtaken>>, NEW s \in Session, NEW r, Continue(s, r, {}),
             run[s].phase \notin {"saving", "connected"}, r.phase \notin {"saving", "connected"}
      PROVE  ListInv'
  <2>1. Connected' = Connected /\ SameRuns(Session \ {s}) /\ run'[s] = r
    BY <1>3, ContinueKeeps
  <2>2. SameRuns(Connected) /\ SameRuns(Committed)
    BY <1>3, <2>1 DEF SameRuns, Connected, InPhase, Committed
  <2> QED
    BY <1>1, <1>3, <2>1, <2>2, PresenceKept, OvertakesNobody, ListStays DEF Committed
<1>11. ASSUME NEW s \in Session, Open(s) PROVE ListInv'
  <2>1. [run[s] EXCEPT !.phase = "greeting"].phase = "greeting"
    BY <1>1 DEF Run
  <2> QED
    BY <1>3, <1>11, <2>1 DEF Open, Step, registryVars, history
<1>12. ASSUME NEW s \in Session, Rejected(s) PROVE ListInv'
  BY <1>2, <1>3, <1>12 DEF Rejected, registryVars, history
<1>13. ASSUME NEW s \in Session, NEW d \in Device, NEW t \in minted \cup {None}, Hello(s, d, t)
       PROVE  ListInv'
  <2> DEFINE due == Expired(clock)
             r == [phase |-> IF due = {} THEN "admitting" ELSE "expiring",
                   dev |-> d, token |-> t, now |-> clock, gone |-> FALSE]
  <2>1. HangUp(due, s, r) /\ Overtake(due) /\ devices' = Without(due) /\ run[s].phase = "greeting"
    BY <1>13 DEF Hello
  <2>2. due \in SUBSET Device /\ r.phase \in {"admitting", "expiring"}
    BY DEF Expired
  <2>3. \A e \in Device \ due : devices[e] # 0 => devices'[e] # 0
    BY <2>1 DEF Without
  <2> QED
    BY <2>1, <2>2, <2>3, HangUpList
<1>14. ASSUME NEW s \in Session, AdmitKnown(s) PROVE ListInv'
  <2>1. /\ run[s].phase = "admitting" /\ run[s].dev \in Device /\ devices[run[s].dev] # 0
        /\ UNCHANGED <<devices, overtaken>>
    BY <1>1, <1>14 DEF AdmitKnown, CoreInv, Proved, Authorizing, history
  <2>2. CASE Attach(writes, s)
    <3>1. SameRuns(Session \ {s})
      <4>1. run[s].gone \in BOOLEAN
        BY <1>1 DEF Run
      <4> QED
        BY <1>1, <2>1, <2>2, AttachGone, AttachConnects
    <3>2. SameRuns(Committed)
      BY <2>1, <3>1 DEF SameRuns, Committed
    <3> QED
      BY <2>1, <2>2, <3>2, OvertakesNobody, AttachList
  <2>3. CASE Step(s, "saving") /\ UNCHANGED live
    <3>1. [run[s] EXCEPT !.phase = "saving"].phase = "saving" /\ [run[s] EXCEPT !.phase = "saving"].dev = run[s].dev
      BY <1>1 DEF Run
    <3>2. /\ Connected' = Connected /\ SameRuns(Session \ {s})
          /\ run'[s].dev = run[s].dev /\ SameRuns(Connected) /\ SameRuns(Committed)
      BY <2>1, <2>3, <3>1, ContinueKeeps DEF Step, SameRuns, Connected, Committed, InPhase
    <3> QED
      BY <1>1, <2>1, <2>3, <3>2, PresenceKept, OvertakesNobody, ListStays DEF Committed
  <2> QED
    BY <1>14, <2>2, <2>3 DEF AdmitKnown
<1>15. ASSUME NEW s \in Session, AdmitByCode(s) PROVE ListInv'
  <2> DEFINE d == run[s].dev
             r == [run[s] EXCEPT !.phase = "saving"]
  <2>1. d \in Device /\ run[s].phase = "admitting" /\ r.phase = "saving" /\ r.dev = d
    BY <1>1, <1>15 DEF AdmitByCode, CoreInv, Proved, Authorizing, Run
  <2>2. HangUp({d}, s, r) /\ Overtake({}) /\ devices' = [devices EXCEPT ![d] = run[s].now + DeviceTtl]
    BY <1>15 DEF AdmitByCode
  <2>3. devices'[d] # 0 /\ \A e \in Device : devices[e] # 0 => devices'[e] # 0
    BY <1>1, <2>1, <2>2
  <2> HIDE DEF d, r
  <2> QED
    BY <2>1, <2>2, <2>3, HangUpList
<1>16. ASSUME NEW s \in Session, TurnAway(s) PROVE ListInv'
  BY <1>2, <1>3, <1>16 DEF TurnAway, history
<1>17. ASSUME NEW s \in Session, StreamEnds(s) PROVE ListInv'
  <2>1. Overtake({}) /\ UNCHANGED devices
    BY <1>17 DEF StreamEnds
  <2>2. CASE run[s].phase = "greeting" /\ Continue(s, Idle, {}) /\ UNCHANGED live
    <3>1. Connected' = Connected /\ SameRuns(Session \ {s}) /\ run'[s] = Idle
      BY <1>2, <2>2, ContinueKeeps
    <3>2. PresenceIsTrue'
      BY <1>1, <2>2, <3>1, PresenceKept DEF SameRuns, Connected, InPhase
    <3> QED
      BY <1>2, <2>1, <3>1, <3>2, ListStays
  <2>3. CASE run[s].phase \in Authorizing /\ Continue(s, [run[s] EXCEPT !.gone = TRUE], {}) /\ UNCHANGED live
    <3>1. /\ [run[s] EXCEPT !.gone = TRUE].phase = run[s].phase
          /\ [run[s] EXCEPT !.gone = TRUE].dev = run[s].dev
      BY <1>1 DEF Run
    <3>2. Connected' = Connected /\ SameRuns(Session \ {s}) /\ run'[s] = [run[s] EXCEPT !.gone = TRUE]
      BY <2>3, <3>1, ContinueKeeps DEF Authorizing
    <3>3. PresenceIsTrue'
      BY <1>1, <2>3, <3>2, PresenceKept DEF SameRuns, Connected, InPhase, Authorizing
    <3> QED
      BY <2>1, <3>1, <3>2, <3>3, ListStays DEF Committed
  <2>4. CASE run[s].phase = "connected" /\ Leave(writes, run[s].dev, s) /\ Continue(s, Idle, {})
    <3>1. PresenceIsTrue' /\ SameRuns(Session \ {s}) /\ run'[s] = Idle
      BY <1>1, <2>4, LeaveDisconnects DEF Connected, InPhase
    <3> QED
      BY <1>2, <2>1, <3>1, ListStays
  <2> QED
    BY <1>17, <2>2, <2>3, <2>4 DEF StreamEnds
<1>18. ASSUME NEW d \in Device, Revoke(d) PROVE ListInv'
  <2>1. HangUp({d}, None, Idle) /\ Overtake({d}) /\ devices' = Without({d})
    BY <1>18 DEF Revoke
  <2>2. \A e \in Device \ {d} : devices[e] # 0 => devices'[e] # 0
    BY <2>1 DEF Without
  <2> QED
    BY <1>2, <2>1, <2>2, HangUpList
<1>19. ASSUME WriteLands PROVE ListInv'
  <2> DEFINE s == Head(writes).by
  <2>1. Overtake({}) /\ UNCHANGED devices
    BY <1>19 DEF WriteLands
  <2>2. CASE s \in Session /\ run[s].phase = "expiring" /\ Step(s, "admitting") /\ UNCHANGED live
    <3>1. [run[s] EXCEPT !.phase = "admitting"].phase = "admitting"
      BY <1>1, <2>2 DEF Run
    <3>2. Connected' = Connected /\ SameRuns(Session \ {s}) /\ run'[s].phase = "admitting"
      BY <2>2, <3>1, ContinueKeeps DEF Step
    <3>3. PresenceIsTrue'
      BY <1>1, <2>2, <3>2, PresenceKept DEF SameRuns, Connected, InPhase
    <3> QED
      BY <2>1, <2>2, <3>2, <3>3, ListStays DEF Committed
  <2>3. CASE s \in Session /\ run[s].phase = "saving" /\ Attach(Tail(writes), s)
    BY <2>1, <2>3, AttachList
  <2>4. CASE UNCHANGED <<live, run>>
    <3>1. PresenceIsTrue'
      BY <1>1, <2>4 DEF PresenceIsTrue, Connected, InPhase
    <3> QED
      BY <2>1, <2>4, <3>1, ListStays DEF SameRuns, Committed
  <2> QED
    BY <1>19, <2>2, <2>3, <2>4 DEF WriteLands
<1>20. ASSUME WriteFails PROVE ListInv'
  <2> DEFINE s == Head(writes).by
  <2>1. Overtake({}) /\ UNCHANGED <<devices, live>> /\ Continue(s, Idle, {}) /\ writes # <<>>
    BY <1>20 DEF WriteFails
  <2>2. s \in Session => run[s].phase # "connected"
    BY <2>1, QueueTypes, HeadIsAwaited DEF QueueInv, Waiting
  <2>3. Connected' = Connected /\ SameRuns(Session \ {s}) /\ (s \in Session => run'[s] = Idle)
    BY <1>2, <2>1, <2>2, ContinueKeeps
  <2>4. PresenceIsTrue'
    BY <1>1, <2>1, <2>2, <2>3, PresenceKept DEF SameRuns, Connected, InPhase
  <2> QED
    BY <1>2, <2>1, <2>3, <2>4, ListStays
<1>21. ASSUME Restart PROVE ListInv'
  <2>1. Connected' = {} /\ Committed' = {} /\ overtaken' = {} /\ live' = [d \in Device |-> {}]
    BY <1>2, <1>21 DEF Restart, Connected, InPhase, Committed
  <2> QED
    BY <2>1 DEF ListInv, PresenceIsTrue
<1>22. ASSUME UNCHANGED <<devices, live, run, overtaken>> PROVE ListInv'
  BY <1>22 DEF ListInv, PresenceIsTrue, Connected, InPhase, Committed
<1>23. ASSUME NEW d \in Device, Rename(d), UNCHANGED <<peersVars, run, history>> PROVE ListInv'
  BY <1>22, <1>23 DEF Rename, history
<1>24. ASSUME NEW t \in Token, CreatePairing(t), UNCHANGED <<peersVars, run, history>> PROVE ListInv'
  BY <1>22, <1>24 DEF CreatePairing, history
<1>25. ASSUME ActivePairing \/ Tick, UNCHANGED <<peersVars, run, history>> PROVE ListInv'
  BY <1>22, <1>25 DEF ActivePairing, Tick, history
<1>26. ASSUME UNCHANGED <<registryVars, run, history>> PROVE ListInv'
  BY <1>22, <1>26 DEF registryVars, history
<1> QED
  BY <1>11, <1>12, <1>13, <1>14, <1>15, <1>16, <1>17, <1>18, <1>19, <1>20, <1>21, <1>23,
     <1>24, <1>25, <1>26 DEF Next, vars

-----------------------------------------------------------------------------
(* What each way of using the queue does to its invariant.                 *)
Stored(queue) == \/ queue = writes
                 \/ writes # <<>> /\ queue = Tail(writes)

(* The queue that is left and who it wakes.                                *)
LEMMA QueueLeft ==
  ASSUME CoreInv, QueueInv, NEW queue, Stored(queue)
  PROVE  /\ queue \in Seq(WriteRecord) /\ EndsWith(queue, devices)
         /\ OmitsOwn(queue) /\ Omits(queue, revoked)
         /\ \A s \in Session : queue = writes \/ Head(writes).by # s => Awaited(queue, s)
         /\ \A s \in Session : queue # writes /\ Head(writes).by = s => WakersIn(queue, s) = {}
<1>1. writes \in Seq(WriteRecord)
  BY DEF CoreInv, CoreTypeOK, RegistryTypeOK, WriteRecord
<1>2. CASE queue = writes
  BY <1>1, <1>2 DEF QueueInv
<1>3. CASE writes # <<>> /\ queue = Tail(writes)
  <2>1. queue \in Seq(WriteRecord) /\ Len(queue) = Len(writes) - 1 /\ Len(writes) \in Nat
    BY <1>1, <1>3, TailIs
  <2>2. EndsWith(queue, devices) /\ OmitsOwn(queue) /\ Omits(queue, revoked)
    BY <1>1, <1>3, TailKeeps DEF QueueInv
  <2>3. ASSUME NEW s \in Session
        PROVE  /\ Head(writes).by # s => Awaited(queue, s)
               /\ Head(writes).by = s => WakersIn(queue, s) = {}
    <3>1. Awaited(writes, s)
      BY DEF QueueInv
    <3> QED
      BY <1>1, <1>3, <3>1, TailWakers DEF Awaited
  <2>4. queue # writes
    BY <2>1
  <2> QED
    BY <2>1, <2>2, <2>3, <2>4
<1> QED
  BY <1>2, <1>3 DEF Stored

(* Nothing is stored; only the run that the removed write woke goes on,    *)
(* and waits no more.                                                      *)
LEMMA QueueShrinks ==
  ASSUME CoreInv, QueueInv, NEW queue, Stored(queue), NoSave(queue), UNCHANGED devices,
         Omits(queue, revoked'), \A d \in revoked' : devices[d] = 0 /\ disk'[d] = 0,
         \A s \in Session : s \in Waiting' <=> s \in Waiting /\ ~(queue # writes /\ Head(writes).by = s)
  PROVE  QueueInv'
<1>1. writes' = queue
  BY DEF NoSave
<1>2. ASSUME NEW s \in Session PROVE Awaited(writes, s)'
  BY <1>1, QueueLeft DEF Awaited, WokenOnce, WakersIn
<1>3. EndsWith(writes, devices)' /\ OmitsOwn(writes)' /\ Omits(writes, revoked)'
  BY <1>1, QueueLeft DEF EndsWith, OmitsOwn, Omits
<1>4. \A d \in revoked' : devices'[d] = 0 /\ disk'[d] = 0
  OBVIOUS
<1> QED
  BY <1>2, <1>3, <1>4 DEF QueueInv

(* The list is stored for `by`, which waits if it is a run; a device that  *)
(* is no longer revoked may be back on the list.                           *)
LEMMA QueueGrows ==
  ASSUME CoreInv, QueueInv, NEW queue, Stored(queue), NEW list \in [Device -> Nat],
         NEW by \in Session \cup Device \cup {None}, Save(queue, list, by), devices' = list,
         revoked' \subseteq revoked, \A d \in revoked' : list[d] = 0 /\ disk'[d] = 0,
         by \in Device => list[by] = 0,
         by \in Session => by \notin Waiting /\ by \in Waiting',
         \A s \in Session \ {by} :
           s \in Waiting' <=> s \in Waiting /\ ~(queue # writes /\ Head(writes).by = s)
  PROVE  QueueInv'
<1> DEFINE w == [snap |-> list, by |-> by]
<1>1. writes' = Append(queue, w) /\ w \in WriteRecord /\ queue \in Seq(WriteRecord)
  BY QueueLeft DEF Save, WriteRecord
<1>2. ASSUME NEW s \in Session PROVE Awaited(writes, s)'
  <2>1. CASE s = by
    <3>1. WakersIn(writes, s) = {} /\ Awaited(writes, s)
      BY <2>1 DEF QueueInv, Awaited
    <3>2. WakersIn(queue, s) = {}
      BY <2>1, <3>1, QueueLeft DEF Awaited
    <3>3. WokenOnce(Append(queue, w), s)
      BY <1>1, <2>1, <3>2, AppendWakers
    <3> QED
      BY <1>1, <2>1, <3>3 DEF Awaited, WokenOnce, WakersIn
  <2>2. CASE s # by
    <3>1. \/ s \in Waiting' /\ WokenOnce(queue, s)
          \/ s \notin Waiting' /\ WakersIn(queue, s) = {}
      BY <2>2, QueueLeft DEF Awaited
    <3>2. \/ s \in Waiting' /\ WokenOnce(Append(queue, w), s)
          \/ s \notin Waiting' /\ WakersIn(Append(queue, w), s) = {}
      BY <1>1, <2>2, <3>1, AppendWakers
    <3> QED
      BY <1>1, <3>2 DEF Awaited, WokenOnce, WakersIn
  <2> QED
    BY <2>1, <2>2
<1>3. EndsWith(Append(queue, w), list) /\ OmitsOwn(Append(queue, w)) /\ Omits(Append(queue, w), revoked')
  <2>1. Omits(queue, revoked')
    BY QueueLeft DEF Omits
  <2> QED
    BY <1>1, <2>1, QueueLeft, AppendKeeps
<1>4. EndsWith(writes, devices)' /\ OmitsOwn(writes)' /\ Omits(writes, revoked)'
  BY <1>1, <1>3 DEF EndsWith, OmitsOwn, Omits
<1> HIDE DEF w
<1> QED
  BY <1>2, <1>4 DEF QueueInv

(* What the oldest write leaves is a shorter queue.                        *)
LEMMA TailIsShorter ==
  ASSUME CoreInv, writes # <<>>
  PROVE  Stored(Tail(writes)) /\ Tail(writes) # writes /\ writes \in Seq(WriteRecord)
<1>1. writes \in Seq(WriteRecord)
  BY DEF CoreInv, CoreTypeOK, RegistryTypeOK, WriteRecord
<1> DEFINE left == Len(Tail(writes))
           all  == Len(writes)
<1>2. left = all - 1 /\ all \in Nat
  BY <1>1, TailIs
<1>3. left # all
  <2> HIDE DEF left, all
  <2> QED
    BY <1>2
<1>4. Tail(writes) # writes
  BY <1>3, Zenon
<1> QED
  BY <1>1, <1>4 DEF Stored

(* A write of the list as it is, or none: nothing else changes.            *)
LEMMA QueueKept ==
  ASSUME CoreInv, QueueInv, NEW queue, Stored(queue),
         NoSave(queue) \/ Save(queue, devices, None),
         UNCHANGED <<devices, revoked>>, \A d \in revoked : disk'[d] = 0,
         \A s \in Session : s \in Waiting' <=> s \in Waiting /\ ~(queue # writes /\ Head(writes).by = s)
  PROVE  QueueInv'
<1>1. Omits(queue, revoked) /\ \A d \in revoked : devices[d] = 0
  BY QueueLeft DEF QueueInv
<1>2. CASE NoSave(queue)
  <2>1. Omits(queue, revoked')
    BY <1>1 DEF Omits
  <2> QED
    BY <1>1, <1>2, <2>1, QueueShrinks
<1>3. CASE Save(queue, devices, None)
  <2>1. devices \in [Device -> Nat]
    BY DEF CoreInv, CoreTypeOK, RegistryTypeOK
  <2> QED
    BY <1>1, <1>3, <2>1, QueueGrows
<1> QED
  BY <1>2, <1>3

(* Attaching a connection keeps the queue true to whoever waits.           *)
LEMMA QueueAttach ==
  ASSUME CoreInv, QueueInv, NEW queue, Stored(queue), NEW s \in Session, Attach(queue, s),
         UNCHANGED <<devices, revoked>>, \A d \in revoked : disk'[d] = 0,
         \/ run[s].phase = "admitting" /\ queue = writes
         \/ run[s].phase = "saving" /\ Head(writes).by = s /\ queue # writes
  PROVE  QueueInv'
<1>1. run[s] \in Run /\ Idle.phase = "idle"
  BY DEF CoreInv, CoreTypeOK, Idle
<1>2. run[s].gone \in BOOLEAN /\ [run[s] EXCEPT !.phase = "connected"].phase = "connected"
  BY <1>1 DEF Run
<1>3. /\ run'[s].phase \in {"idle", "connected"} /\ SameRuns(Session \ {s})
      /\ NoSave(queue) \/ Save(queue, devices, None)
  <2>1. CASE run[s].gone
    BY <1>1, <2>1 DEF Attach, Continue, SameRuns, Leave
  <2>2. CASE ~run[s].gone
    BY <1>2, <2>2 DEF Attach, Step, Continue, SameRuns
  <2> QED
    BY <1>2, <2>1, <2>2
<1>4. \A q \in Session : q \in Waiting' <=> q \in Waiting /\ ~(queue # writes /\ Head(writes).by = q)
  BY <1>3 DEF Waiting, SameRuns
<1> QED
  BY <1>3, <1>4, QueueKept

(* A run goes on, the connections of the devices in D are over: who waits. *)
LEMMA HangUpWaiting ==
  ASSUME CoreInv, PresenceIsTrue, NEW D \in SUBSET Device, NEW s, NEW r, HangUp(D, s, r),
         s \in Session => run[s].phase \notin {"connected", "expiring", "saving"}
  PROVE  /\ \A q \in Session \ {s} : q \in Waiting' <=> q \in Waiting
         /\ s \in Session => s \notin Waiting /\ (s \in Waiting' <=> r.phase \in {"expiring", "saving"})
<1>1. ConnectionsOf(D) = {q \in Connected : run[q].dev \in D}
  BY ConnectionsAre
<1>2. \A q \in Session :
        run'[q] = IF q \in ConnectionsOf(D) THEN Idle ELSE IF q = s THEN r ELSE run[q]
  BY DEF HangUp, Continue
<1>3. Idle.phase = "idle"
  BY DEF Idle
<1> QED
  BY <1>1, <1>2, <1>3 DEF Waiting, Connected, InPhase

(* One step keeps the queue true to the list and to whoever waits.         *)
LEMMA QueueStep == CoreInv /\ CoreInv' /\ ListInv /\ QueueInv /\ [Next]_vars => QueueInv'
<1> SUFFICES ASSUME CoreInv, CoreInv', ListInv, QueueInv, [Next]_vars PROVE QueueInv'
  OBVIOUS
<1>1. /\ PresenceIsTrue /\ \A s \in Session : run[s] \in Run
      /\ devices \in [Device -> Nat] /\ devices' \in [Device -> Nat]
      /\ revoked \in SUBSET Device /\ Stored(writes)
  BY DEF ListInv, CoreInv, CoreTypeOK, RegistryTypeOK, Stored
<1>2. Idle.phase = "idle"
  BY DEF Idle
<1>3. \A d \in revoked : devices[d] = 0 /\ disk[d] = 0
  BY DEF QueueInv
<1>4. ASSUME UNCHANGED <<devices, disk, lastWrite, writes, revoked>>, Waiting' = Waiting
      PROVE  QueueInv'
  <2>1. NoSave(writes)
    BY <1>4 DEF NoSave
  <2> QED
    BY <1>1, <1>3, <1>4, <2>1, QueueKept
<1>5. ASSUME UNCHANGED <<devices, disk, lastWrite, writes, revoked>>,
             NEW s \in Session, NEW r, Continue(s, r, {}),
             run[s].phase \in {"expiring", "saving"} <=> r.phase \in {"expiring", "saving"}
      PROVE  QueueInv'
  <2>1. Waiting' = Waiting
    BY <1>5 DEF Waiting, Continue
  <2> QED
    BY <1>4, <1>5, <2>1
<1>11. ASSUME NEW s \in Session, Open(s) PROVE QueueInv'
  <2>1. [run[s] EXCEPT !.phase = "greeting"].phase = "greeting"
    BY <1>1 DEF Run
  <2> QED
    BY <1>5, <1>11, <2>1 DEF Open, Step, registryVars, history
<1>12. ASSUME NEW s \in Session, Rejected(s) PROVE QueueInv'
  BY <1>2, <1>5, <1>12 DEF Rejected, registryVars, history
<1>13. ASSUME NEW s \in Session, NEW d \in Device, NEW t \in minted \cup {None}, Hello(s, d, t)
       PROVE  QueueInv'
  <2> DEFINE due == Expired(clock)
             r == [phase |-> IF due = {} THEN "admitting" ELSE "expiring",
                   dev |-> d, token |-> t, now |-> clock, gone |-> FALSE]
  <2>1. /\ HangUp(due, s, r) /\ devices' = Without(due) /\ run[s].phase = "greeting"
        /\ disk' = disk /\ revoked' = revoked
    BY <1>13 DEF Hello
  <2>2. due \in SUBSET Device
    BY DEF Expired
  <2>3. /\ \A q \in Session \ {s} : q \in Waiting' <=> q \in Waiting
        /\ s \notin Waiting /\ (s \in Waiting' <=> r.phase \in {"expiring", "saving"})
    <3> HIDE DEF r, due
    <3> QED
      BY <1>1, <2>1, <2>2, HangUpWaiting
  <2>4. CASE due = {}
    <3>1. NoSave(writes) /\ r.phase = "admitting"
      BY <1>13, <2>4 DEF Hello
    <3>2. devices' = devices
      BY <1>1, <2>1, <2>4 DEF Without
    <3> HIDE DEF r, due
    <3> QED
      BY <1>1, <1>3, <2>1, <2>3, <3>1, <3>2, QueueKept
  <2>5. CASE due # {}
    <3>1. Save(writes, Without(due), s) /\ r.phase = "expiring"
      BY <1>13, <2>5 DEF Hello
    <3>2. \A e \in revoked : Without(due)[e] = 0
      BY <1>1, <1>3 DEF Without
    <3>3. s \notin Device /\ \A e \in revoked' : Without(due)[e] = 0 /\ disk'[e] = 0
      BY <1>1, <1>3, <2>1, <3>2
    <3>4. s \in Waiting' /\ Without(due) \in [Device -> Nat]
      BY <1>1, <2>1, <2>3, <3>1
    <3> HIDE DEF r, due
    <3> QED
      BY <1>1, <2>1, <2>3, <3>1, <3>3, <3>4, QueueGrows
  <2> QED
    BY <2>4, <2>5
<1>14. ASSUME NEW s \in Session, AdmitKnown(s) PROVE QueueInv'
  <2>1. run[s].phase = "admitting" /\ UNCHANGED <<devices, disk, revoked>>
    BY <1>14 DEF AdmitKnown, history
  <2>2. CASE Attach(writes, s)
    BY <1>1, <1>3, <2>1, <2>2, QueueAttach
  <2>3. CASE Save(writes, devices, s) /\ Step(s, "saving")
    <3>1. [run[s] EXCEPT !.phase = "saving"].phase = "saving"
      BY <1>1 DEF Run
    <3>2. s \notin Waiting /\ s \in Waiting' /\ \A q \in Session \ {s} : q \in Waiting' <=> q \in Waiting
      BY <2>1, <2>3, <3>1 DEF Waiting, Step, Continue
    <3>3. \A e \in revoked' : devices[e] = 0 /\ disk'[e] = 0
      BY <1>3, <2>1
    <3> QED
      BY <1>1, <2>1, <2>3, <3>2, <3>3, QueueGrows
  <2> QED
    BY <1>14, <2>2, <2>3 DEF AdmitKnown
<1>15. ASSUME NEW s \in Session, AdmitByCode(s) PROVE QueueInv'
  <2> DEFINE d == run[s].dev
             r == [run[s] EXCEPT !.phase = "saving"]
             list == [devices EXCEPT ![d] = run[s].now + DeviceTtl]
  <2>1. d \in Device /\ run[s].phase = "admitting" /\ r.phase = "saving"
    BY <1>1, <1>15 DEF AdmitByCode, CoreInv, Proved, Authorizing, Run
  <2>2. /\ HangUp({d}, s, r) /\ devices' = list /\ Save(writes, list, s)
        /\ disk' = disk /\ revoked' = revoked \ {d}
    BY <1>15 DEF AdmitByCode
  <2>3. /\ \A q \in Session \ {s} : q \in Waiting' <=> q \in Waiting
        /\ s \notin Waiting /\ s \in Waiting'
    <3> HIDE DEF r, d
    <3> QED
      BY <1>1, <2>1, <2>2, HangUpWaiting
  <2>4. \A e \in revoked' : list[e] = 0 /\ disk'[e] = 0
    BY <1>1, <1>3, <2>2
  <2>5. list \in [Device -> Nat]
    BY <1>1, <2>2
  <2> HIDE DEF r, d, list
  <2> QED
    BY <1>1, <2>2, <2>3, <2>4, <2>5, QueueGrows
<1>16. ASSUME NEW s \in Session, TurnAway(s) PROVE QueueInv'
  BY <1>2, <1>5, <1>16 DEF TurnAway, history
<1>17. ASSUME NEW s \in Session, StreamEnds(s) PROVE QueueInv'
  <2>1. UNCHANGED <<devices, disk, revoked>>
    BY <1>17 DEF StreamEnds
  <2>2. CASE run[s].phase = "greeting" /\ Continue(s, Idle, {}) /\ UNCHANGED <<live, lastWrite, writes, peersVars>>
    BY <1>2, <1>5, <2>1, <2>2
  <2>3. CASE /\ Continue(s, [run[s] EXCEPT !.gone = TRUE], {})
             /\ UNCHANGED <<live, lastWrite, writes, peersVars>>
    <3>1. [run[s] EXCEPT !.gone = TRUE].phase = run[s].phase
      BY <1>1 DEF Run
    <3> QED
      BY <1>5, <2>1, <2>3, <3>1
  <2>4. CASE run[s].phase = "connected" /\ Leave(writes, run[s].dev, s) /\ Continue(s, Idle, {})
    <3>1. Waiting' = Waiting
      BY <1>2, <2>4 DEF Waiting, Continue
    <3>2. NoSave(writes) \/ Save(writes, devices, None)
      BY <2>4 DEF Leave
    <3> QED
      BY <1>1, <1>3, <2>1, <3>1, <3>2, QueueKept
  <2> QED
    BY <1>17, <2>2, <2>3, <2>4 DEF StreamEnds
<1>18. ASSUME NEW d \in Device, Revoke(d) PROVE QueueInv'
  <2>1. /\ HangUp({d}, None, Idle) /\ devices' = Without({d}) /\ Save(writes, Without({d}), d)
        /\ disk' = disk /\ revoked' = revoked
    BY <1>18 DEF Revoke
  <2>2. \A q \in Session : q \in Waiting' <=> q \in Waiting
    BY <1>1, <2>1, HangUpWaiting
  <2>3. Without({d})[d] = 0 /\ \A e \in revoked : Without({d})[e] = 0
    BY <1>1, <1>3 DEF Without
  <2>4. d \notin Session
    OBVIOUS
  <2> QED
    BY <1>1, <1>3, <2>1, <2>2, <2>3, <2>4, QueueGrows
<1>19. ASSUME WriteLands PROVE QueueInv'
  <2> DEFINE s == Head(writes).by
             queue == Tail(writes)
  <2>1. UNCHANGED devices /\ disk' = Head(writes).snap /\ writes # <<>>
    BY <1>19 DEF WriteLands
  <2>2. writes \in Seq(WriteRecord) /\ Stored(queue) /\ queue # writes
    BY <2>1, TailIsShorter
  <2>3. Head(writes) = writes[1] /\ 1 \in 1..Len(writes)
    BY <2>1, <2>2, TailIs
  <2>4. (\A d \in revoked : disk'[d] = 0) /\ (s \in Device => disk'[s] = 0)
    BY <2>1, <2>3 DEF QueueInv, Omits, OmitsOwn
  <2>5. CASE s \in Session /\ run[s].phase = "expiring" /\ Step(s, "admitting") /\ NoSave(queue) /\ UNCHANGED revoked
    <3>1. [run[s] EXCEPT !.phase = "admitting"].phase = "admitting"
      BY <1>1, <2>5 DEF Run
    <3>2. \A q \in Session : q \in Waiting' <=> q \in Waiting /\ s # q
      BY <2>5, <3>1 DEF Waiting, Step, Continue
    <3> QED
      BY <2>1, <2>2, <2>4, <2>5, <3>2, QueueKept
  <2>6. CASE s \in Session /\ run[s].phase = "saving" /\ Attach(queue, s) /\ UNCHANGED revoked
    BY <2>1, <2>2, <2>4, <2>6, QueueAttach
  <2>7. CASE /\ s \notin Session /\ NoSave(queue) /\ UNCHANGED run
             /\ revoked' = IF s \in Device /\ devices[s] = 0
                              /\ \A i \in 1..Len(queue) : queue[i].snap[s] = 0
                           THEN revoked \cup {s} ELSE revoked
    <3>1. \A q \in Session : q \in Waiting' <=> q \in Waiting /\ s # q
      BY <2>7 DEF Waiting
    <3>2. Omits(queue, revoked)
      BY <2>2, QueueLeft
    <3>3. Omits(queue, revoked') /\ \A d \in revoked' : devices[d] = 0 /\ disk'[d] = 0
      BY <1>3, <2>4, <2>7, <3>2 DEF Omits
    <3> QED
      BY <2>1, <2>2, <2>7, <3>1, <3>3, QueueShrinks
  <2> QED
    BY <1>19, <2>5, <2>6, <2>7 DEF WriteLands
<1>20. ASSUME WriteFails PROVE QueueInv'
  <2> DEFINE s == Head(writes).by
             queue == Tail(writes)
  <2>1. UNCHANGED <<devices, disk, revoked>> /\ writes # <<>> /\ Continue(s, Idle, {}) /\ NoSave(queue)
    BY <1>20 DEF WriteFails
  <2>2. Stored(queue) /\ queue # writes
    BY <2>1, TailIsShorter
  <2>3. \A q \in Session : q \in Waiting' <=> q \in Waiting /\ s # q
    BY <1>2, <2>1 DEF Waiting, Continue
  <2> QED
    BY <1>3, <2>1, <2>2, <2>3, QueueKept
<1>21. ASSUME Restart PROVE QueueInv'
  <2>1. Waiting' = {} /\ writes' = <<>> /\ UNCHANGED <<disk, revoked>> /\ devices' = disk
    BY <1>2, <1>21 DEF Restart, Waiting
  <2>2. \A s \in Session : WakersIn(<<>>, s) = {}
    BY DEF WakersIn
  <2>3. \A s \in Session : Awaited(writes, s)'
    BY <2>1, <2>2 DEF Awaited, WakersIn
  <2> QED
    BY <1>3, <2>1, <2>3 DEF QueueInv, EndsWith, OmitsOwn, Omits
<1>22. ASSUME NEW d \in Device, Rename(d), UNCHANGED <<peersVars, run, history>> PROVE QueueInv'
  <2>1. Waiting' = Waiting /\ Save(writes, devices, None) /\ UNCHANGED <<devices, disk, revoked>>
    BY <1>22 DEF Rename, history, Waiting
  <2> QED
    BY <1>1, <1>3, <2>1, QueueKept
<1>23. ASSUME NEW t \in Token, CreatePairing(t), UNCHANGED <<peersVars, run, history>> PROVE QueueInv'
  BY <1>4, <1>23 DEF CreatePairing, history, Waiting
<1>24. ASSUME ActivePairing \/ Tick, UNCHANGED <<peersVars, run, history>> PROVE QueueInv'
  BY <1>4, <1>24 DEF ActivePairing, Tick, history, Waiting
<1>25. ASSUME UNCHANGED <<registryVars, run, history>> PROVE QueueInv'
  BY <1>4, <1>25 DEF registryVars, history, Waiting
<1> QED
  BY <1>11, <1>12, <1>13, <1>14, <1>15, <1>16, <1>17, <1>18, <1>19, <1>20, <1>21, <1>22,
     <1>23, <1>24, <1>25 DEF Next, vars

-----------------------------------------------------------------------------
(* The codes.  One that has admitted a device, or was never handed out, is *)
(* not live; none has admitted more than one.                              *)
CodeInv ==
  \A t \in Token :
    /\ t \notin minted => pairings[t] = 0 /\ redeemed[t] = {}
    /\ pairings[t] # 0 => redeemed[t] = {}
    /\ redeemed[t] = {} \/ \E d \in Device : redeemed[t] = {d}

(* Nothing but createPairing makes a code live.                            *)
LEMMA CodesOnlyGo ==
  ASSUME CodeInv, UNCHANGED <<minted, redeemed>>,
         \A t \in Token : pairings'[t] = pairings[t] \/ pairings'[t] = 0
  PROVE  CodeInv'
BY DEF CodeInv

(* One step keeps a code from admitting a second device.                   *)
LEMMA CodeStep == CoreInv /\ CodeInv /\ [Next]_vars => CodeInv'
<1> SUFFICES ASSUME CoreInv, CodeInv, [Next]_vars PROVE CodeInv'
  OBVIOUS
<1>1. ASSUME UNCHANGED <<pairings, minted, redeemed>> PROVE CodeInv'
  BY <1>1, CodesOnlyGo
<1>2. ASSUME NEW t, Redeem(t), UNCHANGED <<minted, redeemed>> PROVE CodeInv'
  BY <1>2, CodesOnlyGo DEF Redeem
<1>11. ASSUME NEW s \in Session, Open(s) \/ Rejected(s) PROVE CodeInv'
  BY <1>1, <1>11 DEF Open, Rejected, registryVars, history
<1>12. ASSUME NEW s \in Session, NEW d \in Device, NEW t \in minted \cup {None}, Hello(s, d, t)
       PROVE  CodeInv'
  BY <1>1, <1>12 DEF Hello
<1>13. ASSUME NEW s \in Session, AdmitKnown(s) PROVE CodeInv'
  BY <1>1, <1>13 DEF AdmitKnown, history
<1>14. ASSUME NEW s \in Session, AdmitByCode(s) PROVE CodeInv'
  <2> DEFINE d == run[s].dev
             c == run[s].token
  <2>1. d \in Device /\ c \in Token /\ pairings[c] # 0
    <3>1. run[s] \in Run /\ run[s].phase = "admitting" /\ c # None /\ pairings[c] > run[s].now
      BY <1>14 DEF AdmitByCode, CodeWorks, CoreInv, CoreTypeOK
    <3>2. c \in Token /\ run[s].now \in Nat
      BY <3>1 DEF Run, Start
    <3> QED
      BY <3>1, <3>2 DEF CoreInv, Proved, Authorizing, CoreTypeOK, RegistryTypeOK
  <2>2. /\ pairings' = [u \in Token |-> IF u = c THEN 0 ELSE pairings[u]]
        /\ redeemed' = [redeemed EXCEPT ![c] = @ \cup {d}] /\ minted' = minted
    BY <1>14 DEF AdmitByCode, Redeem
  <2>3. redeemed[c] = {} /\ c \in minted
    BY <2>1 DEF CodeInv
  <2>4. \A u \in Token : redeemed'[u] = IF u = c THEN {d} ELSE redeemed[u]
    <3>1. redeemed \in [Token -> SUBSET Device] /\ redeemed[c] \cup {d} = {d}
      BY <2>3 DEF CoreInv, CoreTypeOK
    <3> QED
      BY <2>1, <2>2, <3>1
  <2> HIDE DEF d, c
  <2> QED
    BY <2>1, <2>2, <2>3, <2>4 DEF CodeInv
<1>15. ASSUME NEW s \in Session, TurnAway(s) PROVE CodeInv'
  BY <1>2, <1>15 DEF TurnAway, history
<1>16. ASSUME NEW s \in Session, StreamEnds(s) PROVE CodeInv'
  BY <1>1, <1>16 DEF StreamEnds
<1>17. ASSUME NEW d \in Device, Revoke(d) PROVE CodeInv'
  BY <1>1, <1>17 DEF Revoke
<1>18. ASSUME WriteLands \/ WriteFails PROVE CodeInv'
  BY <1>1, <1>18 DEF WriteLands, WriteFails
<1>19. ASSUME Restart PROVE CodeInv'
  BY <1>19, CodesOnlyGo DEF Restart
<1>20. ASSUME NEW d \in Device, Rename(d), UNCHANGED <<peersVars, run, history>> PROVE CodeInv'
  BY <1>1, <1>20 DEF Rename, history
<1>21. ASSUME NEW t \in Token, CreatePairing(t), UNCHANGED <<peersVars, run, history>> PROVE CodeInv'
  <2>1. /\ t \notin minted /\ minted' = minted \cup {t} /\ redeemed' = redeemed
        /\ \A u \in Token \ {t} : pairings'[u] = 0
    BY <1>21 DEF CreatePairing, history
  <2> QED
    BY <2>1 DEF CodeInv
<1>22. ASSUME ActivePairing, UNCHANGED <<peersVars, run, history>> PROVE CodeInv'
  BY <1>22, CodesOnlyGo DEF ActivePairing, history
<1>23. ASSUME Tick, UNCHANGED <<peersVars, run, history>> PROVE CodeInv'
  BY <1>1, <1>23 DEF Tick, history
<1>24. ASSUME UNCHANGED <<registryVars, run, history>> PROVE CodeInv'
  BY <1>1, <1>24 DEF registryVars, history
<1> QED
  BY <1>11, <1>12, <1>13, <1>14, <1>15, <1>16, <1>17, <1>18, <1>19, <1>20, <1>21, <1>22,
     <1>23, <1>24 DEF Next, vars

-----------------------------------------------------------------------------
(* The Peers.  Counts are leases, leases belong to connections, a Peer     *)
(* lives while it is held, and an entry is a held Peer of its own device.  *)
PeersInv ==
  /\ PeersTypeOK /\ CountIsLeases /\ PeerIsOfDevice /\ PeerLivesWhileHeld
  /\ \A p \in alive : device[p] \in Device /\ entry[device[p]] = p
  /\ \A d \in Device : entry[d] # None => HeldBy(entry[d], Session) # {} /\ device[entry[d]] = d

(* The Peers whose last leases are those of the connections in C.          *)
LastOf(C) == {p \in Peer : HeldBy(p, C) # {} /\ HeldBy(p, Session) \subseteq C}

(* The connections that hold a Peer are finitely many.                     *)
LEMMA LeasesAreFinite ==
  ASSUME NEW p, NEW C \in SUBSET Session
  PROVE  /\ HeldBy(p, C) = HeldBy(p, Session) \cap C /\ IsFiniteSet(HeldBy(p, C))
         /\ Cardinality(HeldBy(p, C)) \in 0..Cardinality(Session)
         /\ Cardinality(HeldBy(p, C)) = 0 <=> HeldBy(p, C) = {}
<1>1. HeldBy(p, C) \in SUBSET Session /\ HeldBy(p, C) = HeldBy(p, Session) \cap C
  BY DEF HeldBy
<1>2. IsFiniteSet(HeldBy(p, C)) /\ Cardinality(HeldBy(p, C)) <= Cardinality(Session)
  BY <1>1, FS_Subset
<1>3. Cardinality(HeldBy(p, C)) \in Nat /\ Cardinality(Session) \in Nat
  BY <1>2, FS_CardinalityType
<1> QED
  BY <1>1, <1>2, <1>3, FS_EmptySet

(* What giving back the leases of C leaves of a Peer's count.              *)
LEMMA CountLeft ==
  ASSUME CountIsLeases, NEW C \in SUBSET Session, NEW p \in Peer
  PROVE  /\ holders[p] - Cardinality(HeldBy(p, C)) = Cardinality(HeldBy(p, Session) \ C)
         /\ holders[p] = Cardinality(HeldBy(p, C)) <=> HeldBy(p, Session) \subseteq C
<1> DEFINE all  == HeldBy(p, Session)
           gone == HeldBy(p, C)
           left == all \ C
<1>1. IsFiniteSet(all) /\ gone = all \cap C /\ holders[p] = Cardinality(all)
  BY LeasesAreFinite DEF CountIsLeases
<1>2. left \in SUBSET all /\ left = all \ gone /\ all \cap gone = gone
  BY <1>1
<1>3. IsFiniteSet(left) /\ (Cardinality(left) = 0 <=> left = {})
  BY <1>1, <1>2, FS_Subset, FS_EmptySet
<1>4. IsFiniteSet(gone) /\ Cardinality(gone) \in Nat /\ Cardinality(all) \in Nat
  BY <1>1, LeasesAreFinite, FS_CardinalityType
<1>5. Cardinality(left) = Cardinality(all) - Cardinality(gone)
  <2> HIDE DEF all, gone, left
  <2> QED
    BY <1>1, <1>2, <1>4, FS_Difference
<1>6. left = {} <=> all \subseteq C
  BY <1>2
<1> QED
  BY <1>1, <1>3, <1>4, <1>5, <1>6

(* What ReleaseAll does to the count of each Peer.                         *)
LEMMA ReleaseIs ==
  ASSUME CountIsLeases, NEW C \in SUBSET Session, ReleaseAll(C)
  PROVE  /\ lease'   = [c \in Session |-> IF c \in C THEN None ELSE lease[c]]
         /\ entry'   = [d \in Device |-> IF entry[d] \in LastOf(C) THEN None ELSE entry[d]]
         /\ device'  = [p \in Peer |-> IF p \in LastOf(C) THEN None ELSE device[p]]
         /\ alive'   = alive \ LastOf(C)
         /\ pulled'  = pulled \ LastOf(C)
         /\ holders' = [p \in Peer |-> Cardinality(HeldBy(p, Session) \ C)]
<1>1. {p \in Peer : HeldBy(p, C) # {} /\ holders[p] = Cardinality(HeldBy(p, C))} = LastOf(C)
  BY CountLeft DEF LastOf
<1>2. holders' = [p \in Peer |-> holders[p] - Cardinality(HeldBy(p, C))]
  BY DEF ReleaseAll
<1>3. holders' = [p \in Peer |-> Cardinality(HeldBy(p, Session) \ C)]
  BY <1>2, CountLeft
<1> QED
  BY <1>1, <1>3 DEF ReleaseAll

(* The leases of C are given back as their connections end.                *)
LEMMA PeersReleased ==
  ASSUME PeersInv, NEW C \in SUBSET Session, ReleaseAll(C), Connected' = Connected \ C,
         \A c \in Connected' : run'[c].dev = run[c].dev
  PROVE  PeersInv'
<1>1. /\ lease'   = [c \in Session |-> IF c \in C THEN None ELSE lease[c]]
      /\ entry'   = [d \in Device |-> IF entry[d] \in LastOf(C) THEN None ELSE entry[d]]
      /\ device'  = [p \in Peer |-> IF p \in LastOf(C) THEN None ELSE device[p]]
      /\ alive'   = alive \ LastOf(C) /\ pulled' = pulled \ LastOf(C)
      /\ holders' = [p \in Peer |-> Cardinality(HeldBy(p, Session) \ C)]
  BY ReleaseIs DEF PeersInv
<1>2. \A p \in Peer : HeldBy(p, Session)' = HeldBy(p, Session) \ C
  BY <1>1 DEF HeldBy
<1>3. \A p \in Peer : HeldBy(p, Session)' = {} <=> HeldBy(p, Session) = {} \/ p \in LastOf(C)
  BY <1>2 DEF LastOf, HeldBy
<1>4. CountIsLeases'
  BY <1>1, <1>2 DEF CountIsLeases
<1>5. PeersTypeOK'
  <2>1. \A p \in Peer : holders'[p] \in 0..Cardinality(Session)
    <3>1. \A p \in Peer : HeldBy(p, Session) \ C = HeldBy(p, Session \ C)
      BY DEF HeldBy
    <3> QED
      BY <1>1, <3>1, LeasesAreFinite
  <2>2. holders' \in [Peer -> 0..Cardinality(Session)]
    BY <1>1, <2>1
  <2>3. /\ entry' \in [Device -> Peer \cup {None}] /\ device' \in [Peer -> Device \cup {None}]
        /\ lease' \in [Session -> Peer \cup {None}] /\ alive' \subseteq Peer /\ pulled' \subseteq Peer
    BY <1>1 DEF PeersInv, PeersTypeOK
  <2> QED
    BY <2>2, <2>3 DEF PeersTypeOK
<1>6. PeerIsOfDevice'
  <2>1. \A c \in Session : c \notin Connected' => lease'[c] = None
    BY <1>1 DEF PeersInv, PeerIsOfDevice
  <2>2. ASSUME NEW c \in Session, c \in Connected' PROVE lease'[c] # None /\ device'[lease'[c]] = run'[c].dev
    <3>1. c \in Connected /\ c \notin C /\ lease'[c] = lease[c] /\ run'[c].dev = run[c].dev
      BY <1>1, <2>2
    <3>2. lease[c] # None /\ device[lease[c]] = run[c].dev /\ lease[c] \in Peer
      BY <3>1 DEF PeersInv, PeerIsOfDevice, PeersTypeOK
    <3>3. lease[c] \notin LastOf(C)
      BY <3>1 DEF LastOf, HeldBy
    <3> QED
      BY <1>1, <3>1, <3>2, <3>3
  <2> QED
    BY <2>1, <2>2 DEF PeerIsOfDevice
<1>7. PeerLivesWhileHeld'
  <2>1. \A p \in Peer : (\E c \in Session : lease'[c] = p) <=> HeldBy(p, Session)' # {}
    BY DEF HeldBy
  <2>2. \A p \in Peer : (\E c \in Session : lease[c] = p) <=> HeldBy(p, Session) # {}
    BY DEF HeldBy
  <2> QED
    BY <1>1, <1>3, <2>1, <2>2 DEF PeersInv, PeerLivesWhileHeld
<1>8. \A p \in alive' : device'[p] \in Device /\ entry'[device'[p]] = p
  BY <1>1 DEF PeersInv, PeersTypeOK
<1>9. ASSUME NEW d \in Device, entry'[d] # None
      PROVE  (HeldBy(entry[d], Session) # {})' /\ device'[entry'[d]] = d
  <2>1. entry'[d] = entry[d] /\ entry[d] \notin LastOf(C) /\ entry[d] \in Peer
    BY <1>1, <1>9 DEF PeersInv, PeersTypeOK
  <2>2. HeldBy(entry[d], Session) # {} /\ device[entry[d]] = d
    BY <1>9, <2>1 DEF PeersInv
  <2>3. device'[entry[d]] = d
    BY <1>1, <2>1, <2>2
  <2>4. \E c \in Session : lease'[c] = entry[d]
    BY <1>1, <2>1, <2>2 DEF LastOf, HeldBy
  <2> QED
    BY <2>1, <2>3, <2>4 DEF HeldBy
<1> QED
  BY <1>4, <1>5, <1>6, <1>7, <1>8, <1>9 DEF PeersInv

(* A new connection shares its device's Peer, or gets a new one.           *)
LEMMA PeersAcquired ==
  ASSUME PeersInv, NEW s \in Session \ Connected, NEW d \in Device, Acquire(s, d),
         Connected' = Connected \cup {s}, run'[s].dev = d,
         \A c \in Connected : run'[c].dev = run[c].dev
  PROVE  PeersInv'
<1>1. PICK p \in Peer :
        /\ IF entry[d] \in alive
           THEN p = entry[d] /\ UNCHANGED <<entry, device, alive, pulled>>
           ELSE p \in Spare /\ CreatePeer(d, p)
        /\ holders' = [holders EXCEPT ![p] = @ + 1]
        /\ lease'   = [lease EXCEPT ![s] = p]
  BY DEF Acquire
<1>2. lease[s] = None /\ lease \in [Session -> Peer \cup {None}] /\ s \in Session
  BY DEF PeersInv, PeerIsOfDevice, PeersTypeOK
<1>3. \A c \in Session : lease'[c] = IF c = s THEN p ELSE lease[c]
  BY <1>1, <1>2
<1>4. \A q \in Peer : HeldBy(q, Session)' = IF q = p THEN HeldBy(q, Session) \cup {s} ELSE HeldBy(q, Session)
  BY <1>2, <1>3 DEF HeldBy
<1>5. /\ entry' \in [Device -> Peer \cup {None}] /\ device' \in [Peer -> Device \cup {None}]
      /\ lease' \in [Session -> Peer \cup {None}] /\ alive' \subseteq Peer /\ pulled' \subseteq Peer
      /\ p \in alive' /\ entry'[d] = p /\ device'[p] = d
  <2>1. /\ entry \in [Device -> Peer \cup {None}] /\ device \in [Peer -> Device \cup {None}]
        /\ alive \subseteq Peer /\ pulled \subseteq Peer
    BY DEF PeersInv, PeersTypeOK
  <2>2. lease' \in [Session -> Peer \cup {None}]
    BY <1>1, <1>2
  <2>3. CASE entry[d] \in alive
    BY <1>1, <2>1, <2>2, <2>3 DEF PeersInv
  <2>4. CASE entry[d] \notin alive
    BY <1>1, <2>1, <2>2, <2>4 DEF CreatePeer
  <2> QED
    BY <2>3, <2>4
<1>6. \A q \in Peer \ {p} : device'[q] = device[q] /\ (q \in alive' <=> q \in alive) /\ (q \in pulled' <=> q \in pulled)
  BY <1>1 DEF CreatePeer, PeersInv, PeersTypeOK
<1>7. \A e \in Device \ {d} : entry'[e] = entry[e]
  BY <1>1 DEF CreatePeer, PeersInv, PeersTypeOK
<1>8. entry[d] \notin alive => p \notin alive /\ HeldBy(p, Session) = {}
  <2>1. holders[p] = Cardinality(HeldBy(p, Session))
    BY DEF PeersInv, CountIsLeases
  <2>2. Cardinality(HeldBy(p, Session)) = 0 <=> HeldBy(p, Session) = {}
    BY LeasesAreFinite
  <2> QED
    BY <1>1, <2>1, <2>2 DEF Spare
<1>9. CountIsLeases' /\ holders' \in [Peer -> 0..Cardinality(Session)]
  <2>1. Cardinality(HeldBy(p, Session) \cup {s}) = holders[p] + 1
    <3>1. s \notin HeldBy(p, Session) /\ holders[p] = Cardinality(HeldBy(p, Session))
      BY <1>2 DEF HeldBy, PeersInv, CountIsLeases
    <3>2. IsFiniteSet(HeldBy(p, Session))
      BY LeasesAreFinite
    <3>3. Cardinality(HeldBy(p, Session) \cup {s}) = Cardinality(HeldBy(p, Session)) + 1
      BY <3>1, <3>2, FS_AddElement
    <3> QED
      BY <3>1, <3>3, Zenon
  <2>2. \A q \in Peer : holders'[q] = IF q = p THEN holders[q] + 1 ELSE holders[q]
    BY <1>1 DEF PeersInv, PeersTypeOK
  <2>3. CountIsLeases'
    <3>1. ASSUME NEW q \in Peer PROVE holders'[q] = Cardinality(HeldBy(q, Session)')
      <4>1. CASE q = p
        BY <1>4, <2>1, <2>2, <4>1
      <4>2. CASE q # p
        BY <1>4, <2>2, <4>2 DEF PeersInv, CountIsLeases
      <4> QED
        BY <4>1, <4>2
    <3> QED
      BY <3>1 DEF CountIsLeases
  <2>4. \A q \in Peer : HeldBy(q, Session)' \in SUBSET Session
    BY DEF HeldBy
  <2>5. \A q \in Peer : Cardinality(HeldBy(q, Session)') \in 0..Cardinality(Session)
    <3>1. ASSUME NEW T \in SUBSET Session PROVE Cardinality(T) \in 0..Cardinality(Session)
      BY FS_Subset, FS_CardinalityType
    <3> QED
      BY <2>4, <3>1
  <2>6. \A q \in Peer : holders'[q] \in 0..Cardinality(Session)
    BY <2>3, <2>5 DEF CountIsLeases
  <2>7. holders' = [q \in Peer |-> holders'[q]]
    BY <1>1 DEF PeersInv, PeersTypeOK
  <2> QED
    BY <2>3, <2>6, <2>7
<1>10. PeerIsOfDevice'
  <2>1. ASSUME NEW c \in Connected PROVE lease[c] \in Peer /\ device[lease[c]] = run[c].dev /\ c \in Session
    BY DEF PeersInv, PeerIsOfDevice, PeersTypeOK, Connected, InPhase
  <2>2. ASSUME NEW c \in Connected PROVE device'[lease[c]] = device[lease[c]]
    <3>1. CASE entry[d] \in alive
      BY <1>1, <3>1
    <3>2. CASE entry[d] \notin alive
      <4>1. c \in HeldBy(lease[c], Session)
        BY <2>1 DEF HeldBy
      <4>2. lease[c] # p
        BY <1>8, <3>2, <4>1
      <4> QED
        BY <1>6, <2>1, <4>2
    <3> QED
      BY <3>1, <3>2
  <2>3. ASSUME NEW c \in Connected PROVE lease'[c] # None /\ device'[lease'[c]] = run'[c].dev
    <3>1. c # s /\ c \in Session /\ lease[c] # None /\ device[lease[c]] = run[c].dev /\ run'[c].dev = run[c].dev
      BY <2>1
    <3>2. lease'[c] = lease[c]
      BY <1>3, <3>1
    <3> QED
      BY <2>2, <3>1, <3>2
  <2>4. lease'[s] # None /\ device'[lease'[s]] = run'[s].dev
    BY <1>2, <1>3, <1>5
  <2>5. \A c \in Session : c \notin Connected' => lease'[c] = None
    BY <1>3 DEF PeersInv, PeerIsOfDevice
  <2> QED
    BY <2>3, <2>4, <2>5 DEF PeerIsOfDevice
<1>11. PeerLivesWhileHeld'
  <2>1. \A q \in Peer \ {p} : (\E c \in Session : lease'[c] = q) <=> \E c \in Session : lease[c] = q
    BY <1>2, <1>3
  <2>2. \E c \in Session : lease'[c] = p
    BY <1>2, <1>3
  <2> QED
    BY <1>5, <1>6, <2>1, <2>2 DEF PeersInv, PeerLivesWhileHeld
<1>12. ASSUME NEW q \in alive' PROVE device'[q] \in Device /\ entry'[device'[q]] = q
  <2>1. CASE q = p
    BY <1>5, <2>1
  <2>2. CASE q # p
    <3>1. q \in alive /\ device'[q] = device[q] /\ device[q] \in Device /\ entry[device[q]] = q
      BY <1>5, <1>6, <2>2 DEF PeersInv
    <3>2. device[q] # d
      BY <1>1, <2>2, <3>1
    <3> QED
      BY <1>7, <3>1, <3>2
  <2> QED
    BY <2>1, <2>2
<1>13. ASSUME NEW e \in Device, entry'[e] # None
       PROVE  (HeldBy(entry[e], Session) # {})' /\ device'[entry'[e]] = e
  <2>1. CASE e = d
    <3>1. \E c \in Session : lease'[c] = p
      BY <1>2, <1>3
    <3> QED
      BY <1>5, <2>1, <3>1 DEF HeldBy
  <2>2. CASE e # d
    <3>1. entry'[e] = entry[e] /\ HeldBy(entry[e], Session) # {} /\ device[entry[e]] = e /\ entry[e] \in Peer
      BY <1>7, <1>13, <2>2 DEF PeersInv, PeersTypeOK
    <3>2. entry[e] # p
      <4>1. CASE entry[d] \in alive
        BY <1>1, <2>2, <3>1, <4>1 DEF PeersInv
      <4>2. CASE entry[d] \notin alive
        BY <1>8, <3>1, <4>2
      <4> QED
        BY <4>1, <4>2
    <3>3. \E c \in Session : lease'[c] = entry[e]
      BY <1>2, <1>3, <3>1 DEF HeldBy
    <3>4. device'[entry[e]] = e
      BY <1>6, <3>1, <3>2
    <3> QED
      BY <3>1, <3>3, <3>4 DEF HeldBy
  <2> QED
    BY <2>1, <2>2
<1> QED
  BY <1>5, <1>9, <1>10, <1>11, <1>12, <1>13 DEF PeersInv, PeersTypeOK

(* No lease and no connection changes; dead entries may go, a Peer may be  *)
(* pulled away.                                                            *)
LEMMA PeersKept ==
  ASSUME PeersInv, UNCHANGED <<device, holders, lease>>, Connected' = Connected,
         \A c \in Connected : run'[c].dev = run[c].dev,
         entry' \in [Device -> Peer \cup {None}],
         \A d \in Device : entry'[d] = entry[d] \/ (entry'[d] = None /\ entry[d] \notin alive),
         alive' \subseteq alive, pulled' \subseteq Peer, alive' \cup pulled' = alive \cup pulled
  PROVE  PeersInv'
<1>1. \A p : HeldBy(p, Session)' = HeldBy(p, Session)
  BY DEF HeldBy
<1>2. PeersTypeOK'
  BY DEF PeersInv, PeersTypeOK
<1>3. CountIsLeases'
  <2>1. ASSUME NEW p \in Peer PROVE holders'[p] = Cardinality(HeldBy(p, Session)')
    BY <1>1 DEF PeersInv, CountIsLeases
  <2> QED
    BY <2>1 DEF CountIsLeases
<1>4. PeerIsOfDevice' /\ PeerLivesWhileHeld'
  BY DEF PeersInv, PeerIsOfDevice, PeerLivesWhileHeld
<1>5. \A p \in alive' : device'[p] \in Device /\ entry'[device'[p]] = p
  BY DEF PeersInv
<1>6. ASSUME NEW d \in Device, entry'[d] # None
      PROVE  (HeldBy(entry[d], Session) # {})' /\ device'[entry'[d]] = d
  <2>1. entry'[d] = entry[d] /\ HeldBy(entry[d], Session) # {} /\ device[entry[d]] = d
    BY <1>6 DEF PeersInv
  <2>2. \E c \in Session : lease'[c] = entry'[d]
    BY <2>1 DEF HeldBy
  <2> QED
    BY <2>1, <2>2 DEF HeldBy
<1> QED
  BY <1>2, <1>3, <1>4, <1>5, <1>6 DEF PeersInv

(* Attaching a connection keeps the books of the Peers.                    *)
LEMMA PeersAttach ==
  ASSUME CoreInv, PresenceIsTrue, PeersInv, NEW queue, NEW s \in Session, Attach(queue, s),
         run[s].phase \in {"admitting", "saving"}
  PROVE  PeersInv'
<1>1. run[s].gone \in BOOLEAN /\ run[s].dev \in Device /\ s \notin Connected
  <2>1. run[s] \in Run
    BY DEF CoreInv, CoreTypeOK
  <2>2. run[s].dev \in Device
    BY DEF CoreInv, Proved, Authorizing
  <2> QED
    BY <2>1, <2>2 DEF Run, Connected, InPhase
<1>2. CASE run[s].gone
  <2>1. Connected' = Connected /\ SameRuns(Session \ {s})
    BY <1>2, AttachGone
  <2>2. \A c \in Connected : run'[c].dev = run[c].dev
    BY <1>1, <2>1 DEF SameRuns, Connected, InPhase
  <2>3. /\ entry' = [d \in Device |-> IF d = run[s].dev /\ entry[d] \notin alive THEN None ELSE entry[d]]
        /\ UNCHANGED <<device, holders, alive, lease, pulled>>
    BY <1>2 DEF Attach
  <2>4. /\ entry' \in [Device -> Peer \cup {None}] /\ pulled \subseteq Peer
        /\ \A d \in Device : entry'[d] = entry[d] \/ (entry'[d] = None /\ entry[d] \notin alive)
    BY <2>3 DEF PeersInv, PeersTypeOK
  <2> QED
    BY <2>1, <2>2, <2>3, <2>4, PeersKept
<1>3. CASE ~run[s].gone
  <2>1. /\ Connected' = Connected \cup {s} /\ Acquire(s, run[s].dev)
        /\ SameRuns(Session \ {s}) /\ run'[s] = [run[s] EXCEPT !.phase = "connected"]
    BY <1>3, AttachConnects
  <2>2. run'[s].dev = run[s].dev
    BY <2>1 DEF CoreInv, CoreTypeOK, Run
  <2>3. \A c \in Connected : run'[c].dev = run[c].dev
    BY <1>1, <2>1 DEF SameRuns, Connected, InPhase
  <2> QED
    BY <1>1, <2>1, <2>2, <2>3, PeersAcquired
<1> QED
  BY <1>1, <1>2, <1>3

(* Hanging up on devices gives back what their connections held.           *)
LEMMA PeersHangUp ==
  ASSUME CoreInv, PresenceIsTrue, PeersInv, NEW D \in SUBSET Device, NEW s, NEW r, HangUp(D, s, r),
         r.phase # "connected", s \in Session => run[s].phase # "connected"
  PROVE  PeersInv'
<1>1. Connected' = Connected \ ConnectionsOf(D) /\ ConnectionsOf(D) = {q \in Connected : run[q].dev \in D}
  BY HangUpConnections, Zenon
<1>2. \A q \in Session :
        run'[q] = IF q \in ConnectionsOf(D) THEN Idle ELSE IF q = s THEN r ELSE run[q]
  BY DEF HangUp, Continue
<1>3. ConnectionsOf(D) \in SUBSET Session /\ \A c \in Connected' : run'[c].dev = run[c].dev
  BY <1>1, <1>2 DEF Connected, InPhase
<1>4. ReleaseAll(ConnectionsOf(D))
  BY DEF HangUp
<1> QED
  BY <1>1, <1>3, <1>4, PeersReleased

(* One step keeps the books of the Peers.                                  *)
LEMMA PeersStep == CoreInv /\ ListInv /\ QueueInv /\ PeersInv /\ [Next]_vars => PeersInv'
<1> SUFFICES ASSUME CoreInv, ListInv, QueueInv, PeersInv, [Next]_vars PROVE PeersInv'
  OBVIOUS
<1>1. /\ PresenceIsTrue /\ \A s \in Session : run[s] \in Run
      /\ entry \in [Device -> Peer \cup {None}] /\ alive \subseteq Peer /\ pulled \subseteq Peer
  BY DEF ListInv, CoreInv, CoreTypeOK, PeersInv, PeersTypeOK
<1>2. Idle.phase = "idle"
  BY DEF Idle
<1>3. ASSUME UNCHANGED peersVars, UNCHANGED run PROVE PeersInv'
  <2>1. Connected' = Connected
    BY <1>3 DEF Connected, InPhase
  <2> QED
    BY <1>1, <1>3, <2>1, PeersKept DEF peersVars
<1>4. ASSUME UNCHANGED peersVars, NEW s, NEW r, Continue(s, r, {}), r.phase # "connected",
             s \in Session => run[s].phase # "connected"
      PROVE  PeersInv'
  <2>1. Connected' = Connected /\ SameRuns(Session \ {s})
    BY <1>4, ContinueKeeps
  <2>2. \A c \in Connected : run'[c].dev = run[c].dev
    BY <1>4, <2>1 DEF SameRuns, Connected, InPhase
  <2> QED
    BY <1>1, <1>4, <2>1, <2>2, PeersKept DEF peersVars
<1>5. ASSUME UNCHANGED peersVars, NEW s \in Session, NEW ph \in Phase \ {"connected"}, Step(s, ph),
             run[s].phase # "connected"
      PROVE  PeersInv'
  <2>1. [run[s] EXCEPT !.phase = ph].phase # "connected"
    BY <1>1 DEF Run
  <2> QED
    BY <1>4, <1>5, <2>1 DEF Step
<1>11. ASSUME NEW s \in Session, Open(s) PROVE PeersInv'
  BY <1>5, <1>11 DEF Open, Phase, Authorizing
<1>12. ASSUME NEW s \in Session, Rejected(s) PROVE PeersInv'
  BY <1>2, <1>4, <1>12 DEF Rejected
<1>13. ASSUME NEW s \in Session, NEW d \in Device, NEW t \in minted \cup {None}, Hello(s, d, t)
       PROVE  PeersInv'
  <2> DEFINE due == Expired(clock)
             r == [phase |-> IF due = {} THEN "admitting" ELSE "expiring",
                   dev |-> d, token |-> t, now |-> clock, gone |-> FALSE]
  <2>1. HangUp(due, s, r) /\ run[s].phase = "greeting" /\ r.phase # "connected" /\ due \in SUBSET Device
    BY <1>13 DEF Hello, Expired
  <2> HIDE DEF due, r
  <2> QED
    BY <1>1, <2>1, PeersHangUp
<1>14. ASSUME NEW s \in Session, AdmitKnown(s) PROVE PeersInv'
  <2>1. run[s].phase = "admitting"
    BY <1>14 DEF AdmitKnown
  <2>2. CASE Attach(writes, s)
    BY <1>1, <2>1, <2>2, PeersAttach
  <2>3. CASE Step(s, "saving") /\ UNCHANGED peersVars
    BY <1>5, <2>1, <2>3 DEF Phase, Authorizing
  <2> QED
    BY <1>14, <2>2, <2>3 DEF AdmitKnown
<1>15. ASSUME NEW s \in Session, AdmitByCode(s) PROVE PeersInv'
  <2> DEFINE d == run[s].dev
             r == [run[s] EXCEPT !.phase = "saving"]
  <2>1. d \in Device /\ run[s].phase = "admitting" /\ r.phase = "saving" /\ HangUp({d}, s, r)
    BY <1>1, <1>15 DEF AdmitByCode, CoreInv, Proved, Authorizing, Run
  <2> HIDE DEF d, r
  <2> QED
    BY <1>1, <2>1, PeersHangUp
<1>16. ASSUME NEW s \in Session, TurnAway(s) PROVE PeersInv'
  BY <1>2, <1>4, <1>16 DEF TurnAway
<1>17. ASSUME NEW s \in Session, StreamEnds(s) PROVE PeersInv'
  <2>1. CASE run[s].phase = "greeting" /\ Continue(s, Idle, {}) /\ UNCHANGED <<live, lastWrite, writes, peersVars>>
    BY <1>2, <1>4, <2>1
  <2>2. CASE /\ run[s].phase \in Authorizing /\ Continue(s, [run[s] EXCEPT !.gone = TRUE], {})
             /\ UNCHANGED <<live, lastWrite, writes, peersVars>>
    <3>1. [run[s] EXCEPT !.gone = TRUE].phase = run[s].phase
      BY <1>1 DEF Run
    <3> QED
      BY <1>4, <2>2, <3>1 DEF Authorizing
  <2>3. CASE run[s].phase = "connected" /\ Leave(writes, run[s].dev, s) /\ ReleaseAll({s}) /\ Continue(s, Idle, {})
    <3>1. Connected' = Connected \ {s} /\ SameRuns(Session \ {s})
      BY <1>1, <2>3, LeaveDisconnects DEF Connected, InPhase
    <3>2. \A c \in Connected' : run'[c].dev = run[c].dev
      BY <3>1 DEF SameRuns, Connected, InPhase
    <3> QED
      BY <2>3, <3>1, <3>2, PeersReleased
  <2> QED
    BY <1>17, <2>1, <2>2, <2>3 DEF StreamEnds
<1>18. ASSUME NEW d \in Device, Revoke(d) PROVE PeersInv'
  BY <1>1, <1>2, <1>18, PeersHangUp DEF Revoke
<1>19. ASSUME WriteLands PROVE PeersInv'
  <2> DEFINE s == Head(writes).by
  <2>1. CASE s \in Session /\ run[s].phase = "expiring" /\ Step(s, "admitting") /\ UNCHANGED peersVars
    BY <1>5, <2>1 DEF Phase, Authorizing
  <2>2. CASE s \in Session /\ run[s].phase = "saving" /\ Attach(Tail(writes), s)
    BY <1>1, <2>2, PeersAttach
  <2>3. CASE UNCHANGED <<live, peersVars, run>>
    BY <1>3, <2>3
  <2> QED
    BY <1>19, <2>1, <2>2, <2>3 DEF WriteLands
<1>20. ASSUME WriteFails PROVE PeersInv'
  <2>1. Continue(Head(writes).by, Idle, {}) /\ UNCHANGED peersVars /\ writes # <<>>
    BY <1>20 DEF WriteFails
  <2>2. Head(writes).by \in Session => run[Head(writes).by].phase # "connected"
    BY <2>1, HeadIsAwaited DEF Waiting
  <2> QED
    BY <1>2, <1>4, <2>1, <2>2
<1>21. ASSUME Restart PROVE PeersInv'
  <2>1. Connected' = {} /\ Connected \ Session = {}
    BY <1>2, <1>21 DEF Restart, Connected, InPhase
  <2> QED
    BY <1>21, <2>1, PeersReleased DEF Restart
<1>22. ASSUME UNCHANGED <<peersVars, run, history>> PROVE PeersInv'
  BY <1>3, <1>22
<1>23. ASSUME NEW p \in Peer, HarnessDisposes(p), UNCHANGED <<registryVars, run, history>> PROVE PeersInv'
  <2>1. Connected' = Connected
    BY <1>23 DEF Connected, InPhase
  <2> QED
    BY <1>1, <1>23, <2>1, PeersKept DEF HarnessDisposes
<1>24. ASSUME UNCHANGED vars PROVE PeersInv'
  BY <1>3, <1>24 DEF vars
<1> QED
  BY <1>11, <1>12, <1>13, <1>14, <1>15, <1>16, <1>17, <1>18, <1>19, <1>20, <1>21, <1>22,
     <1>23, <1>24 DEF Next

-----------------------------------------------------------------------------
(* The whole invariant, and what the runs check of it.                     *)
Inv == CoreInv /\ ListInv /\ QueueInv /\ CodeInv /\ PeersInv

(* What an earlier life left in the store is where every layer starts.     *)
LEMMA InitInv == Init => Inv
<1> SUFFICES ASSUME Init PROVE Inv
  OBVIOUS
<1>1. CoreInv
  BY CoreInit
<1>2. /\ \A s \in Session : run[s].phase = "idle" /\ lease[s] = None
      /\ Connected = {} /\ Committed = {} /\ Waiting = {}
      /\ writes = <<>> /\ overtaken = {} /\ revoked = {}
      /\ \A t \in Token : pairings[t] = 0 /\ redeemed[t] = {}
      /\ \A d \in Device : live[d] = {} /\ entry[d] = None
      /\ \A p \in Peer : holders[p] = 0
      /\ alive = {} /\ pulled = {}
  BY DEF Init, RegistryInit, PeersInit, Idle, Connected, InPhase, Committed, Waiting
<1>3. ListInv
  BY <1>2 DEF ListInv, PresenceIsTrue
<1>4. QueueInv
  BY <1>2 DEF QueueInv, Awaited, WakersIn, EndsWith, OmitsOwn, Omits
<1>5. CodeInv
  BY <1>2 DEF CodeInv
<1>6. PeersInv
  <2>1. \A p \in Peer : HeldBy(p, Session) = {}
    BY <1>2 DEF HeldBy
  <2>2. CountIsLeases
    BY <1>2, <2>1, FS_EmptySet DEF CountIsLeases
  <2>3. 0 \in 0..Cardinality(Session)
    BY FS_CardinalityType
  <2>4. PeersTypeOK
    BY <2>3 DEF Init, PeersInit, PeersTypeOK
  <2>5. PeerIsOfDevice
    BY <1>2 DEF PeerIsOfDevice
  <2>6. PeerLivesWhileHeld
    BY <1>2 DEF PeerLivesWhileHeld
  <2> QED
    BY <1>2, <2>2, <2>4, <2>5, <2>6 DEF PeersInv
<1> QED
  BY <1>1, <1>3, <1>4, <1>5, <1>6 DEF Inv

(* Every state of every behaviour satisfies all five layers.               *)
THEOREM Invariance == Spec => []Inv
<1>1. Inv /\ [Next]_vars => Inv'
  BY CoreStep, ListStep, QueueStep, CodeStep, PeersStep DEF Inv
<1> QED
  BY <1>1, InitInv, PTL DEF Spec

(* The books of the registry and of the Peers balance in every state.      *)
THEOREM Books == Spec => []BooksBalance
<1>1. Inv => BooksBalance
  <2> SUFFICES ASSUME Inv PROVE BooksBalance
    OBVIOUS
  <2>1. TypeOK
    BY DEF Inv, CoreInv, CoreTypeOK, PeersInv, TypeOK
  <2>2. ASSUME NEW s \in Session
        PROVE  Cardinality({i \in 1..Len(writes) : writes[i].by = s})
                 = IF run[s].phase \in {"expiring", "saving"} THEN 1 ELSE 0
    <3>1. Awaited(writes, s) /\ {i \in 1..Len(writes) : writes[i].by = s} = WakersIn(writes, s)
      BY DEF Inv, QueueInv, WakersIn
    <3>2. CASE s \in Waiting
      <4>1. PICK i \in 1..Len(writes) : WakersIn(writes, s) = {i}
        BY <3>1, <3>2 DEF Awaited, WokenOnce
      <4>2. Cardinality(WakersIn(writes, s)) = 1
        BY <4>1, FS_Singleton
      <4> QED
        BY <3>1, <3>2, <4>2 DEF Waiting
    <3>3. CASE s \notin Waiting
      <4>1. Cardinality(WakersIn(writes, s)) = 0
        BY <3>1, <3>3, FS_EmptySet DEF Awaited
      <4> QED
        BY <3>1, <3>3, <4>1 DEF Waiting
    <3> QED
      BY <3>2, <3>3
  <2>3. SaversAreWoken
    BY <2>2 DEF SaversAreWoken
  <2> QED
    BY <2>1, <2>3 DEF Inv, PeersInv, BooksBalance
<1> QED
  BY <1>1, Invariance, PTL

(* However many connections of a device come and go, and even when the     *)
(* harness pulls its Peer away, they speak through one live Peer, which    *)
(* lasts as long as any of them.                                           *)
THEOREM PeersShared == Spec => []PeersAreShared
<1>1. Inv => PeersAreShared
  BY DEF Inv, PeersInv, PeersAreShared, OnePeerPerDevice
<1> QED
  BY <1>1, Invariance, PTL

(* Only a run that was overtaken by a revocation while it saved can have   *)
(* connected without being on the list.                                    *)
THEOREM Paired == Spec => []ConnectedIsPaired
<1>1. Inv => ConnectedIsPaired
  BY DEF Inv, ListInv, Committed, ConnectedIsPaired, Connected, InPhase
<1> QED
  BY <1>1, Invariance, PTL

(* The handles a revocation hangs up with are the open connections.        *)
THEOREM Presence == Spec => []PresenceIsTrue
<1>1. Inv => PresenceIsTrue
  BY DEF Inv, ListInv
<1> QED
  BY <1>1, Invariance, PTL

(* A pairing code admits at most one device, however phones race for it.   *)
THEOREM OneDevicePerCode == Spec => []CodeAdmitsOne
<1>1. Inv => CodeAdmitsOne
  <2> SUFFICES ASSUME Inv, NEW t \in Token PROVE Cardinality(redeemed[t]) <= 1
    BY DEF CodeAdmitsOne
  <2>1. redeemed[t] = {} \/ \E d \in Device : redeemed[t] = {d}
    BY DEF Inv, CodeInv
  <2>2. Cardinality(redeemed[t]) = 0 \/ Cardinality(redeemed[t]) = 1
    BY <2>1, FS_EmptySet, FS_Singleton
  <2> QED
    BY <2>2
<1> QED
  BY <1>1, Invariance, PTL

(* Once a revocation was answered, no write on its way and no restart      *)
(* brings the device back.                                                 *)
THEOREM RevocationLasts == Spec => []RevocationIsDurable
<1>1. Inv => RevocationIsDurable
  BY DEF Inv, QueueInv, Omits, RevocationIsDurable
<1> QED
  BY <1>1, Invariance, PTL

(* The last write on its way is the list as it is now.                     *)
THEOREM LastWrite == Spec => []LastWriteIsTheList
<1>1. Inv => LastWriteIsTheList
  BY DEF Inv, QueueInv, EndsWith, LastWriteIsTheList
<1> QED
  BY <1>1, Invariance, PTL

-----------------------------------------------------------------------------
(* The whitelist implements AccessList.  First what each helper does to    *)
(* what AccessList sees: the versions of the list that are stored or on    *)
(* their way, and who is past the gate or connected.                       *)
DiskMoves == disk' = disk \/ (writes # <<>> /\ disk' = Head(writes).snap)

(* The entries of a queue that is left are entries of the queue there was. *)
LEMMA LeftIn ==
  ASSUME CoreInv, NEW queue, Stored(queue)
  PROVE  /\ queue \in Seq(WriteRecord)
         /\ \A i \in 1..Len(queue) : \E j \in 1..Len(writes) : queue[i] = writes[j]
         /\ writes # <<>> => \E j \in 1..Len(writes) : Head(writes) = writes[j]
<1>1. writes \in Seq(WriteRecord)
  BY DEF CoreInv, CoreTypeOK, RegistryTypeOK, WriteRecord
<1>2. ASSUME writes # <<>>
      PROVE  /\ Len(Tail(writes)) = Len(writes) - 1 /\ Len(writes) \in Nat \ {0}
             /\ \A i \in 1..Len(Tail(writes)) : Tail(writes)[i] = writes[i + 1]
             /\ Head(writes) = writes[1] /\ Tail(writes) \in Seq(WriteRecord)
  BY <1>1, <1>2, TailIs
<1>3. ASSUME writes # <<>>
      PROVE  /\ 1 \in 1..Len(writes)
             /\ \A i \in 1..Len(Tail(writes)) : i + 1 \in 1..Len(writes)
  BY <1>2, <1>3
<1> QED
  BY <1>1, <1>2, <1>3 DEF Stored

(* Nothing new is stored: no version appears, and one remains.             *)
LEMMA VersionsLeft ==
  ASSUME CoreInv, NEW queue, Stored(queue), NoSave(queue), DiskMoves
  PROVE  Versions' \subseteq Versions /\ Versions' # {}
<1>1. writes' = queue
  BY DEF NoSave
<1>2. Versions' = {On(disk')} \cup {On(queue[i].snap) : i \in 1..Len(queue)}
  BY <1>1 DEF Versions, On
<1>3. On(disk') \in Versions
  BY LeftIn DEF DiskMoves, Versions
<1>4. \A i \in 1..Len(queue) : On(queue[i].snap) \in Versions
  BY LeftIn DEF Versions
<1> QED
  BY <1>2, <1>3, <1>4

(* The list is stored as it is now: that is the one new version.           *)
LEMMA VersionsMore ==
  ASSUME CoreInv, NEW queue, Stored(queue), NEW list \in [Device -> Nat],
         NEW by \in Session \cup Device \cup {None}, Save(queue, list, by), DiskMoves
  PROVE  Versions' \subseteq Versions \cup {On(list)} /\ On(list) \in Versions'
<1> DEFINE w == [snap |-> list, by |-> by]
<1>1. writes' = Append(queue, w) /\ w \in WriteRecord /\ w.snap = list /\ queue \in Seq(WriteRecord)
  BY LeftIn DEF Save, WriteRecord
<1> HIDE DEF w
<1>2. /\ Len(writes') = Len(queue) + 1 /\ Len(queue) \in Nat
      /\ \A i \in 1..Len(queue) : writes'[i] = queue[i]
      /\ writes'[Len(queue) + 1] = w
  BY <1>1, AppendIs
<1>3. Len(queue) + 1 \in 1..Len(writes') /\ 1..Len(writes') = 1..Len(queue) \cup {Len(queue) + 1}
  BY <1>2
<1>4. Versions' = {On(disk')} \cup {On(writes'[i].snap) : i \in 1..Len(writes')}
  BY DEF Versions, On
<1>5. On(list) \in Versions'
  BY <1>1, <1>2, <1>3, <1>4
<1>6. On(disk') \in Versions
  BY LeftIn DEF DiskMoves, Versions
<1>7. \A i \in 1..Len(queue) : On(queue[i].snap) \in Versions
  BY LeftIn DEF Versions
<1> QED
  BY <1>1, <1>2, <1>3, <1>4, <1>5, <1>6, <1>7

(* A step of run s alone: what becomes of it is all that is seen.          *)
LEMMA OneRunSeen ==
  ASSUME NEW s \in Session, SameRuns(Session \ {s})
  PROVE  /\ Admitted' = [Admitted EXCEPT ![s] = IF run'[s].phase = "saving" THEN run'[s].dev ELSE None]
         /\ Inside' = [Inside EXCEPT ![s] = IF run'[s].phase = "connected" THEN run'[s].dev ELSE None]
BY DEF Admitted, Inside, SameRuns

(* A run that is neither saving nor connected before or after is not seen. *)
LEMMA NotSeen ==
  ASSUME NEW s \in Session, NEW r, Continue(s, r, {}),
         \/ {run[s].phase, r.phase} \cap {"saving", "connected"} = {}
         \/ r.phase = run[s].phase /\ r.dev = run[s].dev
  PROVE  UNCHANGED <<Admitted, Inside>>
<1>1. \A q \in Session : run'[q] = IF q = s THEN r ELSE run[q]
  BY DEF Continue
<1> QED
  BY <1>1 DEF Admitted, Inside

(* Hanging up on devices ends their connections and no other.              *)
LEMMA HangUpSeen ==
  ASSUME CoreInv, PresenceIsTrue, NEW D \in SUBSET Device, NEW s, NEW r, HangUp(D, s, r),
         r.phase # "connected", s \in Session => run[s].phase \notin {"saving", "connected"}
  PROVE  /\ Access!HangUp(D)
         /\ \A q \in Session : Admitted'[q] = IF q = s /\ r.phase = "saving" THEN r.dev ELSE Admitted[q]
<1>1. ConnectionsOf(D) = {q \in Connected : run[q].dev \in D}
  BY ConnectionsAre
<1>2. \A q \in Session :
        run'[q] = IF q \in ConnectionsOf(D) THEN Idle ELSE IF q = s THEN r ELSE run[q]
  BY DEF HangUp, Continue
<1>3. Idle.phase = "idle" /\ None \notin D
  BY DEF Idle
<1>4. ASSUME NEW q \in Session
      PROVE  /\ Inside'[q] = IF Inside[q] \in D THEN None ELSE Inside[q]
             /\ Admitted'[q] = IF q = s /\ r.phase = "saving" THEN r.dev ELSE Admitted[q]
  <2>1. CASE q \in ConnectionsOf(D)
    BY <1>1, <1>2, <1>3, <2>1 DEF Inside, Admitted, Connected, InPhase
  <2>2. CASE q \notin ConnectionsOf(D)
    BY <1>1, <1>2, <1>3, <2>2 DEF Inside, Admitted, Connected, InPhase
  <2> QED
    BY <2>1, <2>2
<1>5. Inside' = [q \in Session |-> IF Inside[q] \in D THEN None ELSE Inside[q]]
  BY <1>4 DEF Inside
<1> QED
  BY <1>4, <1>5 DEF Access!HangUp

(* Devices that leave the list.                                            *)
LEMMA WithoutSeen ==
  ASSUME NEW D \in SUBSET Device, devices' = Without(D)
  PROVE  On(Without(D)) = Listed \ D /\ Listed' = Listed \ D
BY DEF Without, Listed, On

(* The list as it is now is stored, or nothing new is.                     *)
LEMMA StoresList ==
  ASSUME CoreInv, NEW queue, Stored(queue), DiskMoves, UNCHANGED devices,
         NEW by \in Session \cup Device \cup {None}, NoSave(queue) \/ Save(queue, devices, by)
  PROVE  Access!Stores
<1>1. devices \in [Device -> Nat] /\ Listed' = On(devices)
  BY DEF CoreInv, CoreTypeOK, RegistryTypeOK, Listed, On
<1>2. CASE NoSave(queue)
  BY <1>2, VersionsLeft DEF Access!Stores
<1>3. CASE Save(queue, devices, by)
  <2>1. Versions' \subseteq Versions \cup {On(devices)} /\ On(devices) \in Versions'
    BY <1>1, <1>3, VersionsMore
  <2> QED
    BY <1>1, <2>1 DEF Access!Stores
<1> QED
  BY <1>2, <1>3

(* Attaching lets a connection in, or shows that it is gone.               *)
LEMMA AttachSeen ==
  ASSUME CoreInv, PresenceIsTrue, NEW queue, Stored(queue), NEW s \in Session, Attach(queue, s),
         DiskMoves, UNCHANGED devices, run[s].phase \in {"admitting", "saving"}
  PROVE  /\ Access!Stores /\ Admitted' = [Admitted EXCEPT ![s] = None]
         /\ \/ Inside' = [Inside EXCEPT ![s] = None]
            \/ Inside' = [Inside EXCEPT ![s] = run[s].dev]
<1>1. run[s] \in Run /\ Idle.phase = "idle"
  BY DEF CoreInv, CoreTypeOK, Idle
<1>2. CASE run[s].gone
  <2>1. SameRuns(Session \ {s}) /\ run'[s] = Idle
    BY <1>2, AttachGone
  <2>2. Admitted' = [Admitted EXCEPT ![s] = None] /\ Inside' = [Inside EXCEPT ![s] = None]
    BY <1>1, <2>1, OneRunSeen
  <2>3. NoSave(queue) \/ Save(queue, devices, None)
    BY <1>2 DEF Attach, Leave
  <2>4. Access!Stores
    BY <2>3, StoresList
  <2> QED
    BY <2>2, <2>4
<1>3. CASE ~run[s].gone
  <2>1. SameRuns(Session \ {s}) /\ run'[s] = [run[s] EXCEPT !.phase = "connected"] /\ NoSave(queue)
    BY <1>3, AttachConnects
  <2>2. run'[s].phase = "connected" /\ run'[s].dev = run[s].dev
    BY <1>1, <2>1 DEF Run
  <2>3. Admitted' = [Admitted EXCEPT ![s] = None] /\ Inside' = [Inside EXCEPT ![s] = run[s].dev]
    BY <2>1, <2>2, OneRunSeen
  <2>4. Access!Stores
    BY <2>1, StoresList
  <2> QED
    BY <2>3, <2>4
<1> QED
  BY <1>2, <1>3

(* A connection that is nowhere to be seen may be said to go.              *)
LEMMA UnseenGo ==
  ASSUME NEW s \in Session, run[s].phase \notin {"saving", "connected"}
  PROVE  Admitted[s] = None /\ Inside[s] = None
BY DEF Admitted, Inside

(* Every step of the registry and its streams is one of AccessList, or     *)
(* shows nothing.                                                          *)
LEMMA AccessStep ==
  ASSUME Inv, Inv', [Next]_vars
  PROVE  [Access!Next]_(Access!vars)
<1> DEFINE Unseen == UNCHANGED Access!vars
<1>0. /\ CoreInv /\ QueueInv /\ PresenceIsTrue /\ Stored(writes)
      /\ \A s \in Session : run[s] \in Run
      /\ devices \in [Device -> Nat] /\ devices' \in [Device -> Nat]
      /\ pairings \in [Token -> Nat] /\ minted \subseteq Token /\ clock \in Nat \ {0}
  BY DEF Inv, ListInv, CoreInv, CoreTypeOK, RegistryTypeOK, Stored, Start
<1>a. Idle.phase = "idle"
  BY DEF Idle
<1>b. ASSUME UNCHANGED <<devices, pairings, minted, disk, writes, revoked>>,
             UNCHANGED <<Admitted, Inside>>
      PROVE  Unseen
  BY <1>b DEF Access!vars, Listed, LiveCodes, Versions
<1>c. ASSUME UNCHANGED run PROVE UNCHANGED <<Admitted, Inside>>
  BY <1>c DEF Admitted, Inside
<1>d. ASSUME UNCHANGED devices PROVE UNCHANGED Listed
  BY <1>d DEF Listed
<1>e. ASSUME UNCHANGED pairings PROVE UNCHANGED LiveCodes
  BY <1>e DEF LiveCodes
<1>f. ASSUME UNCHANGED disk PROVE DiskMoves
  BY <1>f DEF DiskMoves
<1>g. ASSUME UNCHANGED <<disk, writes>> PROVE UNCHANGED Versions
  BY <1>g DEF Versions
<1>11. ASSUME NEW s \in Session, Open(s) PROVE Unseen
  <2>1. [run[s] EXCEPT !.phase = "greeting"].phase = "greeting"
    BY <1>0, <1>11 DEF Run
  <2> QED
    BY <1>b, <1>11, <2>1, NotSeen DEF Open, Step, registryVars, history
<1>12. ASSUME NEW s \in Session, Rejected(s) PROVE Unseen
  BY <1>a, <1>b, <1>12, NotSeen DEF Rejected, registryVars, history
<1>13. ASSUME NEW s \in Session, NEW d \in Device, NEW t \in minted \cup {None}, Hello(s, d, t)
       PROVE  Unseen \/ Access!Remove(Expired(clock))
  <2> DEFINE due == Expired(clock)
             r == [phase |-> IF due = {} THEN "admitting" ELSE "expiring",
                   dev |-> d, token |-> t, now |-> clock, gone |-> FALSE]
  <2>1. /\ HangUp(due, s, r) /\ devices' = Without(due) /\ run[s].phase = "greeting"
        /\ due \in SUBSET Device /\ r.phase \in {"admitting", "expiring"}
        /\ UNCHANGED <<pairings, disk, minted, revoked>>
        /\ IF due = {} THEN NoSave(writes) ELSE Save(writes, Without(due), s)
    BY <1>13 DEF Hello, Expired
  <2> HIDE DEF due, r
  <2>2. /\ Access!HangUp(due)
        /\ \A q \in Session : Admitted'[q] = IF q = s /\ r.phase = "saving" THEN r.dev ELSE Admitted[q]
    <3>1. r.phase # "connected" /\ run[s].phase \notin {"saving", "connected"}
      BY <2>1
    <3> QED
      BY <1>0, <2>1, <3>1, HangUpSeen
  <2>3. Admitted' = Admitted
    BY <2>1, <2>2 DEF Admitted
  <2>4. CASE due = {}
    <3>1. Inside' = Inside
      BY <2>2, <2>4 DEF Access!HangUp, Inside
    <3>2. devices' = devices /\ writes' = writes
      BY <1>0, <2>1, <2>4 DEF Without, NoSave
    <3> QED
      BY <1>b, <2>1, <2>3, <3>1, <3>2
  <2>5. CASE due # {}
    <3>1. On(Without(due)) = Listed \ due /\ Listed' = Listed \ due
      BY <2>1, WithoutSeen
    <3>2. Save(writes, Without(due), s) /\ Without(due) \in [Device -> Nat]
      BY <1>0, <2>1, <2>5
    <3>3. Versions' \subseteq Versions \cup {Listed'} /\ Listed' \in Versions'
      BY <1>0, <1>f, <2>1, <3>1, <3>2, VersionsMore
    <3>4. Access!Remove(due)
      BY <1>e, <2>1, <2>2, <2>3, <3>1, <3>3 DEF Access!Remove, Access!Stores
    <3> QED
      BY <3>4 DEF due
  <2> QED
    BY <2>4, <2>5
<1>14. ASSUME NEW s \in Session, AdmitKnown(s) PROVE Access!Recognise(s, run[s].dev) \/ Access!Go(s)
  <2>1. /\ run[s].phase = "admitting" /\ run[s].dev \in Device /\ devices[run[s].dev] # 0
        /\ UNCHANGED <<devices, pairings, disk, minted, revoked>>
    BY <1>0, <1>14 DEF AdmitKnown, Inv, CoreInv, Proved, Authorizing, history, Run
  <2>2. Admitted[s] = None /\ Inside[s] = None /\ run[s].dev \in Listed
    BY <2>1, UnseenGo DEF Listed, On
  <2>3. UNCHANGED <<Listed, LiveCodes>> /\ DiskMoves
    BY <1>d, <1>e, <1>f, <2>1
  <2>4. CASE Attach(writes, s)
    <3>1. /\ Access!Stores /\ Admitted' = [Admitted EXCEPT ![s] = None]
          /\ \/ Inside' = [Inside EXCEPT ![s] = None]
             \/ Inside' = [Inside EXCEPT ![s] = run[s].dev]
      BY <1>0, <2>1, <2>3, <2>4, AttachSeen
    <3>2. [Admitted EXCEPT ![s] = None] = Admitted
      BY <2>2 DEF Admitted
    <3> QED
      BY <2>1, <2>2, <2>3, <3>1, <3>2 DEF Access!Recognise, Access!Go
  <2>5. CASE Save(writes, devices, s) /\ Step(s, "saving")
    <3>1. run'[s] = [run[s] EXCEPT !.phase = "saving"] /\ SameRuns(Session \ {s})
      BY <2>5 DEF Step, Continue, SameRuns
    <3>2. run'[s].phase = "saving" /\ run'[s].dev = run[s].dev
      BY <1>0, <3>1 DEF Run
    <3>3. Admitted' = [Admitted EXCEPT ![s] = run[s].dev] /\ Inside' = [Inside EXCEPT ![s] = None]
      BY <3>1, <3>2, OneRunSeen
    <3>4. [Inside EXCEPT ![s] = None] = Inside
      BY <2>2 DEF Inside
    <3>5. Access!Stores
      BY <1>0, <2>1, <2>3, <2>5, StoresList
    <3> QED
      BY <2>1, <2>2, <2>3, <3>3, <3>4, <3>5 DEF Access!Recognise
  <2> QED
    BY <1>14, <2>4, <2>5 DEF AdmitKnown
<1>15. ASSUME NEW s \in Session, AdmitByCode(s) PROVE Access!Pair(s, run[s].dev, run[s].token)
  <2> DEFINE d == run[s].dev
             t == run[s].token
             r == [run[s] EXCEPT !.phase = "saving"]
             list == [devices EXCEPT ![d] = run[s].now + DeviceTtl]
  <2>1. /\ d \in Device /\ run[s].phase = "admitting" /\ r.phase = "saving" /\ r.dev = d
        /\ run[s].now + DeviceTtl \in Nat \ {0}
        /\ t # None /\ t \in Token /\ pairings[t] # 0
    BY <1>0, <1>15 DEF AdmitByCode, Inv, CoreInv, Proved, Authorizing, Run, CodeWorks, Start
  <2>2. /\ HangUp({d}, s, r) /\ devices' = list /\ Save(writes, list, s) /\ Redeem(t)
        /\ revoked' = revoked \ {d} /\ UNCHANGED <<disk, minted>>
    BY <1>15 DEF AdmitByCode
  <2>3. list \in [Device -> Nat] /\ On(list) = Listed \cup {d}
    BY <1>0, <2>1 DEF On, Listed
  <2>4. LiveCodes' = LiveCodes \ {t} /\ t \in LiveCodes
    BY <2>1, <2>2 DEF LiveCodes, Redeem
  <2> HIDE DEF d, t, r, list
  <2>5. Listed' = On(list)
    BY <2>2 DEF Listed, On
  <2>6. Admitted[s] = None /\ Inside[s] = None
    BY <2>1, UnseenGo
  <2>7. /\ Access!HangUp({d})
        /\ \A q \in Session : Admitted'[q] = IF q = s /\ r.phase = "saving" THEN r.dev ELSE Admitted[q]
    <3>1. {d} \in SUBSET Device /\ r.phase # "connected" /\ run[s].phase \notin {"saving", "connected"}
      BY <2>1
    <3> QED
      BY <1>0, <2>2, <3>1, HangUpSeen
  <2>8. Admitted' = [Admitted EXCEPT ![s] = d]
    BY <2>1, <2>7 DEF Admitted
  <2>9. Versions' \subseteq Versions \cup {Listed'} /\ Listed' \in Versions'
    BY <1>0, <1>f, <2>2, <2>3, <2>5, VersionsMore
  <2>10. Access!Pair(s, d, t)
    BY <2>2, <2>3, <2>4, <2>5, <2>6, <2>7, <2>8, <2>9 DEF Access!Pair, Access!Stores
  <2> QED
    BY <2>10 DEF d, t
<1>16. ASSUME NEW s \in Session, TurnAway(s) PROVE Access!Lapse
  <2>1. UNCHANGED <<Admitted, Inside>>
    BY <1>a, <1>16, NotSeen DEF TurnAway
  <2>2. LiveCodes' \subseteq LiveCodes
    BY <1>16 DEF TurnAway, Redeem, LiveCodes
  <2> QED
    BY <1>d, <1>g, <1>16, <2>1, <2>2 DEF TurnAway, Access!Lapse, history
<1>17. ASSUME NEW s \in Session, StreamEnds(s) PROVE Unseen \/ Access!Go(s)
  <2>1. UNCHANGED <<devices, pairings, disk, minted, revoked>>
    BY <1>17 DEF StreamEnds
  <2>2. CASE run[s].phase = "greeting" /\ Continue(s, Idle, {}) /\ UNCHANGED writes
    BY <1>a, <1>b, <2>1, <2>2, NotSeen
  <2>3. CASE Continue(s, [run[s] EXCEPT !.gone = TRUE], {}) /\ UNCHANGED writes
    <3>1. /\ [run[s] EXCEPT !.gone = TRUE].phase = run[s].phase
          /\ [run[s] EXCEPT !.gone = TRUE].dev = run[s].dev
      BY <1>0 DEF Run
    <3> QED
      BY <1>b, <2>1, <2>3, <3>1, NotSeen
  <2>4. CASE run[s].phase = "connected" /\ Leave(writes, run[s].dev, s) /\ Continue(s, Idle, {})
    <3>1. SameRuns(Session \ {s}) /\ run'[s] = Idle
      BY <2>4 DEF Continue, SameRuns
    <3>2. Admitted' = [Admitted EXCEPT ![s] = None] /\ Inside' = [Inside EXCEPT ![s] = None]
      BY <1>a, <3>1, OneRunSeen
    <3>3. NoSave(writes) \/ Save(writes, devices, None)
      BY <2>4 DEF Leave
    <3>4. Access!Stores
      BY <1>0, <1>f, <2>1, <3>3, StoresList
    <3> QED
      BY <1>d, <1>e, <2>1, <3>2, <3>4 DEF Access!Go
  <2> QED
    BY <1>17, <2>2, <2>3, <2>4 DEF StreamEnds
<1>18. ASSUME NEW d \in Device, Revoke(d) PROVE Access!Remove({d})
  <2>1. /\ HangUp({d}, None, Idle) /\ devices' = Without({d}) /\ Save(writes, Without({d}), d)
        /\ UNCHANGED <<pairings, disk, minted, revoked>>
    BY <1>18 DEF Revoke
  <2>2. /\ Access!HangUp({d})
        /\ \A q \in Session : Admitted'[q] = IF q = None /\ Idle.phase = "saving" THEN Idle.dev ELSE Admitted[q]
    <3>1. {d} \in SUBSET Device /\ Idle.phase # "connected" /\ None \notin Session
      BY <1>a
    <3> QED
      BY <1>0, <2>1, <3>1, HangUpSeen
  <2>3. Admitted' = Admitted
    BY <1>a, <2>2 DEF Admitted
  <2>4. On(Without({d})) = Listed \ {d} /\ Listed' = Listed \ {d} /\ Without({d}) \in [Device -> Nat]
    BY <1>0, <2>1, WithoutSeen
  <2>5. Versions' \subseteq Versions \cup {Listed'} /\ Listed' \in Versions'
    BY <1>0, <1>f, <2>1, <2>4, VersionsMore
  <2> QED
    BY <1>e, <2>1, <2>2, <2>3, <2>4, <2>5 DEF Access!Remove, Access!Stores
<1>19. ASSUME WriteLands
       PROVE  Access!Store \/ (\E s \in Session : Access!Enter(s) \/ Access!Go(s))
                \/ \E d \in Device : Access!Answer(d)
  <2> DEFINE s == Head(writes).by
             queue == Tail(writes)
  <2>1. /\ UNCHANGED <<devices, pairings, minted>> /\ disk' = Head(writes).snap /\ writes # <<>>
        /\ UNCHANGED <<Listed, LiveCodes>> /\ DiskMoves
    BY <1>d, <1>e, <1>19 DEF WriteLands, DiskMoves
  <2>2. Stored(queue)
    BY <1>0, <2>1, TailIsShorter
  <2>3. CASE s \in Session /\ run[s].phase = "expiring" /\ Step(s, "admitting") /\ NoSave(queue) /\ UNCHANGED revoked
    <3>1. [run[s] EXCEPT !.phase = "admitting"].phase = "admitting"
      BY <1>0, <2>3 DEF Run
    <3>2. UNCHANGED <<Admitted, Inside>>
      BY <2>3, <3>1, NotSeen DEF Step
    <3>3. Access!Stores
      BY <1>0, <2>1, <2>2, <2>3, StoresList
    <3> QED
      BY <2>1, <2>3, <3>2, <3>3 DEF Access!Store
  <2>4. CASE s \in Session /\ run[s].phase = "saving" /\ Attach(queue, s) /\ UNCHANGED revoked
    <3>1. /\ Access!Stores /\ Admitted' = [Admitted EXCEPT ![s] = None]
          /\ \/ Inside' = [Inside EXCEPT ![s] = None]
             \/ Inside' = [Inside EXCEPT ![s] = run[s].dev]
      BY <1>0, <2>1, <2>2, <2>4, AttachSeen
    <3>2. Admitted[s] = run[s].dev /\ run[s].dev # None
      BY <1>0, <2>4 DEF Admitted, CoreInv, Proved, Authorizing
    <3> QED
      BY <2>1, <2>4, <3>1, <3>2 DEF Access!Enter, Access!Go
  <2>5. CASE s \notin Session /\ NoSave(queue) /\ UNCHANGED run
    <3>1. UNCHANGED <<Admitted, Inside>>
      BY <1>c, <2>5
    <3>2. Access!Stores
      BY <1>0, <2>1, <2>2, <2>5, StoresList
    <3>3. CASE UNCHANGED revoked
      BY <2>1, <3>1, <3>2, <3>3 DEF Access!Store
    <3>4. CASE /\ s \in Device /\ devices[s] = 0 /\ revoked' = revoked \cup {s}
               /\ \A i \in 1..Len(queue) : queue[i].snap[s] = 0
      <4>1. Head(writes).snap[s] = 0
        <5>1. writes \in Seq(WriteRecord)
          BY <1>0 DEF CoreInv, CoreTypeOK, RegistryTypeOK, WriteRecord
        <5>2. 1 \in 1..Len(writes) /\ Head(writes) = writes[1]
          BY <2>1, <5>1, TailIs
        <5> QED
          BY <1>0, <3>4, <5>2 DEF QueueInv, OmitsOwn
      <4>2. Versions' = {On(disk')} \cup {On(queue[i].snap) : i \in 1..Len(queue)}
        BY <2>5 DEF Versions, On, NoSave
      <4>3. \A v \in Versions' : s \notin v
        BY <2>1, <3>4, <4>1, <4>2 DEF On
      <4>4. s \notin Listed
        BY <3>4 DEF Listed, On
      <4>5. Access!Answer(s)
        BY <2>1, <3>1, <3>2, <3>4, <4>3, <4>4 DEF Access!Answer
      <4> QED
        BY <3>4, <4>5
    <3> QED
      BY <1>19, <2>5, <3>3, <3>4 DEF WriteLands
  <2> QED
    BY <1>19, <2>3, <2>4, <2>5 DEF WriteLands
<1>20. ASSUME WriteFails PROVE Access!Store \/ \E s \in Session : Access!Go(s)
  <2> DEFINE s == Head(writes).by
  <2>1. /\ NoSave(Tail(writes)) /\ Continue(s, Idle, {}) /\ writes # <<>>
        /\ UNCHANGED <<devices, pairings, disk, minted, revoked>>
    BY <1>20 DEF WriteFails
  <2>2. Access!Stores
    BY <1>0, <1>f, <2>1, TailIsShorter, StoresList
  <2>3. CASE s \in Session
    <3>1. SameRuns(Session \ {s}) /\ run'[s] = Idle
      BY <2>1, <2>3 DEF Continue, SameRuns
    <3>2. Admitted' = [Admitted EXCEPT ![s] = None] /\ Inside' = [Inside EXCEPT ![s] = None]
      BY <1>a, <2>3, <3>1, OneRunSeen
    <3> QED
      BY <1>d, <1>e, <2>1, <2>2, <2>3, <3>2 DEF Access!Go
  <2>4. CASE s \notin Session
    <3>1. \A q \in Session : run'[q] = run[q]
      BY <2>1, <2>4 DEF Continue
    <3>2. UNCHANGED <<Admitted, Inside>>
      BY <3>1 DEF Admitted, Inside
    <3> QED
      BY <1>d, <1>e, <2>1, <2>2, <3>2 DEF Access!Store
  <2> QED
    BY <2>3, <2>4
<1>21. ASSUME Restart PROVE Access!Restart
  <2>1. /\ devices' = disk /\ disk' = disk /\ writes' = <<>> /\ run' = [s \in Session |-> Idle]
        /\ pairings' = [t \in Token |-> 0] /\ UNCHANGED <<minted, revoked>>
    BY <1>21 DEF Restart
  <2>2. Listed' = On(disk) /\ Versions' = {On(disk)} /\ On(disk) \in Versions
    <3>1. 1..Len(<<>>) = {}
      OBVIOUS
    <3> QED
      BY <2>1, <3>1 DEF Listed, Versions, On
  <2>3. LiveCodes' = {}
    BY <2>1 DEF LiveCodes
  <2>4. Admitted' = Access!Nobody /\ Inside' = Access!Nobody
    BY <1>a, <2>1 DEF Admitted, Inside, Access!Nobody
  <2> QED
    BY <2>1, <2>2, <2>3, <2>4 DEF Access!Restart
<1>22. ASSUME NEW d \in Device, Rename(d), UNCHANGED <<run, history>> PROVE Access!Store
  <2>1. Save(writes, devices, None) /\ UNCHANGED <<devices, pairings, disk, minted, revoked>>
    BY <1>22 DEF Rename, history
  <2>2. Access!Stores
    BY <1>0, <1>f, <2>1, StoresList
  <2> QED
    BY <1>c, <1>d, <1>e, <1>22, <2>1, <2>2 DEF Access!Store
<1>23. ASSUME NEW t \in Token, CreatePairing(t), UNCHANGED <<run, history>> PROVE Access!Issue(t)
  <2>1. LiveCodes' = {t}
    BY <1>0, <1>23 DEF CreatePairing, LiveCodes
  <2> QED
    BY <1>c, <1>d, <1>g, <1>23, <2>1 DEF CreatePairing, Access!Issue, history
<1>24. ASSUME ActivePairing, UNCHANGED <<run, history>> PROVE Access!Lapse
  <2>1. LiveCodes' \subseteq LiveCodes
    BY <1>24 DEF ActivePairing, LiveCodes
  <2> QED
    BY <1>c, <1>d, <1>g, <1>24, <2>1 DEF ActivePairing, Access!Lapse, history
<1>25. ASSUME Tick \/ UNCHANGED registryVars, UNCHANGED <<run, history>> PROVE Unseen
  BY <1>b, <1>c, <1>25 DEF Tick, registryVars, history
<1>26. ASSUME NEW D \in SUBSET Device, Access!Remove(D) PROVE Access!Next
  BY <1>26 DEF Access!Next
<1>27. ASSUME NEW s \in Session, NEW d \in Device, Access!Recognise(s, d) \/ \E t \in Token : Access!Pair(s, d, t)
       PROVE  Access!Next
  BY <1>27 DEF Access!Next
<1>28. CASE \E s \in Session : \/ Open(s) \/ Rejected(s) \/ StreamEnds(s)
                               \/ \E d \in Device, t \in minted \cup {None} : Hello(s, d, t)
  <2>1. Expired(clock) \in SUBSET Device
    BY DEF Expired
  <2> QED
    BY <1>11, <1>12, <1>13, <1>17, <1>26, <1>28, <2>1 DEF Access!Next
<1>29. CASE \E s \in Session : AdmitKnown(s) \/ AdmitByCode(s) \/ TurnAway(s)
  <2>1. PICK s \in Session : AdmitKnown(s) \/ AdmitByCode(s) \/ TurnAway(s)
    BY <1>29
  <2>2. run[s].dev \in Device /\ (AdmitByCode(s) => run[s].token \in Token)
    BY <1>0, <2>1 DEF AdmitKnown, AdmitByCode, TurnAway, CoreInv, Proved, Authorizing, CodeWorks, Run
  <2> QED
    BY <1>14, <1>15, <1>16, <1>27, <2>1, <2>2 DEF Access!Next
<1> QED
  BY <1>18, <1>19, <1>20, <1>21, <1>22, <1>23, <1>24, <1>25, <1>26, <1>28, <1>29
     DEF Next, vars, Access!Next

(* What pairing promises, whatever interleaves, fails or restarts: nobody  *)
(* connects who did not pass the gate while on the list or with a live     *)
(* code, removal ends what is connected in the same step, no code is       *)
(* honoured twice, and no restart undoes an answered revocation.           *)
THEOREM ImplementsAccessList == Spec => IsAnAccessList
<1>1. Init => Access!Init
  <2> SUFFICES ASSUME Init PROVE Access!Init
    OBVIOUS
  <2>1. /\ devices = disk /\ writes = <<>> /\ minted = {} /\ revoked = {}
        /\ pairings = [t \in Token |-> 0] /\ run = [s \in Session |-> Idle]
    BY DEF Init, RegistryInit
  <2>2. Versions = {Listed} /\ Listed \subseteq Device
    <3>1. 1..Len(<<>>) = {}
      OBVIOUS
    <3> QED
      BY <2>1, <3>1 DEF Versions, Listed, On
  <2>3. LiveCodes = {}
    BY <2>1 DEF LiveCodes
  <2>4. Admitted = Access!Nobody /\ Inside = Access!Nobody
    BY <2>1 DEF Admitted, Inside, Idle, Access!Nobody
  <2> QED
    BY <2>1, <2>2, <2>3, <2>4 DEF Access!Init
<1> QED
  BY <1>1, Invariance, AccessStep, PTL DEF Spec, IsAnAccessList, Access!Spec

=============================================================================
