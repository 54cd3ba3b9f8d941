------------------------------ MODULE Sessions ------------------------------
(***************************************************************************)
(* Streams opened by the relay for phones, served by `serveStream` of      *)
(* src/src/session.ts against the whitelist (DeviceRegistry) and the Peers *)
(* (DevicePeers), while the operator pairs, revokes and renames and the    *)
(* process may restart.                                                    *)
(*                                                                         *)
(* A member of Session is one stream and the run of `serveStream` that     *)
(* serves it; it is idle, and may be used again, once both are over.       *)
(* Everything between two awaits is one step.  The first await of          *)
(* `authorize` is `expire`, the second the `save` of a pairing or of a     *)
(* last-seen time; a stream that ends meanwhile does not stop the run.     *)
(***************************************************************************)
EXTENDS DeviceRegistry, DevicePeers

VARIABLES
  run,        \* the state of each run: how far it has got, deviceId,
              \* pairingToken (None is an empty or a made-up one), the `now` of
              \* authorize, and whether its stream ended during authorize
  overtaken,  \* history: runs whose device was removed while they saved
  redeemed,   \* history: the devices each code has admitted
  revoked     \* history: devices whose revocation was answered and that were
              \* not paired again since

history == <<overtaken, redeemed, revoked>>
vars    == <<registryVars, peersVars, run, history>>

(* greeting: the preamble and the first message are awaited; expiring and  *)
(* saving: inside authorize's awaits; admitting: between the two.          *)
Authorizing == {"expiring", "admitting", "saving"}
Phase       == {"idle", "greeting", "connected"} \cup Authorizing

Run  == [phase : Phase, dev : Device \cup {None}, token : Token \cup {None},
         now : 0..(Start + MaxClock), gone : BOOLEAN]
Idle == [phase |-> "idle", dev |-> None, token |-> None, now |-> 0, gone |-> FALSE]

InPhase(ph) == {s \in Session : run[s].phase = ph}
Connected   == InPhase("connected")

TypeOK ==
  /\ RegistryTypeOK /\ PeersTypeOK
  /\ run \in [Session -> Run]
  /\ overtaken \subseteq Session
  /\ redeemed \in [Token -> SUBSET Device] /\ revoked \subseteq Device

Init ==
  /\ RegistryInit /\ PeersInit
  /\ run = [s \in Session |-> Idle]
  /\ overtaken = {} /\ redeemed = [t \in Token |-> {}] /\ revoked = {}

-----------------------------------------------------------------------------
(* Run s goes on as r, the runs in R are over.                             *)
Continue(s, r, R) ==
  run' = [q \in Session |-> IF q \in R THEN Idle ELSE IF q = s THEN r ELSE run[q]]

Step(s, phase) == Continue(s, [run[s] EXCEPT !.phase = phase], {})

(* The devices in D lose their connections: each stream is closed, which   *)
(* gives back the Peer it held and ends its run.  Run s goes on as r.      *)
HangUp(D, s, r) ==
  /\ Disconnect(D)
  /\ ReleaseAll(ConnectionsOf(D))
  /\ Continue(s, r, ConnectionsOf(D))

(* History: the devices in D are removed under the runs that are saving.   *)
Overtake(D) ==
  overtaken' = {s \in overtaken \cup {q \in InPhase("saving") : run[q].dev \in D} :
                  run'[s].phase # "idle"}

(* Mutant of Attach: releases registered on an ended stream never run.     *)
AttachToEnded(queue, s) ==
  /\ live' = [live EXCEPT ![run[s].dev] = @ \cup {s}]
  /\ Acquire(s, run[s].dev)
  /\ NoSave(queue)
  /\ IF run[s].gone THEN Continue(s, Idle, {}) ELSE Step(s, "connected")

(* `attach` and `acquire`, then the last handshake message and the socket  *)
(* that node:http serves.  If the stream has ended, both releases run as   *)
(* soon as they are registered and nothing is left of the connection, nor  *)
(* of an entry whose Peer the harness has disposed.                        *)
Attach(queue, s) ==
  IF run[s].gone
  THEN /\ Leave(queue, run[s].dev, s)
       /\ Continue(s, Idle, {})
       /\ entry' = [d \in Device |-> IF d = run[s].dev /\ entry[d] \notin alive
                                      THEN None ELSE entry[d]]
       /\ UNCHANGED <<device, holders, alive, lease, pulled>>
  ELSE /\ live' = [live EXCEPT ![run[s].dev] = @ \cup {s}]
       /\ Acquire(s, run[s].dev)
       /\ Step(s, "connected")
       /\ NoSave(queue)

-----------------------------------------------------------------------------
(* The relay opens a stream for a phone.                                   *)
Open(s) ==
  /\ run[s].phase = "idle"
  /\ Step(s, "greeting")
  /\ UNCHANGED <<registryVars, peersVars, history>>

(* The preamble or the first message is not what it should be, or it has   *)
(* not come when the deadline passes.                                      *)
Rejected(s) ==
  /\ run[s].phase = "greeting"
  /\ Continue(s, Idle, {})
  /\ UNCHANGED <<registryVars, peersVars, history>>

(* The first message proves device d and carries t: authorize takes the    *)
(* time, expires what is due, and waits for that to be stored.             *)
Hello(s, d, t) ==
  LET due == Expired(clock) IN
  /\ run[s].phase = "greeting"
  /\ devices' = Without(due)
  /\ HangUp(due, s, [phase |-> IF due = {} THEN "admitting" ELSE "expiring",
                     dev |-> d, token |-> t, now |-> clock, gone |-> FALSE])
  /\ IF due = {} THEN NoSave(writes) ELSE Save(writes, Without(due), s)
  /\ Overtake(due)
  /\ UNCHANGED <<clock, pairings, disk, minted, redeemed, revoked>>

(* authorize finds the device on the list.                                 *)
AdmitKnown(s) ==
  /\ run[s].phase = "admitting"
  /\ devices[run[s].dev] > run[s].now
  /\ IF TouchDue(run[s].now)
     THEN Save(writes, devices, s) /\ Step(s, "saving") /\ UNCHANGED <<live, peersVars>>
     ELSE Attach(writes, s)
  /\ UNCHANGED <<clock, devices, pairings, disk, minted, history>>

(* authorize admits a new device by its code; connections left from an     *)
(* earlier pairing of the same key are closed.                             *)
AdmitByCode(s) ==
  LET d == run[s].dev
      t == run[s].token
      list == [devices EXCEPT ![d] = run[s].now + DeviceTtl] IN
  /\ run[s].phase = "admitting"
  /\ devices[d] <= run[s].now /\ CodeWorks(t, run[s].now)
  /\ Redeem(t)
  /\ devices' = list
  /\ HangUp({d}, s, [run[s] EXCEPT !.phase = "saving"])
  /\ Save(writes, list, s)
  /\ redeemed' = [redeemed EXCEPT ![t] = @ \cup {d}]
  /\ revoked' = revoked \ {d}
  /\ Overtake({})
  /\ UNCHANGED <<clock, disk, minted>>

(* authorize returns null, having used up an expired code.                 *)
TurnAway(s) ==
  /\ run[s].phase = "admitting"
  /\ devices[run[s].dev] <= run[s].now /\ ~CodeWorks(run[s].token, run[s].now)
  /\ Redeem(run[s].token)
  /\ Continue(s, Idle, {})
  /\ UNCHANGED <<clock, devices, live, lastWrite, writes, disk, minted, peersVars, history>>

(* The stream ends: the phone hangs up, the relay closes it, the link dies.*)
StreamEnds(s) ==
  /\ \/ /\ run[s].phase = "greeting"
        /\ Continue(s, Idle, {})
        /\ UNCHANGED <<live, lastWrite, writes, peersVars>>
     \/ /\ run[s].phase \in Authorizing /\ ~run[s].gone
        /\ Continue(s, [run[s] EXCEPT !.gone = TRUE], {})
        /\ UNCHANGED <<live, lastWrite, writes, peersVars>>
     \/ /\ run[s].phase = "connected"
        /\ Leave(writes, run[s].dev, s)
        /\ ReleaseAll({s})
        /\ Continue(s, Idle, {})
  /\ Overtake({})
  /\ UNCHANGED <<clock, devices, pairings, disk, minted, redeemed, revoked>>

-----------------------------------------------------------------------------
(* Mutant of Revoke: the whitelist is copied before the device is removed. *)
RevokeSavingFirst(d) ==
  /\ devices[d] # 0
  /\ devices' = Without({d})
  /\ HangUp({d}, None, Idle)
  /\ Save(writes, devices, d)
  /\ Overtake({d})
  /\ UNCHANGED <<clock, pairings, disk, minted, redeemed, revoked>>

(* Mutant of Revoke: only the record goes, the connections stay.           *)
RevokeRecordOnly(d) ==
  /\ devices[d] # 0
  /\ devices' = Without({d})
  /\ Save(writes, devices', d)
  /\ run' = run /\ Overtake({d})
  /\ UNCHANGED <<clock, live, pairings, disk, minted, redeemed, revoked, peersVars>>

(* The operator revokes a paired device and waits for the answer.  One     *)
(* that is not on the list is answered at once, with nothing done.         *)
Revoke(d) ==
  /\ devices[d] # 0
  /\ devices' = Without({d})
  /\ HangUp({d}, None, Idle)
  /\ Save(writes, Without({d}), d)
  /\ Overtake({d})
  /\ UNCHANGED <<clock, pairings, disk, minted, redeemed, revoked>>

(* The oldest write reaches the store, and whoever awaits it goes on.      *)
WriteLands ==
  /\ writes # <<>>
  /\ LET w == Head(writes)
         s == w.by
         queue == Tail(writes) IN
     /\ disk' = w.snap
     /\ \/ /\ s \in Session /\ run[s].phase = "expiring"
           /\ Step(s, "admitting")
           /\ NoSave(queue)
           /\ UNCHANGED <<live, peersVars, revoked>>
        \/ /\ s \in Session /\ run[s].phase = "saving"
           /\ Attach(queue, s)
           /\ UNCHANGED revoked
        \/ /\ s \notin Session
           /\ NoSave(queue)
           /\ revoked' = IF s \in Device /\ devices[s] = 0
                            /\ \A i \in 1..Len(queue) : queue[i].snap[s] = 0
                         THEN revoked \cup {s} ELSE revoked
           /\ UNCHANGED <<live, peersVars, run>>
  /\ Overtake({})
  /\ UNCHANGED <<clock, devices, pairings, minted, redeemed>>

(* Mutant of WriteFails: nobody hears of the failure.                      *)
WriteFailsSilently ==
  /\ writes # <<>>
  /\ NoSave(Tail(writes))
  /\ UNCHANGED <<clock, devices, pairings, live, disk, minted, peersVars, run, history>>

(* The oldest write fails: a run that awaits it ends with its stream, an   *)
(* operator is answered with the error.                                    *)
WriteFails ==
  /\ writes # <<>>
  /\ NoSave(Tail(writes))
  /\ Continue(Head(writes).by, Idle, {})
  /\ Overtake({})
  /\ UNCHANGED <<clock, devices, pairings, live, disk, minted, peersVars, redeemed, revoked>>

(* The process ends and another one starts from what is stored.            *)
Restart ==
  /\ devices' = disk
  /\ pairings' = [t \in Token |-> 0]
  /\ live' = [d \in Device |-> {}]
  /\ lastWrite' = 0 /\ writes' = <<>>
  /\ ReleaseAll(Session)
  /\ run' = [s \in Session |-> Idle]
  /\ overtaken' = {}
  /\ UNCHANGED <<clock, disk, minted, redeemed, revoked>>

Next ==
  \/ \E s \in Session :
       \/ Open(s) \/ Rejected(s) \/ StreamEnds(s)
       \/ \E d \in Device, t \in minted \cup {None} : Hello(s, d, t)
       \/ AdmitKnown(s) \/ AdmitByCode(s) \/ TurnAway(s)
  \/ WriteLands \/ WriteFails \/ Restart
  \/ \E d \in Device : Revoke(d) \/ (Rename(d) /\ UNCHANGED <<peersVars, run, history>>)
  \/ \/ \E t \in Token : CreatePairing(t)
     \/ ActivePairing
     \/ Tick
     /\ UNCHANGED <<peersVars, run, history>>
  \/ \E p \in Peer : HarnessDisposes(p) /\ UNCHANGED <<registryVars, run, history>>

Spec == Init /\ [][Next]_vars

-----------------------------------------------------------------------------
(* "A phone cannot outlive its own revocation": whoever is connected is on *)
(* the whitelist.                                                          *)
RevokedIsGone == \A s \in Connected : devices[run[s].dev] # 0

(* What holds of the code: only a run whose device was removed while it    *)
(* awaited a save can have connected without being on the list.            *)
ConnectedIsPaired == \A s \in Connected \ overtaken : devices[run[s].dev] # 0

(* Presence, and the handles a revocation hangs up with, are exactly the   *)
(* open connections of the device: none is missed, none is left over.      *)
PresenceIsTrue ==
  \A d \in Device : live[d] = {s \in Connected : run[s].dev = d}

(* A pairing code admits at most one device, however many phones present   *)
(* it and however their handshakes interleave.                             *)
CodeAdmitsOne == \A t \in Token : Cardinality(redeemed[t]) <= 1

(* A device whose revocation was answered is on the stored whitelist       *)
(* neither now nor after the writes still in progress: no restart brings   *)
(* it back.                                                                *)
RevocationIsDurable ==
  \A d \in revoked : /\ devices[d] = 0 /\ disk[d] = 0
                     /\ \A i \in 1..Len(writes) : writes[i].snap[d] = 0

(* Every connection speaks as the Peer of its own device.                  *)
PeerIsOfDevice ==
  \A s \in Session : /\ s \in Connected => lease[s] # None /\ device[lease[s]] = run[s].dev
                     /\ s \notin Connected => lease[s] = None

(* Whoever awaits a save is woken exactly once: each run inside one of     *)
(* authorize's awaits has one write of its own on the way, whose success   *)
(* or failure goes on with it, and no write wakes a run that is elsewhere. *)
(* A stream is admitted or closed as long as the store answers.            *)
SaversAreWoken ==
  \A s \in Session :
    Cardinality({i \in 1..Len(writes) : writes[i].by = s})
      = IF run[s].phase \in {"expiring", "saving"} THEN 1 ELSE 0

(* The last write on its way carries the whitelist as it is now, whatever  *)
(* writes failed before it and whoever changed the list since: what a      *)
(* failed revocation left in the store is repaired by the next write of    *)
(* any kind that lands, though not by trying the revocation again.         *)
LastWriteIsTheList ==
  writes # <<>> => writes[Len(writes)].snap = devices

-----------------------------------------------------------------------------
(* The registry's books balance, whatever interleaves, fails or restarts:  *)
(* every field has its type, a Peer's count is the leases on it, each      *)
(* connection speaks as the Peer of its own device, and each awaited save  *)
(* has its one write.                                                      *)
BooksBalance == TypeOK /\ CountIsLeases /\ PeerIsOfDevice /\ SaversAreWoken

(* Connections of a device share one live Peer for as long as any of them  *)
(* lasts, also when the harness pulls it away and a new one takes its entry*)
(* while the old connections are still there.                              *)
PeersAreShared == OnePeerPerDevice /\ PeerLivesWhileHeld

-----------------------------------------------------------------------------
(* What AccessList sees of all this: who is on the list, the codes that    *)
(* still count, who is past the gate, who is connected, and the whitelists *)
(* the store has or is about to get.                                       *)
On(list)  == {d \in Device : list[d] # 0}
Listed    == On(devices)
LiveCodes == {t \in Token : pairings[t] # 0}
Admitted  == [s \in Session |-> IF run[s].phase = "saving" THEN run[s].dev ELSE None]
Inside    == [s \in Session |-> IF run[s].phase = "connected" THEN run[s].dev ELSE None]
Versions  == {On(disk)} \cup {On(writes[i].snap) : i \in 1..Len(writes)}

Access == INSTANCE AccessList WITH
  listed <- Listed, codes <- LiveCodes, issued <- minted, admitted <- Admitted,
  inside <- Inside, versions <- Versions, told <- revoked

(* All of it together, whatever interleaves: nobody connects who did not   *)
(* pass the gate while on the list or with a live code, removal ends what  *)
(* is connected in the same step, no code is honoured twice, and no        *)
(* restart undoes an answered revocation.                                  *)
IsAnAccessList == Access!Spec

=============================================================================
