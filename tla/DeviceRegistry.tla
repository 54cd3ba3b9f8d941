--------------------------- MODULE DeviceRegistry ---------------------------
(***************************************************************************)
(* DeviceRegistry of src/src/store.ts: who may connect (the whitelist),    *)
(* which pairing code is live, who is connected, and how all of that       *)
(* reaches the credential store.  Its methods are split where they await;  *)
(* Session composes the pieces with the streams they serve.                *)
(*                                                                         *)
(* `modifyRecord` of the credential provider is external: it is handed a   *)
(* whitelist copied when `save` was called and applies such writes one at  *)
(* a time, in the order of the calls; any of them may fail.  Labels and    *)
(* last-seen times are left out, the writes they cause are not.            *)
(***************************************************************************)
EXTENDS Phones, Integers, Sequences, FiniteSets

CONSTANTS
  Token,          \* pairing codes; `randomBytes` never yields one twice
  DeviceTtl,      \* ttlDays
  PairingTtl,     \* PAIRING_TTL_MS
  TouchInterval,  \* TOUCH_INTERVAL_MS
  MaxClock,       \* bound on Date.now()
  MaxWrites       \* bound on the writes a rename may add to

ASSUME RegistryAssumption ==
  /\ DeviceTtl \in Nat \ {0} /\ PairingTtl \in Nat \ {0}
  /\ TouchInterval \in Nat /\ MaxClock \in Nat /\ MaxWrites \in Nat
  /\ None \notin Token

VARIABLES
  clock,      \* Date.now()
  devices,    \* `this.devices`: expiresAt of a paired device, 0 if unpaired
  pairings,   \* `this.pairings`: expiresAt of a live code, 0 if there is none
  live,       \* `this.live`: the connections to hang up on, per device
  lastWrite,  \* `this.lastWrite`
  writes,     \* calls of modifyRecord not yet done: the whitelist each one
              \* writes, and who awaits it (a session, a revoked device, None)
  disk,       \* the whitelist in the credential store
  minted      \* codes createPairing has ever returned

registryVars == <<clock, devices, pairings, live, lastWrite, writes, disk, minted>>

Start     == TouchInterval + 1

RegistryTypeOK ==
  /\ clock \in Start..(Start + MaxClock) /\ lastWrite \in 0..(Start + MaxClock)
  /\ devices \in [Device -> Nat] /\ disk \in [Device -> Nat]
  /\ pairings \in [Token -> Nat] /\ minted \subseteq Token
  /\ live \in [Device -> SUBSET Session]
  /\ writes \in Seq([snap : [Device -> Nat], by : Session \cup Device \cup {None}])

(* `load`: whatever an earlier life of the bridge left in the store.       *)
RegistryInit ==
  /\ clock = Start /\ lastWrite = 0
  /\ disk \in [Device -> {0, Start, Start + DeviceTtl}]
  /\ devices = disk
  /\ pairings = [t \in Token |-> 0] /\ minted = {}
  /\ live = [d \in Device |-> {}]
  /\ writes = <<>>

-----------------------------------------------------------------------------
(* `save`: the whitelist is copied now and written after those in queue.   *)
Save(queue, list, by) ==
  /\ writes'    = Append(queue, [snap |-> list, by |-> by])
  /\ lastWrite' = clock

NoSave(queue) == writes' = queue /\ UNCHANGED lastWrite

TouchDue(now) == now - lastWrite > TouchInterval

Expired(now) == {d \in Device : devices[d] # 0 /\ devices[d] <= now}

Without(D) == [d \in Device |-> IF d \in D THEN 0 ELSE devices[d]]

(* The connections `disconnect` hangs up on, for every device in D.        *)
ConnectionsOf(D) == UNION {live[d] : d \in D}

Disconnect(D) == live' = [d \in Device |-> IF d \in D THEN {} ELSE live[d]]

(* The release `attach` returned, run when connection s of device d ends:  *)
(* the last one to leave is the "last seen" worth storing now and then.    *)
Leave(queue, d, s) ==
  /\ live' = [live EXCEPT ![d] = @ \ {s}]
  /\ IF live[d] \subseteq {s} /\ devices[d] # 0 /\ TouchDue(clock)
     THEN Save(queue, devices, None)
     ELSE NoSave(queue)

(* Mutant of Redeem: the code stays in the map.                            *)
RedeemKeeping(t) == UNCHANGED pairings

(* `consume`: a code that is found is gone, whether or not it still works. *)
Redeem(t) == pairings' = [u \in Token |-> IF u = t THEN 0 ELSE pairings[u]]

CodeWorks(t, now) == t # None /\ pairings[t] > now

-----------------------------------------------------------------------------
(* `createPairing`: a new code replaces any unused one.                    *)
CreatePairing(t) ==
  /\ t \notin minted
  /\ minted'   = minted \cup {t}
  /\ pairings' = [u \in Token |-> IF u = t THEN clock + PairingTtl ELSE 0]
  /\ UNCHANGED <<clock, devices, live, lastWrite, writes, disk>>

(* `activePairing`, asked for by every status request: a stale code goes.  *)
ActivePairing ==
  /\ pairings' = [t \in Token |-> IF pairings[t] <= clock THEN 0 ELSE pairings[t]]
  /\ UNCHANGED <<clock, devices, live, lastWrite, writes, disk, minted>>

(* `rename` stores the whole whitelist.                                    *)
Rename(d) ==
  /\ devices[d] # 0 /\ Len(writes) < MaxWrites
  /\ Save(writes, devices, None)
  /\ UNCHANGED <<clock, devices, pairings, live, disk, minted>>

Tick ==
  /\ clock < Start + MaxClock
  /\ clock' = clock + 1
  /\ UNCHANGED <<devices, pairings, live, lastWrite, writes, disk, minted>>

=============================================================================
