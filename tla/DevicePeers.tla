----------------------------- MODULE DevicePeers -----------------------------
(***************************************************************************)
(* DevicePeers of src/src/peers.ts: one harness Peer per device, shared by *)
(* every connection of that device and counted by them.  The first         *)
(* connection creates it, the last to go disposes it.                      *)
(*                                                                         *)
(* The harness can also dispose a Peer underneath its connections; the     *)
(* Peer objects themselves are its business (external), of which only      *)
(* `signal.aborted` is seen here.                                          *)
(***************************************************************************)
EXTENDS Phones, Integers, FiniteSets

CONSTANT Peer  \* Peer objects; a disposed one that nobody holds is used again

ASSUME PeersAssumption == None \notin Peer

VARIABLES
  entry,    \* #entries: the Peer each device shares, or None
  device,   \* the device an Entry was made for
  holders,  \* Entry.holders
  alive,    \* Peers created and not aborted
  lease,    \* the Peer each connection holds, or None once released
  pulled    \* history: Peers the harness disposed while they were held

peersVars == <<entry, device, holders, alive, lease, pulled>>

PeersTypeOK ==
  /\ entry \in [Device -> Peer \cup {None}]
  /\ device \in [Peer -> Device \cup {None}]
  /\ holders \in [Peer -> 0..Cardinality(Session)]
  /\ alive \subseteq Peer /\ pulled \subseteq Peer
  /\ lease \in [Session -> Peer \cup {None}]

PeersInit ==
  /\ entry = [d \in Device |-> None] /\ device = [p \in Peer |-> None]
  /\ holders = [p \in Peer |-> 0]
  /\ alive = {} /\ pulled = {}
  /\ lease = [c \in Session |-> None]

Spare == {p \in Peer : p \notin alive /\ holders[p] = 0}

(* `create`: a fresh Peer becomes the device's entry.                      *)
CreatePeer(d, p) ==
  /\ entry'  = [entry EXCEPT ![d] = p]
  /\ device' = [device EXCEPT ![p] = d]
  /\ alive'  = alive \cup {p}
  /\ pulled' = pulled \ {p}

(* Mutant of Acquire: a shared Peer is not counted again.                  *)
AcquireUncounted(c, d) ==
  \E p \in Peer :
    /\ IF entry[d] \in alive
       THEN p = entry[d] /\ UNCHANGED <<entry, device, alive, pulled, holders>>
       ELSE p \in Spare /\ CreatePeer(d, p) /\ holders' = [holders EXCEPT ![p] = 1]
    /\ lease' = [lease EXCEPT ![c] = p]

(* `acquire`: share the device's Peer unless it has none or lost it.       *)
Acquire(c, d) ==
  \E p \in Peer :
    /\ IF entry[d] \in alive
       THEN p = entry[d] /\ UNCHANGED <<entry, device, alive, pulled>>
       ELSE p \in Spare /\ CreatePeer(d, p)
    /\ holders' = [holders EXCEPT ![p] = @ + 1]
    /\ lease'   = [lease EXCEPT ![c] = p]

HeldBy(p, C) == {c \in C : lease[c] = p}

(* Mutant of ReleaseAll: any connection that goes takes the Peer with it.  *)
ReleaseEagerly(C) ==
  LET Last == {p \in Peer : HeldBy(p, C) # {}} IN
  /\ holders' = [p \in Peer |-> holders[p] - Cardinality(HeldBy(p, C))]
  /\ lease'   = [c \in Session |-> IF c \in C THEN None ELSE lease[c]]
  /\ entry'   = [d \in Device |-> IF entry[d] \in Last THEN None ELSE entry[d]]
  /\ device'  = [p \in Peer |-> IF p \in Last THEN None ELSE device[p]]
  /\ alive'   = alive \ Last
  /\ pulled'  = pulled \ Last

(* Mutant of ReleaseAll: the entry goes even if a newer Peer is in it.     *)
ReleaseAnyEntry(C) ==
  LET Last == {p \in Peer : HeldBy(p, C) # {} /\ holders[p] = Cardinality(HeldBy(p, C))} IN
  /\ holders' = [p \in Peer |-> holders[p] - Cardinality(HeldBy(p, C))]
  /\ lease'   = [c \in Session |-> IF c \in C THEN None ELSE lease[c]]
  /\ entry'   = [d \in Device |-> IF \E p \in Last : device[p] = d THEN None ELSE entry[d]]
  /\ device'  = [p \in Peer |-> IF p \in Last THEN None ELSE device[p]]
  /\ alive'   = alive \ Last
  /\ pulled'  = pulled \ Last

(* `release` of every lease in C, one after the other: whoever brings a    *)
(* count to zero disposes the Peer and removes the entry if it is still    *)
(* that Peer's.  A lease released before is released without effect.       *)
ReleaseAll(C) ==
  LET Last == {p \in Peer : HeldBy(p, C) # {} /\ holders[p] = Cardinality(HeldBy(p, C))} IN
  /\ holders' = [p \in Peer |-> holders[p] - Cardinality(HeldBy(p, C))]
  /\ lease'   = [c \in Session |-> IF c \in C THEN None ELSE lease[c]]
  /\ entry'   = [d \in Device |-> IF entry[d] \in Last THEN None ELSE entry[d]]
  /\ device'  = [p \in Peer |-> IF p \in Last THEN None ELSE device[p]]
  /\ alive'   = alive \ Last
  /\ pulled'  = pulled \ Last

(* The harness aborts a Peer that connections still hold.                  *)
HarnessDisposes(p) ==
  /\ p \in alive
  /\ alive'  = alive \ {p}
  /\ pulled' = pulled \cup {p}
  /\ UNCHANGED <<entry, device, holders, lease>>

-----------------------------------------------------------------------------
(* One Peer per device: the harness takes a phone's answer to a prompt     *)
(* only from the Peer that holds the phone's event stream, so connections  *)
(* of one device never speak through two live Peers.                       *)
OnePeerPerDevice ==
  \A p, q \in alive : device[p] = device[q] => p = q

(* A Peer outlives no connection, and no connection outlives its Peer      *)
(* unless the harness itself disposed it.                                  *)
PeerLivesWhileHeld ==
  \A p \in Peer : (\E c \in Session : lease[c] = p) <=> p \in alive \cup pulled

(* The count is the number of leases not yet given back.                   *)
CountIsLeases ==
  \A p \in Peer : holders[p] = Cardinality(HeldBy(p, Session))

=============================================================================
