----------------------------- MODULE AccessList -----------------------------
(***************************************************************************)
(* What pairing promises (src/src/store.ts with src/src/session.ts): who   *)
(* may connect, told without queues, clocks and streams.                   *)
(*                                                                         *)
(* A device gets on the list by a code, which admits no second one.  A     *)
(* connection passes the gate while its device is on the list, and enters  *)
(* then or later; taking a device off the list ends its connections, but   *)
(* calls nobody back who is past the gate.  The list is stored behind its  *)
(* back: a new life of the bridge starts from any version that is stored   *)
(* or on its way, and a revocation is answered when none of them has the   *)
(* device.                                                                 *)
(***************************************************************************)
CONSTANTS Session, Device, Token, None

VARIABLES
  listed,    \* devices on the whitelist
  codes,     \* pairing codes that would still be honoured
  issued,    \* codes ever handed out
  admitted,  \* per connection: its device, past the gate and not connected yet
  inside,    \* per connection: its device, connected
  versions,  \* whitelists stored, or on their way to the store
  told       \* devices whose revocation was answered, not paired again since

vars == <<listed, codes, issued, admitted, inside, versions, told>>

Nobody == [s \in Session |-> None]

Init ==
  /\ listed \subseteq Device /\ versions = {listed}
  /\ codes = {} /\ issued = {} /\ told = {}
  /\ admitted = Nobody /\ inside = Nobody

(* Versions only ever come from the list, and something is always stored.  *)
Stores == versions' \subseteq versions \cup {listed'} /\ versions' # {}

(* The connections of no device in D remain.                               *)
HangUp(D) == inside' = [s \in Session |-> IF inside[s] \in D THEN None ELSE inside[s]]

-----------------------------------------------------------------------------
Issue(t) ==
  /\ t \notin issued /\ issued' = issued \cup {t} /\ codes' = {t}
  /\ UNCHANGED <<listed, admitted, inside, versions, told>>

Lapse ==
  /\ codes' \subseteq codes
  /\ UNCHANGED <<listed, issued, admitted, inside, versions, told>>

(* A device on the list is let through.                                    *)
Recognise(s, d) ==
  /\ admitted[s] = None /\ inside[s] = None /\ d \in listed
  /\ \/ admitted' = [admitted EXCEPT ![s] = d] /\ UNCHANGED inside
     \/ inside' = [inside EXCEPT ![s] = d] /\ UNCHANGED admitted
  /\ Stores /\ UNCHANGED <<listed, codes, issued, told>>

(* A device is put on the list by a code, which is spent; connections that *)
(* remain of an earlier pairing end.                                       *)
Pair(s, d, t) ==
  /\ admitted[s] = None /\ inside[s] = None /\ t \in codes
  /\ codes' = codes \ {t}
  /\ listed' = listed \cup {d} /\ told' = told \ {d}
  /\ admitted' = [admitted EXCEPT ![s] = d] /\ HangUp({d})
  /\ Stores /\ listed' \in versions' /\ UNCHANGED issued

Enter(s) ==
  /\ admitted[s] # None
  /\ admitted' = [admitted EXCEPT ![s] = None]
  /\ inside' = [inside EXCEPT ![s] = admitted[s]]
  /\ Stores /\ UNCHANGED <<listed, codes, issued, told>>

Go(s) ==
  /\ admitted' = [admitted EXCEPT ![s] = None]
  /\ inside' = [inside EXCEPT ![s] = None]
  /\ Stores /\ UNCHANGED <<listed, codes, issued, told>>

-----------------------------------------------------------------------------
(* Revoked or expired: off the list, and off the line.                     *)
Remove(D) ==
  /\ listed' = listed \ D /\ HangUp(D)
  /\ Stores /\ listed' \in versions'
  /\ UNCHANGED <<codes, issued, admitted, told>>

(* A revocation is answered: no version would bring the device back.       *)
Answer(d) ==
  /\ d \notin listed /\ told' = told \cup {d}
  /\ Stores /\ \A v \in versions' : d \notin v
  /\ UNCHANGED <<listed, codes, issued, admitted, inside>>

Store == Stores /\ UNCHANGED <<listed, codes, issued, admitted, inside, told>>

Restart ==
  /\ listed' \in versions /\ versions' = {listed'}
  /\ codes' = {} /\ admitted' = Nobody /\ inside' = Nobody
  /\ UNCHANGED <<issued, told>>

Next ==
  \/ \E t \in Token : Issue(t)
  \/ \E s \in Session, d \in Device :
       Recognise(s, d) \/ \E t \in Token : Pair(s, d, t)
  \/ \E s \in Session : Enter(s) \/ Go(s)
  \/ \E D \in SUBSET Device : Remove(D)
  \/ \E d \in Device : Answer(d)
  \/ Lapse \/ Store \/ Restart

Spec == Init /\ [][Next]_vars

=============================================================================
