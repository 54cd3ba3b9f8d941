------------------------------- MODULE Phones -------------------------------
(***************************************************************************)
(* The names shared by the modules about phones and their connections.     *)
(***************************************************************************)
EXTENDS FiniteSets

CONSTANTS
  Session,  \* streams the relay opens; one phone connection each
  Device,   \* device ids: the phones' static public keys
  None      \* `undefined` or `null`

ASSUME PhonesAssumption ==
  /\ Session \cap Device = {} /\ None \notin Session \cup Device
  /\ IsFiniteSet(Session)

=============================================================================
