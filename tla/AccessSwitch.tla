---------------------------- MODULE AccessSwitch ----------------------------
(***************************************************************************)
(* What ProxyTunnel (src/src/tunnel.ts) promises the rest of the bridge:   *)
(* a switch for mobile access.  The link to the relay comes and goes by    *)
(* itself while the switch is on; cutting it takes the link down at once   *)
(* and keeps it down; turning it off is for good.                          *)
(***************************************************************************)

VARIABLES
  mode,  \* "on", "cut" (reversible: `suspend`) or "off" (`close`)
  up     \* does any link that can carry a phone's stream exist?

vars == <<mode, up>>

TypeOK == mode \in {"on", "cut", "off"} /\ up \in BOOLEAN

Init == mode = "on" /\ up = FALSE

Connect == mode = "on" /\ ~up /\ up' = TRUE /\ UNCHANGED mode
Lose    == up /\ up' = FALSE /\ UNCHANGED mode
Cut     == mode # "off" /\ mode' = "cut" /\ up' = FALSE
Restore == mode = "cut" /\ mode' = "on" /\ UNCHANGED up
Off     == mode' = "off" /\ up' = FALSE

Next == Connect \/ Lose \/ Cut \/ Restore \/ Off

Spec == Init /\ [][Next]_vars

(* With a relay that can be reached, a switch that stays on comes up.      *)
ComesUp  == WF_vars(Connect)
FairSpec == Spec /\ ComesUp

=============================================================================
