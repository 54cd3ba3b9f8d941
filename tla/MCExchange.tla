----------------------------- MODULE MCExchange -----------------------------
(* Exchange with an operator who has put a control route on the allowlist. *)
EXTENDS Exchange

MCExtraAllowlist == {<<"api", "mobileBridge", "list">>, <<"api", "list">>}

=============================================================================
