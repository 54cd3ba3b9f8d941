----------------------------- MODULE Handshake -----------------------------
(***************************************************************************)
(* The Noise handshakes of src/src/noise.ts, token by token: IK between a  *)
(* phone and the bridge, XX between the bridge and the relay.              *)
(*                                                                         *)
(* Keys are names, a Diffie-Hellman result is the set of the two keys, a   *)
(* hash the sequence of what was mixed into it, a chaining key the         *)
(* sequence of the results, and a ciphertext keeps the key, nonce, hash    *)
(* and plaintext it was made of.  The two sides may disagree on the        *)
(* prologue, an IK initiator may hold an outdated key of the responder,    *)
(* and a message may arrive damaged or cut short.                          *)
(***************************************************************************)
EXTENDS Naturals, Sequences, FiniteSets, SequencesExt

CONSTANT Pattern  \* "XX" and "IK", or one of them
ASSUME PatternAssumption == Pattern \subseteq {"XX", "IK"}

VARIABLES
  pattern,
  hs,      \* per party: the fields of its Handshake
  wire,    \* messages written, as they arrive
  harm,    \* history: was anything mismatched or damaged
  sealed   \* history: every ciphertext made

vars == <<pattern, hs, wire, harm, sealed>>

Party    == {"initiator", "responder"}
Other(p) == CHOOSE q \in Party : q # p
None     == <<"nobody", "none">>
Static(p)    == <<p, "static">>
Ephemeral(p) == <<p, "ephemeral">>
Plain(x) == [plain |-> x]
Junk     == Plain(<<"nobody", "junk">>)

(* Mutant of Messages: IK's tokens in the order of another pattern.        *)
MessagesReordered(pat) ==
  IF pat = "XX" THEN <<<<"e">>, <<"e", "ee", "s", "es">>, <<"s", "se">>>>
  ELSE <<<<"es", "e", "s", "ss">>, <<"e", "ee", "se">>>>

(* PATTERNS.                                                               *)
Messages(pat) ==
  IF pat = "XX" THEN <<<<"e">>, <<"e", "ee", "s", "es">>, <<"s", "se">>>>
  ELSE <<<<"e", "es", "s", "ss">>, <<"e", "ee", "se">>>>

-----------------------------------------------------------------------------
MixHash(s, item) == [s EXCEPT !.hash = Append(@, item)]

(* Mutant of MixKey: the nonce is not reset with the key.                  *)
MixKeyKeepingNonce(s, ikm) == [s EXCEPT !.ck = Append(@, ikm), !.key = Append(s.ck, ikm)]

(* A new chaining key, and a CipherState of its own for the new key.       *)
MixKey(s, ikm) == [s EXCEPT !.ck = Append(@, ikm), !.key = Append(s.ck, ikm), !.nonce = 0]

HasKey(s) == s.key # <<>>

(* What encryptAndHash makes of `text`; without a key it is the text.      *)
Cipher(s, text) ==
  IF HasKey(s) THEN [key |-> s.key, n |-> s.nonce, ad |-> s.hash, text |-> text] ELSE Plain(text)

(* Mutant of Opens: `decipher.final` is forgotten, and the tag with it.    *)
OpensUnchecked(s, c) == TRUE

(* Does decryptAndHash get a plaintext out of c?                           *)
Opens(s, c) == ~HasKey(s) \/ ("key" \in DOMAIN c /\ c = Cipher(s, c.text))
Text(c) == IF "key" \in DOMAIN c THEN c.text ELSE c.plain

(* Mutant of Advance: only a sender counts.                                *)
AdvanceSender(p, s, c) ==
  MixHash([s EXCEPT !.nonce = IF HasKey(s) /\ (s.index % 2 = 0) = (p = "initiator") THEN @ + 1 ELSE @], c)

(* Both end with a nonce used up and the ciphertext hashed.                *)
Advance(p, s, c) == MixHash([s EXCEPT !.nonce = IF HasKey(s) THEN @ + 1 ELSE @], c)

(* `dhFor`: the two keys of a token, or {} if one is missing.  es is       *)
(* always initiator-ephemeral with responder-static, se the reverse.       *)
DhFor(p, s, token) ==
  LET pair(own, far) == IF None \in {own, far} THEN {} ELSE {own, far} IN
  CASE token = "ee" -> pair(s.e, s.re)
    [] token = "ss" -> pair(Static(p), s.rs)
    [] token \in {"es", "se"} /\ (token = "es") = (p = "initiator") -> pair(s.e, s.rs)
    [] OTHER -> pair(Static(p), s.re)

(* One token while writing; acc: state, parts, and has it thrown.          *)
WriteToken(p, acc, token) ==
  LET s == acc.s IN
  IF ~acc.ok THEN acc
  ELSE CASE token = "e" -> [acc EXCEPT !.s = MixHash([s EXCEPT !.e = Ephemeral(p)], Plain(Ephemeral(p))),
                                       !.parts = Append(@, Plain(Ephemeral(p)))]
         [] token = "s" -> [acc EXCEPT !.s = Advance(p, s, Cipher(s, Static(p))),
                                       !.parts = Append(@, Cipher(s, Static(p)))]
         [] OTHER -> IF DhFor(p, s, token) = {} THEN [acc EXCEPT !.ok = FALSE]
                     ELSE [acc EXCEPT !.s = MixKey(s, DhFor(p, s, token))]

(* One token while reading; parts: what is left of the message.            *)
ReadToken(p, acc, token) ==
  LET s == acc.s  c == Head(acc.parts) IN
  IF ~acc.ok THEN acc
  ELSE IF token \notin {"e", "s"}
       THEN IF DhFor(p, s, token) = {} THEN [acc EXCEPT !.ok = FALSE]
            ELSE [acc EXCEPT !.s = MixKey(s, DhFor(p, s, token))]
  ELSE IF acc.parts = <<>> \/ (token = "s" /\ ~Opens(s, c)) THEN [acc EXCEPT !.ok = FALSE]
  ELSE [acc EXCEPT !.parts = Tail(@),
                   !.s = IF token = "e" THEN MixHash([s EXCEPT !.re = Text(c)], c)
                         ELSE Advance(p, [s EXCEPT !.rs = Text(c)], c)]

-----------------------------------------------------------------------------
Tokens(p)   == Messages(pattern)[hs[p].index + 1]
Complete(p) == hs[p].index = Len(Messages(pattern))

(* Mutant of WriteTurn: both sides take even messages for their own.       *)
WriteTurnUnflipped(p) == hs[p].index % 2 = 0

WriteTurn(p) == hs[p].index % 2 = (IF p = "initiator" THEN 0 ELSE 1)

(* Mutant of Start: the prologue is left out.                              *)
StartWithoutPrologue(pat, prologue, preShared, rs) ==
  [ck |-> <<{<<pat, "name">>}>>, hash |-> <<Plain(<<pat, "name">>)>> \o preShared,
   key |-> <<>>, nonce |-> 0, e |-> None, re |-> None, rs |-> rs, index |-> 0, failed |-> FALSE]

(* The constructor.                                                        *)
Start(pat, prologue, preShared, rs) ==
  [ck |-> <<{<<pat, "name">>}>>,
   hash |-> <<Plain(<<pat, "name">>), Plain(<<prologue, "prologue">>)>> \o preShared,
   key |-> <<>>, nonce |-> 0, e |-> None, re |-> None, rs |-> rs, index |-> 0, failed |-> FALSE]

Init ==
  \E pat \in Pattern, mine \in {"same", "other"}, known \in {Static("responder"), <<"nobody", "static">>} :
    LET mixed(k) == IF pat = "IK" THEN <<Plain(k)>> ELSE <<>>
        held == IF pat = "IK" THEN known ELSE None IN
    /\ pattern = pat /\ wire = <<>> /\ sealed = {}
    /\ hs = [p \in Party |->
               IF p = "initiator" THEN Start(pat, mine, mixed(known), held)
               ELSE Start(pat, "same", mixed(Static(p)), None)]
    /\ harm = (mine = "other" \/ (pat = "IK" /\ known # Static("responder")))

(* `write`, and the message as it arrives: whole, with one part damaged,   *)
(* or cut after one.                                                       *)
Write(p) ==
  LET done    == FoldLeft(LAMBDA acc, token : WriteToken(p, acc, token),
                          [s |-> hs[p], parts |-> <<>>, ok |-> TRUE], Tokens(p))
      payload == Cipher(done.s, <<p, "payload">>)
      message == Append(done.parts, payload)
  IN
  /\ ~hs[p].failed /\ ~Complete(p) /\ WriteTurn(p)
  /\ hs' = [hs EXCEPT ![p] = IF ~done.ok THEN [done.s EXCEPT !.failed = TRUE]
                             ELSE [Advance(p, done.s, payload) EXCEPT !.index = @ + 1]]
  /\ sealed' = sealed \cup {c \in Range(message) : "key" \in DOMAIN c}
  /\ \/ ~done.ok /\ UNCHANGED <<wire, harm>>
     \/ done.ok /\ wire' = Append(wire, message) /\ UNCHANGED harm
     \/ /\ done.ok /\ harm' = TRUE
        /\ \E k \in 1..Len(message) :
             wire' = Append(wire, [message EXCEPT ![k] = Junk]) \/ wire' = Append(wire, SubSeq(message, 1, k - 1))
  /\ UNCHANGED pattern

(* `read`.  A handshake that throws is abandoned by its caller.            *)
Read(p) ==
  LET done == FoldLeft(LAMBDA acc, token : ReadToken(p, acc, token),
                       [s |-> hs[p], parts |-> wire[hs[p].index + 1], ok |-> TRUE], Tokens(p))
      ok == done.ok /\ done.parts # <<>> /\ Opens(done.s, Head(done.parts))
  IN
  /\ ~hs[p].failed /\ ~Complete(p) /\ ~WriteTurn(p) /\ hs[p].index < Len(wire)
  /\ hs' = [hs EXCEPT ![p] = IF ok THEN [Advance(p, done.s, Head(done.parts)) EXCEPT !.index = @ + 1]
                             ELSE [done.s EXCEPT !.failed = TRUE]]
  /\ UNCHANGED <<pattern, wire, harm, sealed>>

(* Mutant of Split: both sides take the keys in the same order.            *)
SplitUnswapped(p) == [send |-> Append(hs[p].ck, {"first"}), receive |-> Append(hs[p].ck, {"second"})]

(* `split`.                                                                *)
Split(p) ==
  LET first == Append(hs[p].ck, {"first"})  second == Append(hs[p].ck, {"second"}) IN
  IF p = "initiator" THEN [send |-> first, receive |-> second]
  ELSE [send |-> second, receive |-> first]

Next == \E p \in Party : Write(p) \/ Read(p)

Spec     == Init /\ [][Next]_vars
FairSpec == Spec /\ WF_vars(Next)

-----------------------------------------------------------------------------
TypeOK ==
  /\ pattern \in Pattern /\ harm \in BOOLEAN
  /\ Len(wire) <= Len(Messages(pattern))
  /\ \A p \in Party :
       /\ hs[p].index \in 0..Len(Messages(pattern)) /\ hs[p].nonce \in 0..2
       /\ hs[p].e \in {None, Ephemeral(p)}
       /\ hs[p].rs \in {None, Static(Other(p)), <<"nobody", "static">>, <<"nobody", "junk">>}

(* Two sides that both complete have the same transcript and hold the same *)
(* keys crosswise, each knows the other's static key, and nothing was      *)
(* mismatched or damaged on the way.                                       *)
Agreement ==
  (\A p \in Party : Complete(p)) =>
    /\ hs["initiator"].hash = hs["responder"].hash
    /\ Split("initiator").send = Split("responder").receive
    /\ Split("initiator").receive = Split("responder").send
    /\ \A p \in Party : hs[p].rs = Static(Other(p)) /\ Split(p).send # Split(p).receive
    /\ ~harm

(* Who completes alone, because it wrote the last message, has still heard *)
(* the other on the transcript as it was, up to that message.              *)
LastWordIsSound ==
  \A p \in Party : Complete(p) =>
    /\ hs[p].rs = Static(Other(p))
    /\ \E k \in 1..Len(hs[p].hash) :
         /\ k <= Len(hs[Other(p)].hash)
         /\ SubSeq(hs[p].hash, 1, k) = SubSeq(hs[Other(p)].hash, 1, k)
         /\ "key" \in DOMAIN hs[p].hash[k] /\ hs[p].hash[k].text = <<Other(p), "payload">>

(* Whoever completes is right about the other, together or alone.          *)
CompleteIsSound == TypeOK /\ Agreement /\ LastWordIsSound

(* No key and nonce ever seal two things, although both sides use the same *)
(* handshake keys in turn.                                                 *)
NonceOnce == \A a, b \in sealed : a.key = b.key /\ a.n = b.n => a = b

(* Nothing but harm keeps the two from completing: the tokens never ask    *)
(* for a key that is not there, and both sides count their nonces alike.   *)
Completes == <>(harm \/ \A p \in Party : Complete(p))

=============================================================================
