---------------------------- MODULE NoiseSocket ----------------------------
(***************************************************************************)
(* NoiseSocket (src/src/duplex.ts): the decrypted side of a phone's        *)
(* connection, a Duplex over one mux stream, with the nonces of the two    *)
(* CipherStates of its NoiseTransport (src/src/noise.ts).                  *)
(*                                                                         *)
(* Outbound bytes are counted in mux payloads; a Noise message holds up to *)
(* MaxMsg of them and a payload costs one unit of credit.  Inbound a whole *)
(* message is the unit.  Code between two awaits that no I/O event can     *)
(* enter is one step.                                                      *)
(***************************************************************************)
EXTENDS Naturals, Sequences, FiniteSets

CONSTANTS
  Window,      \* WINDOW, in payloads
  MaxMsg,      \* MAX_NOISE_PLAINTEXT, in payloads
  MaxChunk,    \* bound: largest chunk written at once
  MaxWritten,  \* bound: payloads written in all
  MaxHeard     \* bound: messages the phone sends

ASSUME SizeAssumption ==
  /\ Window \in Nat \ {0} /\ MaxMsg \in Nat \ {0}
  /\ MaxChunk \in Nat /\ MaxWritten \in Nat /\ MaxHeard \in Nat

VARIABLES
  (* Writable: payloads accepted and not yet passed to _write; is a _write *)
  (* or _writev in progress; end() called; destroy() called.               *)
  buffered, busy, ending, destroyed,
  (* seal: payloads of the sealed message not yet sent, and of the chunk   *)
  (* not yet sealed; the nonce of the next message to seal.                *)
  sealed, rest, sendNonce,
  (* MuxStream and MuxLink: credit left, ended, is the link up.            *)
  credit, ended, up,
  (* pump: messages waiting in the stream's buffer, the nonce the next one *)
  (* must have, is pump over (`push(null)`).                               *)
  inbox, readNonce, eof

VARIABLES
  wire,    \* history: what was sent on the stream, payloads and CLOSE
  granted, \* how many payloads the relay has given credit back for
  written, \* history: payloads the consumer wrote
  said,    \* messages the phone has sent, its nonce
  good,    \* history: how many of them before the first damaged one
  heard,   \* history: the nonces of the messages pushed to the consumer
  hungUp   \* did the phone close, after all it had to say?

writeVars == <<buffered, busy, ending, sealed, rest, sendNonce, written>>
readVars  == <<inbox, readNonce, eof, said, good, heard>>
vars == <<writeVars, readVars, destroyed, credit, ended, up, wire, granted, hungUp>>

Piece == [n : Nat, last : BOOLEAN]
Shut(by) == [close |-> by]
IsClose(w) == "close" \in DOMAIN w
Payloads == {k \in 1..Len(wire) : ~IsClose(wire[k])}

TypeOK ==
  /\ buffered \in 0..MaxWritten /\ sealed \in 0..MaxMsg /\ rest \in 0..MaxWritten
  /\ busy \in BOOLEAN /\ ending \in BOOLEAN /\ destroyed \in BOOLEAN /\ ended \in BOOLEAN
  /\ up \in BOOLEAN /\ eof \in BOOLEAN /\ hungUp \in BOOLEAN
  /\ credit \in 0..Window /\ sendNonce \in Nat /\ readNonce \in 0..MaxHeard
  /\ inbox \in Seq([n : 0..MaxHeard, ok : BOOLEAN]) /\ said \in 0..MaxHeard /\ good \in 0..said
  /\ wire \in Seq(Piece \cup [close : {"final", "destroy", "pump"}])
  /\ granted \in 0..MaxWritten /\ written \in 0..MaxWritten /\ heard \in Seq(0..MaxHeard)
  /\ sealed + rest > 0 => busy

Init ==
  /\ buffered = 0 /\ sealed = 0 /\ rest = 0 /\ sendNonce = 0 /\ written = 0
  /\ busy = FALSE /\ ending = FALSE /\ destroyed = FALSE /\ ended = FALSE
  /\ up = TRUE /\ eof = FALSE /\ hungUp = FALSE
  /\ credit = Window /\ inbox = <<>> /\ readNonce = 0 /\ said = 0 /\ good = 0 /\ heard = <<>>
  /\ wire = <<>> /\ granted = 0

-----------------------------------------------------------------------------
Lesser(a, b) == IF a < b THEN a ELSE b
MessagesOf(n) == (n + MaxMsg - 1) \div MaxMsg

(* The payloads a seal has yet to send, when s of the message just sealed  *)
(* and r unsealed ones are left: each message takes the next nonce.        *)
Pieces(s, r) ==
  [k \in 1..(s + r) |->
     IF k <= s THEN [n |-> sendNonce - 1, last |-> k = s]
     ELSE [n |-> sendNonce + (k - s - 1) \div MaxMsg,
           last |-> (k - s) % MaxMsg = 0 \/ k = s + r]]

(* MuxStream.write: payloads leave while there is credit, also on a stream *)
(* that has ended; on a dead link they go nowhere.                         *)
Emit(pieces) == wire' = IF up THEN wire \o pieces ELSE wire

(* Mutant of SealOn: credit is taken for the whole chunk before it is      *)
(* there.                                                                  *)
SealOverdraws(s, r) ==
  /\ credit' = credit - s - r
  /\ Emit(Pieces(s, r))
  /\ busy' = FALSE /\ sealed' = 0 /\ rest' = 0
  /\ sendNonce' = sendNonce + MessagesOf(r)

(* `seal`, with s and r payloads left, until it is done or parked.  The    *)
(* message that does not fit has its nonce before it waits.  On an ended   *)
(* stream nothing waits: what does not fit is dropped without an error.    *)
SealOn(s, r) ==
  LET sent   == Lesser(credit, s + r)
      opened == IF sent < s THEN 0 ELSE MessagesOf(sent - s + 1)
      after  == Lesser(opened * MaxMsg, r)
  IN  /\ credit' = credit - sent
      /\ Emit(SubSeq(Pieces(s, r), 1, sent))
      /\ \/ /\ sent = s + r \/ ended
            /\ busy' = FALSE /\ sealed' = 0 /\ rest' = 0
            /\ sendNonce' = sendNonce + MessagesOf(r)
         \/ /\ sent < s + r /\ ~ended
            /\ busy' = TRUE
            /\ sendNonce' = sendNonce + opened
            /\ sealed' = s + after - sent
            /\ rest' = r - after

(* MuxStream.close.                                                        *)
CloseStream(by) ==
  /\ ended' = TRUE
  /\ wire' = IF up /\ ~ended THEN Append(wire, Shut(by)) ELSE wire

(* Mutant of Write: `_write` calls back before its write is over, so the   *)
(* next one takes the credit that the parked one waits for.                *)
WriteAtOnce(n) ==
  /\ ~ending /\ ~destroyed /\ written + n <= MaxWritten
  /\ written' = written + n
  /\ IF busy
     THEN /\ credit > 0 /\ credit' = credit - 1
          /\ Emit(<<[n |-> sendNonce, last |-> TRUE]>>)
          /\ sendNonce' = sendNonce + 1
          /\ UNCHANGED <<busy, sealed, rest>>
     ELSE SealOn(0, n)
  /\ UNCHANGED <<readVars, buffered, ending, destroyed, ended, up, granted, hungUp>>

(* The consumer writes: _write at once, or later with all else that waits. *)
Write(n) ==
  /\ ~ending /\ ~destroyed /\ written + n <= MaxWritten
  /\ written' = written + n
  /\ IF busy
     THEN buffered' = buffered + n /\ UNCHANGED <<busy, sealed, rest, sendNonce, credit, wire>>
     ELSE SealOn(0, n) /\ UNCHANGED buffered
  /\ UNCHANGED <<readVars, ending, destroyed, ended, up, granted, hungUp>>

(* Mutant of SealResumes: the end of the stream wakes no writer.           *)
SealWaitsForCredit ==
  /\ sealed > 0 /\ credit > 0
  /\ SealOn(sealed, rest)
  /\ UNCHANGED <<readVars, buffered, ending, written, destroyed, ended, up, granted, hungUp>>

(* A parked seal is woken, by credit or by the end of the stream.          *)
SealResumes ==
  /\ sealed > 0 /\ (credit > 0 \/ ended)
  /\ SealOn(sealed, rest)
  /\ UNCHANGED <<readVars, buffered, ending, written, destroyed, ended, up, granted, hungUp>>

(* `done` was called: what has been buffered meanwhile goes to _writev as  *)
(* one chunk, unless the socket was destroyed, which drops it.             *)
Drain ==
  /\ ~busy /\ buffered > 0
  /\ buffered' = 0
  /\ IF destroyed THEN UNCHANGED <<busy, sealed, rest, sendNonce, credit, wire>>
     ELSE SealOn(0, buffered)
  /\ UNCHANGED <<readVars, ending, written, destroyed, ended, up, granted, hungUp>>

EndSocket ==
  /\ ~ending /\ ~destroyed
  /\ ending' = TRUE
  /\ UNCHANGED <<readVars, buffered, busy, sealed, rest, sendNonce, written,
                 destroyed, credit, ended, up, wire, granted, hungUp>>

(* Mutant of Final: the stream is closed without waiting for the writes.   *)
FinalAtOnce ==
  /\ ending /\ ~destroyed /\ ~ended
  /\ CloseStream("final")
  /\ UNCHANGED <<writeVars, readVars, destroyed, credit, up, granted, hungUp>>

(* `_final`, which a Writable calls once every write has called back.      *)
Final ==
  /\ ending /\ ~destroyed /\ ~ended /\ ~busy /\ buffered = 0
  /\ CloseStream("final")
  /\ UNCHANGED <<writeVars, readVars, destroyed, credit, up, granted, hungUp>>

(* `_destroy`: by node:http, or by a revocation.  A seal in progress is    *)
(* not stopped; it is woken by the end of the stream.                      *)
Destroy ==
  /\ ~destroyed
  /\ destroyed' = TRUE
  /\ CloseStream("destroy")
  /\ UNCHANGED <<writeVars, readVars, credit, up, granted, hungUp>>

-----------------------------------------------------------------------------
(* Mutant of Pump: a message that does not open is skipped.                *)
PumpSkipping ==
  /\ ~eof /\ inbox # <<>>
  /\ inbox' = Tail(inbox)
  /\ readNonce' = readNonce + 1
  /\ heard' = IF Head(inbox).ok THEN Append(heard, Head(inbox).n) ELSE heard
  /\ UNCHANGED <<writeVars, eof, said, good, destroyed, credit, ended, up, wire, granted, hungUp>>

(* Mutant of PumpEnds: the end of the stream is looked at before what is   *)
(* still buffered.                                                         *)
PumpEndsFirst ==
  /\ ~eof /\ ended
  /\ eof' = TRUE
  /\ UNCHANGED <<writeVars, inbox, readNonce, said, good, heard, destroyed, credit, ended, up, wire, granted, hungUp>>

(* Mutant of PumpEnds: only the phone's CLOSE settles a waiting read.      *)
PumpEndsByPhone ==
  /\ ~eof /\ hungUp /\ inbox = <<>>
  /\ eof' = TRUE
  /\ UNCHANGED <<writeVars, inbox, readNonce, said, good, heard, destroyed, credit, ended, up, wire, granted, hungUp>>

(* `pump` reads a message and opens it under the next nonce.  A destroyed  *)
(* Readable takes nothing.  One that does not open ends the connection.    *)
Pump ==
  /\ ~eof /\ inbox # <<>>
  /\ inbox' = Tail(inbox)
  /\ readNonce' = readNonce + 1
  /\ \/ /\ Head(inbox).ok /\ Head(inbox).n = readNonce
        /\ heard' = IF destroyed THEN heard ELSE Append(heard, Head(inbox).n)
        /\ UNCHANGED <<eof, ended, wire>>
     \/ /\ ~(Head(inbox).ok /\ Head(inbox).n = readNonce)
        /\ eof' = TRUE
        /\ CloseStream("pump")
        /\ UNCHANGED heard
  /\ UNCHANGED <<writeVars, said, good, destroyed, credit, up, granted, hungUp>>

(* `readExactly` takes what is buffered before it looks at the end.        *)
PumpEnds ==
  /\ ~eof /\ ended /\ inbox = <<>>
  /\ eof' = TRUE
  /\ UNCHANGED <<writeVars, inbox, readNonce, said, good, heard, destroyed, credit, ended, up, wire, granted, hungUp>>

-----------------------------------------------------------------------------
(* The phone's messages come one by one, in order, whole or damaged.       *)
PhoneSays(ok) ==
  /\ up /\ ~hungUp /\ said < MaxHeard
  /\ said' = said + 1
  /\ good' = IF ok /\ good = said THEN said + 1 ELSE good
  /\ inbox' = Append(inbox, [n |-> said, ok |-> ok])
  /\ UNCHANGED <<writeVars, readNonce, eof, heard, destroyed, credit, ended, up, wire, granted, hungUp>>

PhoneHangsUp ==
  /\ up /\ ~hungUp
  /\ hungUp' = TRUE /\ ended' = TRUE
  /\ UNCHANGED <<writeVars, readVars, destroyed, credit, up, wire, granted>>

LinkDies ==
  /\ up
  /\ up' = FALSE /\ ended' = TRUE
  /\ UNCHANGED <<writeVars, readVars, destroyed, credit, wire, granted, hungUp>>

RelayGrants ==
  /\ up /\ ~hungUp /\ granted < Cardinality(Payloads)
  /\ granted' = granted + 1 /\ credit' = credit + 1
  /\ UNCHANGED <<writeVars, readVars, destroyed, ended, up, wire, hungUp>>

Next ==
  \/ \E n \in 1..MaxChunk : Write(n)
  \/ SealResumes \/ Drain \/ EndSocket \/ Final \/ Destroy
  \/ Pump \/ PumpEnds
  \/ \E ok \in BOOLEAN : PhoneSays(ok)
  \/ PhoneHangsUp \/ LinkDies \/ RelayGrants

Spec == Init /\ [][Next]_vars

(* Promises settle, a Writable goes on after each write, and the relay     *)
(* gives back the credit of what it has passed on.                         *)
FairSpec ==
  /\ Spec
  /\ WF_vars(SealResumes) /\ WF_vars(Drain) /\ WF_vars(Final)
  /\ WF_vars(Pump) /\ WF_vars(PumpEnds) /\ WF_vars(RelayGrants)

-----------------------------------------------------------------------------
(* The phone can open whatever comes before CLOSE: nonces follow each      *)
(* other on the wire and no message is mixed into another, however writes  *)
(* pile up behind a window that is full.                                   *)
SealedInOrder ==
  LET closes == {k \in 1..Len(wire) : IsClose(wire[k])} IN
  \A k \in 1..Len(wire) :
    (\A c \in closes : k < c) =>
      wire[k].n = IF k = 1 THEN 0 ELSE wire[k-1].n + (IF wire[k-1].last THEN 1 ELSE 0)

(* A socket that was ended, and not cut short, has sent all that was       *)
(* written to it, in whole messages, before its CLOSE.                     *)
EndedIsWhole ==
  \A k \in 1..Len(wire) :
    wire[k] = Shut("final") => k = written + 1 /\ (k > 1 => wire[k-1].last)

(* The consumer gets the phone's messages without a gap: after one that    *)
(* does not open there is nothing more, although the nonce has moved on.   *)
HeardWithoutGaps == \A k \in 1..Len(heard) : heard[k] = k - 1

(* A phone that hangs up is heard to its last message, or to the first     *)
(* damaged one, before the consumer sees the end, unless the consumer gave *)
(* the connection up.                                                      *)
HeardToTheEnd ==
  eof /\ hungUp /\ ~destroyed /\ (\A k \in 1..Len(wire) : wire[k] # Shut("final")) =>
    Len(heard) = good

(* What each end of the connection gets: the phone, from the socket ...    *)
PhoneHears  == SealedInOrder /\ EndedIsWhole

(* ... and the bridge's consumer, from the pump.                           *)
BridgeHears == HeardWithoutGaps /\ HeardToTheEnd

(* Nobody waits on the socket for ever: every write calls back, and the    *)
(* consumer is told of every end, whichever side it came from.             *)
WaitsEnd == (busy ~> ~busy) /\ (ended ~> eof)

=============================================================================
