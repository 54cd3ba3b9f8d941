---------------------------- MODULE UplinkInbox ----------------------------
(***************************************************************************)
(* UplinkInbox of src/src/http.ts: the items a phone sends up one logical  *)
(* stream, as the async iterable its Remote reads.  Run is the set of      *)
(* stream openings; each has an inbox of its own.  An item is known by the *)
(* bytes of the frame it came in.  The operators are parts of steps: those *)
(* of RemoteStreams, and Next of the Remote that reads.                    *)
(***************************************************************************)
EXTENDS Integers, Sequences

CONSTANTS
  Run,
  MaxBytes,  \* MAX_UPLINK_BYTES
  MaxItem    \* bound on the bytes of one item

ASSUME InboxAssumption == MaxBytes \in Nat /\ MaxItem \in Nat \ {0}

VARIABLES
  items,   \* #items
  bytes,   \* #bytes
  ended,   \* #ended
  failed,  \* #failure # undefined
  reader   \* the iterator: idle (not asked), pulling (asked, about to look),
           \* waiting (#waiter is set), over (returned or thrown)

inboxVars == <<items, bytes, ended, failed, reader>>

InboxTypeOK ==
  /\ items \in [Run -> Seq(1..MaxItem)]
  /\ bytes \in [Run -> Nat]
  /\ ended \in [Run -> BOOLEAN] /\ failed \in [Run -> BOOLEAN]
  /\ reader \in [Run -> {"idle", "pulling", "waiting", "over"}]

InboxInit ==
  /\ items = [r \in Run |-> <<>>] /\ bytes = [r \in Run |-> 0]
  /\ ended = [r \in Run |-> FALSE] /\ failed = [r \in Run |-> FALSE]
  /\ reader = [r \in Run |-> "idle"]

(* `#wake` of every inbox in R: the promise resolves, the iterator will    *)
(* look again once the current handler is done.                            *)
Wake(R) ==
  reader' = [r \in Run |-> IF r \in R /\ reader[r] = "waiting" THEN "pulling" ELSE reader[r]]

(* Mutant of Fail: an iterator that waits is not woken.                    *)
FailSilently(R) ==
  /\ failed' = [r \in Run |-> r \in R \/ failed[r]]
  /\ items'  = [r \in Run |-> IF r \in R /\ ~failed[r] THEN <<>> ELSE items[r]]
  /\ UNCHANGED <<bytes, ended, reader>>

(* `fail` of every inbox in R.                                             *)
Fail(R) ==
  /\ failed' = [r \in Run |-> r \in R \/ failed[r]]
  /\ items'  = [r \in Run |-> IF r \in R /\ ~failed[r] THEN <<>> ELSE items[r]]
  /\ Wake({r \in R : ~failed[r]})
  /\ UNCHANGED <<bytes, ended>>

Overflows(r, n) == bytes[r] + n > MaxBytes

(* `push`: nothing once ended or failed; past the ceiling the stream fails *)
(* and onOverflow is called (by the caller of this operator).              *)
Accepts(r) == ~ended[r] /\ ~failed[r]

Push(r, n) ==
  /\ Accepts(r) /\ ~Overflows(r, n)
  /\ bytes' = [bytes EXCEPT ![r] = @ + n]
  /\ items' = [items EXCEPT ![r] = Append(@, n)]
  /\ Wake({r})
  /\ UNCHANGED <<ended, failed>>

PushOver(r, n) ==
  /\ Accepts(r) /\ Overflows(r, n)
  /\ bytes' = [bytes EXCEPT ![r] = @ + n]
  /\ failed' = [failed EXCEPT ![r] = TRUE]
  /\ items' = [items EXCEPT ![r] = <<>>]
  /\ Wake({r})
  /\ UNCHANGED ended

(* Mutant of End: the iterator that waits is not woken.                    *)
EndSilently(r) ==
  /\ ended' = [ended EXCEPT ![r] = TRUE]
  /\ UNCHANGED <<items, bytes, failed, reader>>

(* `end`.                                                                  *)
End(r) ==
  /\ ended' = [ended EXCEPT ![r] = TRUE]
  /\ Wake({r})
  /\ UNCHANGED <<items, bytes, failed>>

(* The Remote asks the iterator for the next item.                         *)
Pull(r) ==
  /\ reader[r] = "idle"
  /\ reader' = [reader EXCEPT ![r] = "pulling"]
  /\ UNCHANGED <<items, bytes, ended, failed>>

(* Mutant of Look: what is taken stays on the account.                     *)
LookUncounted(r) ==
  /\ reader[r] = "pulling"
  /\ IF items[r] # <<>>
     THEN /\ items' = [items EXCEPT ![r] = Tail(@)]
          /\ reader' = [reader EXCEPT ![r] = "idle"]
     ELSE /\ reader' = [reader EXCEPT ![r] = IF failed[r] \/ ended[r] THEN "over" ELSE "waiting"]
          /\ UNCHANGED items
  /\ UNCHANGED <<bytes, ended, failed>>

(* One round of the iterator's loop: items first, then failure, then end.  *)
Look(r) ==
  /\ reader[r] = "pulling"
  /\ IF items[r] # <<>>
     THEN /\ items' = [items EXCEPT ![r] = Tail(@)]
          /\ bytes' = [bytes EXCEPT ![r] = @ - Head(items[r])]
          /\ reader' = [reader EXCEPT ![r] = "idle"]
     ELSE /\ reader' = [reader EXCEPT ![r] = IF failed[r] \/ ended[r] THEN "over" ELSE "waiting"]
          /\ UNCHANGED <<items, bytes>>
  /\ UNCHANGED <<ended, failed>>

-----------------------------------------------------------------------------
(* The bytes of all the items of q.                                        *)
Total(q) ==
  LET upTo[k \in 0..Len(q)] == IF k = 0 THEN 0 ELSE upTo[k - 1] + q[k]
  IN  upTo[Len(q)]

(* The account is what is buffered, and never passes the ceiling: one      *)
(* phone cannot grow host memory, and what was read is not charged again.  *)
BytesAreItems ==
  \A r \in Run : ~failed[r] => bytes[r] = Total(items[r]) /\ bytes[r] <= MaxBytes

(* No wake-up is lost: an iterator waits only when it has nothing to say,  *)
(* whatever order items, end, cancel and reads came in.                    *)
NoLostWakeup ==
  \A r \in Run : reader[r] = "waiting" => items[r] = <<>> /\ ~failed[r] /\ ~ended[r]
=============================================================================
