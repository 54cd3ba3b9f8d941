--------------------------- MODULE RemoteStreams ---------------------------
(***************************************************************************)
(* serveRemoteStreams of src/src/http.ts: the Gateway's Remote streams of  *)
(* one phone, multiplexed on one WebSocket, from the upgrade on.           *)
(*                                                                         *)
(* Run numbers the openings: two runs may bear the same stream id, one     *)
(* after the other.  External: the WebSocket (frames come in order, also   *)
(* after close() until the 'close' event), the Gateway behind wireStream   *)
(* (opens, yields, ends or throws when it likes) and the phone.            *)
(***************************************************************************)
EXTENDS UplinkInbox, FiniteSets

CONSTANTS StreamId, None

ASSUME NoneAssumption == None \notin Run

VARIABLES
  socket,    \* readyState: open, closing (close was called), closed
  disposed,  \* peer.signal.aborted
  streams,   \* the map: per stream id the run that is active, or None
  idOf,      \* the stream id a run was opened with
  pump,      \* where a run's pump is, see Stage
  aborted,   \* ActiveStream.abort of a run
  writes,    \* the chain of deliveries: runs, each with its kind of frame
  handed,    \* has socket.send been called for the first of them?
  settled    \* history: the phone has cancelled a run, or was sent its
             \* `end` or `error`

pumpVars == <<streams, idOf, pump, aborted>>
sendVars == <<writes, handed, settled>>
vars == <<socket, disposed, pumpVars, sendVars, inboxVars>>

(* unused; awaiting wireStream.open, the next value, the delivery of an    *)
(* item, of `end`, of `error`; awaiting the source's return; done.         *)
Stage == {"unused", "opening", "running", "item", "end", "error", "unwinding", "done"}
Live(r) == pump[r] \notin {"unused", "done"}

TypeOK ==
  /\ InboxTypeOK
  /\ socket \in {"open", "closing", "closed"} /\ disposed \in BOOLEAN
  /\ streams \in [StreamId -> Run \cup {None}] /\ idOf \in [Run -> StreamId \cup {None}]
  /\ pump \in [Run -> Stage] /\ aborted \in [Run -> BOOLEAN]
  /\ writes \in Seq([run : Run, kind : {"item", "end", "error"}])
  /\ handed \in BOOLEAN /\ (handed => writes # <<>>)
  /\ settled \in [Run -> BOOLEAN]

Init ==
  /\ InboxInit
  /\ socket = "open" /\ disposed = FALSE
  /\ streams = [i \in StreamId |-> None] /\ idOf = [r \in Run |-> None]
  /\ pump = [r \in Run |-> "unused"] /\ aborted = [r \in Run |-> FALSE]
  /\ writes = <<>> /\ handed = FALSE
  /\ settled = [r \in Run |-> FALSE]

-----------------------------------------------------------------------------
(* `stop` of every run in R.                                               *)
Stop(R) ==
  /\ aborted' = [r \in Run |-> r \in R \/ aborted[r]]
  /\ Fail(R)

Heard == socket # "closed"   \* 'message' events still come

(* `open` for an id that is not active; otherwise it is ignored.           *)
OnOpen(i, r) ==
  /\ Heard /\ streams[i] = None /\ pump[r] = "unused"
  /\ streams' = [streams EXCEPT ![i] = r] /\ idOf' = [idOf EXCEPT ![r] = i]
  /\ pump' = [pump EXCEPT ![r] = "opening"]
  /\ UNCHANGED <<socket, disposed, aborted, sendVars, inboxVars>>

(* `item`: what overflows the inbox aborts the stream.                     *)
OnItem(i, n) ==
  /\ Heard /\ streams[i] # None
  /\ \/ Push(streams[i], n) /\ UNCHANGED aborted
     \/ PushOver(streams[i], n) /\ aborted' = [aborted EXCEPT ![streams[i]] = TRUE]
  /\ UNCHANGED <<socket, disposed, streams, idOf, pump, sendVars>>

OnEnd(i) ==
  /\ Heard /\ streams[i] # None
  /\ End(streams[i])
  /\ UNCHANGED <<socket, disposed, pumpVars, sendVars>>

(* Mutant of OnCancel: the id is free again before the pump is done.       *)
OnCancelForgetting(i) ==
  /\ Heard /\ streams[i] # None
  /\ Stop({streams[i]})
  /\ streams' = [streams EXCEPT ![i] = None]
  /\ settled' = [settled EXCEPT ![streams[i]] = TRUE]
  /\ UNCHANGED <<socket, disposed, idOf, pump, writes, handed>>

(* `cancel`: stopped, but active until its pump is done.                   *)
OnCancel(i) ==
  /\ Heard /\ streams[i] # None
  /\ Stop({streams[i]})
  /\ settled' = [settled EXCEPT ![streams[i]] = TRUE]
  /\ UNCHANGED <<socket, disposed, streams, idOf, pump, writes, handed>>

(* A frame that is binary or not JSON.                                     *)
OnMalformed ==
  /\ socket = "open"
  /\ socket' = "closing"
  /\ UNCHANGED <<disposed, pumpVars, sendVars, inboxVars>>

(* The Peer is disposed: `hangUp`.                                         *)
PeerDisposed ==
  /\ ~disposed /\ disposed' = TRUE
  /\ socket' = IF socket = "open" THEN "closing" ELSE socket
  /\ UNCHANGED <<pumpVars, sendVars, inboxVars>>

(* Mutant of OnSocketClose: the map is cleared, nobody is stopped.         *)
OnSocketCloseForgetting ==
  /\ Heard
  /\ socket' = "closed"
  /\ streams' = [i \in StreamId |-> None]
  /\ UNCHANGED <<disposed, idOf, pump, aborted, sendVars, inboxVars>>

(* The 'close' event, whoever closed.                                      *)
OnSocketClose ==
  /\ Heard
  /\ socket' = "closed"
  /\ Stop({streams[i] : i \in StreamId} \ {None})
  /\ streams' = [i \in StreamId |-> None]
  /\ UNCHANGED <<disposed, idOf, pump, sendVars>>

-----------------------------------------------------------------------------
(* `send`: the frame joins the chain, the pump awaits its delivery.        *)
Send(r, kind) ==
  /\ writes' = Append(writes, [run |-> r, kind |-> kind])
  /\ pump' = [pump EXCEPT ![r] = kind]

(* The `finally` of a pump.                                                *)
Finally(r) ==
  /\ pump' = [pump EXCEPT ![r] = "done"]
  /\ streams' = [streams EXCEPT ![idOf[r]] = None]
  /\ Fail({r})

(* Mutant of Catch: the stream just ends, the phone is not told why.       *)
CatchQuietly(r) == Finally(r) /\ UNCHANGED writes

(* The `catch` of a pump: the phone is told, if it is still there and the  *)
(* run is not aborted, by whomever.                                        *)
Catch(r) ==
  IF ~aborted[r] /\ socket = "open"
  THEN Send(r, "error") /\ UNCHANGED <<streams, inboxVars>>
  ELSE Finally(r) /\ UNCHANGED writes

SourceOpens(r) ==
  /\ pump[r] = "opening" /\ pump' = [pump EXCEPT ![r] = "running"]
  /\ UNCHANGED <<socket, disposed, streams, idOf, aborted, sendVars, inboxVars>>

(* wireStream.open rejects, or the source throws.                          *)
SourceThrows(r) ==
  /\ pump[r] \in {"opening", "running"}
  /\ Catch(r)
  /\ UNCHANGED <<socket, disposed, idOf, aborted, handed, settled>>

SourceYields(r) ==
  /\ pump[r] = "running" /\ Send(r, "item")
  /\ UNCHANGED <<socket, disposed, streams, idOf, aborted, handed, settled, inboxVars>>

SourceEnds(r) ==
  /\ pump[r] = "running"
  /\ IF aborted[r] THEN Finally(r) /\ UNCHANGED writes
                   ELSE Send(r, "end") /\ UNCHANGED <<streams, inboxVars>>
  /\ UNCHANGED <<socket, disposed, idOf, aborted, handed, settled>>

(* The delivery at the head of the chain has its turn: socket.send.        *)
HandOver ==
  /\ writes # <<>> /\ ~handed /\ socket = "open"
  /\ handed' = TRUE
  /\ UNCHANGED <<socket, disposed, pumpVars, writes, settled, inboxVars>>

(* Mutant of Delivered: the turn is not passed on.                         *)
DeliveredKeepingTurn ==
  LET r == Head(writes).run  kind == Head(writes).kind IN
  /\ handed
  /\ writes' = Tail(writes)
  /\ IF kind = "item"
     THEN pump' = [pump EXCEPT ![r] = "running"] /\ UNCHANGED <<streams, settled, inboxVars>>
     ELSE settled' = [settled EXCEPT ![r] = TRUE] /\ Finally(r)
  /\ UNCHANGED <<socket, disposed, idOf, aborted, handed>>

(* It is written: the pump goes on.                                        *)
Delivered ==
  LET r == Head(writes).run  kind == Head(writes).kind IN
  /\ handed
  /\ handed' = FALSE /\ writes' = Tail(writes)
  /\ IF kind = "item"
     THEN pump' = [pump EXCEPT ![r] = "running"] /\ UNCHANGED <<streams, settled, inboxVars>>
     ELSE settled' = [settled EXCEPT ![r] = TRUE] /\ Finally(r)
  /\ UNCHANGED <<socket, disposed, idOf, aborted>>

(* The socket was not open, or socket.send failed.  An item interrupts the *)
(* for-await, whose source is asked to return; `end` goes to the catch;    *)
(* an error that cannot be delivered closes the socket.                    *)
Undelivered ==
  LET r == Head(writes).run  kind == Head(writes).kind  rest == Tail(writes) IN
  /\ writes # <<>> /\ (handed \/ socket # "open")
  /\ handed' = FALSE
  /\ \/ /\ kind = "item" /\ writes' = rest
        /\ pump' = [pump EXCEPT ![r] = "unwinding"]
        /\ UNCHANGED <<socket, streams, inboxVars>>
     \/ /\ kind = "end" /\ ~aborted[r] /\ socket = "open"
        /\ writes' = Append(rest, [run |-> r, kind |-> "error"])
        /\ pump' = [pump EXCEPT ![r] = "error"]
        /\ UNCHANGED <<socket, streams, inboxVars>>
     \/ /\ kind = "end" /\ (aborted[r] \/ socket # "open") /\ writes' = rest
        /\ Finally(r)
        /\ UNCHANGED socket
     \/ /\ kind = "error" /\ writes' = rest
        /\ Finally(r)
        /\ socket' = IF socket = "open" THEN "closing" ELSE socket
  /\ UNCHANGED <<disposed, idOf, aborted, settled>>

(* The source has returned: the for-await rethrows.                        *)
SourceReturns(r) ==
  /\ pump[r] = "unwinding"
  /\ Catch(r)
  /\ UNCHANGED <<socket, disposed, idOf, aborted, handed, settled>>

(* The Remote reads the inbox of its run.                                  *)
RemoteReads(r) ==
  /\ pump[r] # "unused" /\ (Pull(r) \/ Look(r))
  /\ UNCHANGED <<socket, disposed, pumpVars, sendVars>>

Next ==
  \/ \E i \in StreamId :
       \/ \E r \in Run : OnOpen(i, r)
       \/ \E n \in 1..MaxItem : OnItem(i, n)
       \/ OnEnd(i) \/ OnCancel(i)
  \/ OnMalformed \/ PeerDisposed \/ OnSocketClose
  \/ \E r \in Run :
       \/ SourceOpens(r) \/ SourceThrows(r) \/ SourceYields(r) \/ SourceEnds(r)
       \/ SourceReturns(r) \/ RemoteReads(r)
  \/ HandOver \/ Delivered \/ Undelivered

Spec == Init /\ [][Next]_vars

(* Deliveries settle and the loop of the inbox runs; a WebSocket that was  *)
(* told to close does so (ws destroys it when the phone does not answer);  *)
(* the Gateway settles what it opens and what it returns, and ends a       *)
(* source whose signal is aborted.                                         *)
FairSpec ==
  /\ Spec
  /\ WF_vars(HandOver) /\ WF_vars(Delivered \/ Undelivered)
  /\ WF_vars(socket = "closing" /\ OnSocketClose)
  /\ \A r \in Run :
       /\ WF_vars(SourceOpens(r)) /\ WF_vars(SourceReturns(r))
       /\ WF_vars(aborted[r] /\ (SourceEnds(r) \/ SourceThrows(r)))
       /\ WF_vars(reader[r] = "pulling" /\ RemoteReads(r))

-----------------------------------------------------------------------------
(* A pump that has not finished is the one its id leads to, so that the    *)
(* phone's items and cancel, and the socket's close, reach it: no other    *)
(* run's end or opening takes its place in the map.                        *)
LiveIsReachable ==
  Heard => \A r \in Run : Live(r) => streams[idOf[r]] = r

(* When the socket is gone every pump on it has been told to stop, and     *)
(* every Remote that waits for the phone's items with it.                  *)
CloseStopsAll ==
  ~Heard => \A r \in Run : Live(r) => aborted[r] /\ failed[r]

(* A stream that runs is always under somebody's control: the phone's, by  *)
(* the map, while the socket is heard, and afterwards it has been told to  *)
(* stop, with its inbox.                                                   *)
NoOrphans == LiveIsReachable /\ CloseStopsAll

(* The inboxes' books balance: every field has its type, the account is    *)
(* what is buffered and stays below the ceiling, and an iterator waits     *)
(* only while there is nothing it could be told.                           *)
BooksBalance == TypeOK /\ BytesAreItems /\ NoLostWakeup

(* An inbox that overflowed: what it refused stays on its account.         *)
Overran(r) == bytes[r] > MaxBytes

(* The phone is not left waiting but for an overflow: while its socket is  *)
(* open, a stream that is over is one it cancelled, or it was sent `end`   *)
(* or `error`, whatever failed in the source or on the way.  When an inbox *)
(* overflows the bridge aborts by itself, and tells the phone nothing.     *)
ToldUnlessOverrun ==
  socket = "open" =>
    \A r \in Run : pump[r] = "done" /\ ~Overran(r) => settled[r]

(* "A revoked or departed device cannot keep a stream open on a disposed   *)
(* Peer": every pump is done some time after the Peer is disposed, and     *)
(* stays so.                                                               *)
DisposedIsLeft == disposed ~> [](\A r \in Run : ~Live(r))

(* A Remote that reads its phone's items is not left reading for ever on a *)
(* stream that is over.                                                    *)
ReadersAreReleased == \A r \in Run : pump[r] = "done" ~> reader[r] \in {"idle", "over"}

=============================================================================
