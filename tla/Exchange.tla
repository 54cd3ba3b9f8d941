------------------------------ MODULE Exchange ------------------------------
(***************************************************************************)
(* One phone request and its answer: `serve` of src/src/http.ts, with the  *)
(* response of node:http and the signal it hands to the harness, and the   *)
(* same request as a frame of the RPC pipe (`dispatchCall`, rpc.ts).       *)
(*                                                                         *)
(* Bodies are counted in chunks.  Headers are chosen where they are read.  *)
(* The harness (external) answers, yields, ends and fails as it likes; it  *)
(* declares no false content-length.                                       *)
(***************************************************************************)
EXTENDS Policy

CONSTANTS
  Segment,    \* segments of the targets tried
  MaxDepth,   \* bound: segments of a target
  MaxBody,    \* MAX_REQUEST_BODY_BYTES, in chunks
  MaxReply,   \* bound: chunks of a reply
  HighWater   \* writableHighWaterMark of the response, in chunks

ASSUME ExchangeAssumption ==
  /\ MaxDepth \in Nat /\ MaxBody \in Nat /\ MaxReply \in Nat \ {0} /\ HighWater \in Nat \ {0}

VARIABLES
  stage,     \* where `serve` is
  method,
  url,       \* history: what the harness was asked for, Null if nothing
  keys,      \* listKeys: did the caller declare projections
  got,       \* chunks of the request body received
  bodyOver,  \* history: "whole" or "broken" once the body is over
  status, ended, closed,  \* ServerResponse: status sent (0: none), end()
                          \* called, 'close' emitted
  head,      \* headers sent: gzip, the accept-encoding it rests on, length
  pending,   \* chunks written and not flushed
  sent,      \* chunks on the wire
  aborted,   \* abort.signal
  total,     \* how many chunks the reply has, as the harness means it
  made,      \* how many of them have been taken from it
  failed     \* history: did the harness fail

resVars  == <<status, ended, closed, head, pending, sent>>
bodyVars == <<total, made, failed>>
vars == <<stage, method, url, keys, got, bodyOver, resVars, aborted, bodyVars>>

Plain == [gzip |-> FALSE, accept |-> <<>>, length |-> -1]
Part  == [name : {"gzip", "*"}, q : {-1, 0, 1}] \cup [name : {"br"}, q : {1}]

(* Accept-encoding headers; those that do not admit gzip act all alike.    *)
Admitting == {accept \in BoundedSeq(Part, 2) : AcceptsGzip(accept)}
Accept    == {<<>>} \cup Admitting

Stages == {"arrived", "buffering", "fetching", "trimming", "piping",
           "writing", "draining", "hung", "calling", "done"}

TypeOK ==
  /\ stage \in Stages
  /\ method \in {"GET", "POST", "HEAD"} /\ keys \in BOOLEAN
  /\ url = Null \/ \A k \in 1..Len(url) : url[k] \notin {".", ".."}
  /\ got \in 0..(MaxBody + 1) /\ bodyOver \in {"no", "whole", "broken"}
  /\ status \in {0, 200, 403, 404, 413, 502, 503} /\ ended \in BOOLEAN /\ closed \in BOOLEAN
  /\ head \in [gzip : BOOLEAN, accept : Accept, length : -1..MaxReply]
  /\ pending \in 0..HighWater /\ pending <= sent /\ sent \in 0..MaxReply /\ aborted \in BOOLEAN
  /\ total \in 0..MaxReply /\ made \in 0..total /\ failed \in BOOLEAN
  /\ stage \in {"trimming", "piping", "writing", "draining", "hung"} => url # Null

Init ==
  /\ stage = "arrived" /\ method = "GET" /\ url = Null /\ keys = FALSE
  /\ got = 0 /\ bodyOver = "no" /\ status = 0 /\ ended = FALSE /\ closed = FALSE
  /\ head = Plain /\ pending = 0 /\ sent = 0 /\ aborted = FALSE
  /\ total = 0 /\ made = 0 /\ failed = FALSE

-----------------------------------------------------------------------------
(* writeHead and end, with nothing between.                                *)
Answer(code) ==
  /\ stage' = "done" /\ status' = code /\ ended' = TRUE
  /\ UNCHANGED <<closed, head, pending, sent>>

(* 'close' of the response: the request is aborted if end() was not called.*)
OnClose == closed' = TRUE /\ aborted' = (aborted \/ ~ended)

(* Mutant of Reject: the response is ended in order instead.               *)
RejectPolitely ==
  /\ stage' = "done" /\ ended' = TRUE
  /\ UNCHANGED <<closed, aborted, status, head, pending, sent>>

(* `serve` throws, or its pipeline does: res.destroy().                    *)
Reject ==
  /\ stage' = "done" /\ OnClose
  /\ UNCHANGED <<status, ended, head, pending, sent>>

(* `new Request` throws when a GET or HEAD comes with a body.               *)
Forwardable(m, hasBody) == hasBody => m = "POST"

(* serve, up to its first await.  A streamed request always has a body.    *)
Serve(peer, target, m, json, mode) ==
  LET verdict == Verdict(target, m, json)
      allowed == peer = "live" /\ verdict = "allow"
  IN
  /\ method' = m
  /\ url' = IF allowed /\ Forwardable(m, mode = "streamed") THEN ParseMobileUrl(target) ELSE url
  /\ \/ peer # "live" /\ Answer(503) /\ UNCHANGED aborted
     \/ /\ peer = "live" /\ verdict # "allow"
        /\ Answer(RefusalStatus(verdict)) /\ UNCHANGED aborted
     \/ allowed /\ mode = "streamed" /\ ~Forwardable(m, TRUE) /\ Reject
     \/ /\ allowed /\ Forwardable(m, mode = "streamed")
        /\ stage' = IF mode = "buffered" THEN "buffering" ELSE "fetching"
        /\ UNCHANGED <<resVars, aborted>>
  /\ UNCHANGED <<keys, got, bodyOver, bodyVars>>

(* dispatchCall: no signal, and a harness that fails is a 502.             *)
DispatchCall(target) ==
  /\ method' = "POST"
  /\ \/ /\ Verdict(target, "POST", TRUE) # "allow"
        /\ Answer(RefusalStatus(Verdict(target, "POST", TRUE))) /\ UNCHANGED url
     \/ /\ Verdict(target, "POST", TRUE) = "allow"
        /\ url' = ParseMobileUrl(target) /\ stage' = "calling"
        /\ UNCHANGED resVars
  /\ UNCHANGED <<keys, got, bodyOver, aborted, bodyVars>>

CallReturns ==
  /\ stage = "calling"
  /\ \E code \in {200, 502} : Answer(code) /\ failed' = (code = 502)
  /\ UNCHANGED <<method, url, keys, got, bodyOver, aborted, total, made>>

-----------------------------------------------------------------------------
(* Mutant of BodyChunk: the ceiling is looked at before the chunk counts.  *)
BodyChunkLate ==
  /\ stage = "buffering" /\ ~closed
  /\ got' = got + 1
  /\ IF got > MaxBody THEN Answer(413) ELSE UNCHANGED <<stage, resVars>>
  /\ UNCHANGED <<method, url, keys, bodyOver, aborted, bodyVars>>

BodyChunk ==
  /\ stage = "buffering" /\ ~closed
  /\ got' = got + 1
  /\ IF got' > MaxBody THEN Answer(413) ELSE UNCHANGED <<stage, resVars>>
  /\ UNCHANGED <<method, url, keys, bodyOver, aborted, bodyVars>>

(* The body is whole: the request goes to the harness.                     *)
BodyEnds(declares) ==
  /\ stage = "buffering" /\ bodyOver = "no" /\ ~closed
  /\ bodyOver' = "whole"
  /\ keys' = (got > 0 /\ RequestedProjections(url, method, declares))
  /\ \/ /\ Forwardable(method, got > 0)
        /\ stage' = "fetching" /\ UNCHANGED <<resVars, aborted>>
     \/ ~Forwardable(method, got > 0) /\ Reject
  /\ UNCHANGED <<method, url, got, bodyVars>>

(* Mutant of BodyBreaks: a body cut short is forwarded.                    *)
ForwardBroken ==
  /\ stage = "buffering" /\ closed
  /\ bodyOver' = "broken" /\ stage' = "fetching"
  /\ UNCHANGED <<method, url, keys, got, resVars, aborted, bodyVars>>

(* The connection went while the body was read: reading throws.            *)
BodyBreaks ==
  /\ stage = "buffering" /\ closed
  /\ bodyOver' = "broken" /\ Reject
  /\ UNCHANGED <<method, url, keys, got, bodyVars>>

-----------------------------------------------------------------------------
(* Mutant of Reply: gzip leaves the content-length.                        *)
ReplyKeepingLength(body, length, coded, type, accept) ==
  LET gzip == body /\ method # "HEAD" /\ ~coded /\ accept \in Admitting /\ IsCompressible(type)
              /\ ~IsNegligiblySmall(length) IN
  /\ status' = 200 /\ ended' = (ended \/ ~body)
  /\ head' = [gzip |-> gzip, accept |-> IF gzip THEN accept ELSE <<>>, length |-> length]
  /\ stage' = IF ~body THEN "done" ELSE IF gzip THEN "piping" ELSE "writing"
  /\ UNCHANGED <<closed, pending, sent>>

(* From the harness's answer to the first await: is it gzipped, the head,  *)
(* and end() if there is no body.                                          *)
Reply(body, length, coded, type, accept) ==
  LET gzip == body /\ method # "HEAD" /\ ~coded /\ accept \in Admitting /\ IsCompressible(type)
              /\ ~IsNegligiblySmall(length) IN
  /\ status' = 200 /\ ended' = (ended \/ ~body)
  /\ head' = [gzip |-> gzip, accept |-> IF gzip THEN accept ELSE <<>>,
              length |-> IF gzip THEN -1 ELSE length]
  /\ stage' = IF ~body THEN "done" ELSE IF gzip THEN "piping" ELSE "writing"
  /\ UNCHANGED <<closed, pending, sent>>

HarnessReplies(n, body, declared, coded, type, accept) ==
  /\ stage = "fetching" /\ (~body => n = 0)
  /\ total' = n /\ made' = 0
  /\ IF keys THEN stage' = "trimming" /\ UNCHANGED resVars
     ELSE Reply(body, IF declared THEN n ELSE -1, coded, type, accept)
  /\ UNCHANGED <<method, url, keys, got, bodyOver, aborted, failed>>

(* trimListProjections reads the reply to its end and makes one chunk of   *)
(* it, with no length of its own; `coded` and `type` are kept.             *)
Trimmed(coded, type, accept) ==
  /\ stage = "trimming" /\ made = total
  /\ total' = 1 /\ made' = 0
  /\ Reply(TRUE, -1, coded, type, accept)
  /\ UNCHANGED <<method, url, keys, got, bodyOver, aborted, failed>>

(* A chunk for trimListProjections, or for the pipeline.                   *)
TakeChunk ==
  /\ stage \in {"trimming", "piping"} /\ made < total
  /\ made' = made + 1
  /\ UNCHANGED <<stage, method, url, keys, got, bodyOver, resVars, aborted, total, failed>>

(* The harness fails: to answer, or within its body.                       *)
HarnessFails ==
  /\ stage \in {"fetching", "trimming", "piping", "writing"}
  /\ stage # "fetching" => made < total
  /\ failed' = TRUE /\ Reject
  /\ UNCHANGED <<method, url, keys, got, bodyOver, total, made>>

(* The pipeline is done: what gzip made of the body is all on the wire.    *)
PipelineEnds ==
  /\ stage = "piping" /\ made = total /\ ~closed
  /\ ended' = TRUE /\ sent' = 1 /\ stage' = "done"
  /\ UNCHANGED <<method, url, keys, got, bodyOver, aborted, bodyVars, status, closed, head, pending>>

PipelineBreaks ==
  /\ stage = "piping" /\ closed /\ Reject
  /\ UNCHANGED <<method, url, keys, got, bodyOver, bodyVars>>

-----------------------------------------------------------------------------
(* Mutant of WriteChunk: nobody waits for 'drain'.                         *)
WriteOnAndOn ==
  /\ stage = "writing" /\ made < total
  /\ made' = made + 1 /\ sent' = sent + 1 /\ pending' = pending + 1
  /\ UNCHANGED <<stage, method, url, keys, got, bodyOver, aborted, total, failed, status, ended, closed, head>>

(* res.write: a closed response answers false, and its 'close' is past; an *)
(* answer to HEAD carries no body.                                         *)
WriteChunk ==
  /\ stage = "writing" /\ made < total
  /\ made' = made + 1
  /\ \/ /\ closed
        /\ stage' = "hung" /\ UNCHANGED <<sent, pending>>
     \/ /\ ~closed /\ method = "HEAD"
        /\ UNCHANGED <<stage, sent, pending>>
     \/ /\ ~closed /\ method # "HEAD"
        /\ sent' = sent + 1 /\ pending' = pending + 1
        /\ stage' = IF pending' >= HighWater THEN "draining" ELSE "writing"
  /\ UNCHANGED <<method, url, keys, got, bodyOver, aborted, total, failed, status, ended, closed, head>>

(* Mutant of Drained: only 'close' is listened for.                        *)
DrainedByClose ==
  /\ stage = "draining" /\ closed
  /\ stage' = "writing"
  /\ UNCHANGED <<method, url, keys, got, bodyOver, resVars, aborted, bodyVars>>

Drained ==
  /\ stage = "draining" /\ (pending = 0 \/ closed)
  /\ stage' = "writing"
  /\ UNCHANGED <<method, url, keys, got, bodyOver, resVars, aborted, bodyVars>>

WriteEnds ==
  /\ stage = "writing" /\ made = total
  /\ ended' = TRUE /\ stage' = "done"
  /\ UNCHANGED <<method, url, keys, got, bodyOver, aborted, bodyVars, status, closed, head, pending, sent>>

(* The socket takes a chunk.                                               *)
Flush ==
  /\ ~closed /\ pending > 0
  /\ pending' = pending - 1
  /\ UNCHANGED <<stage, method, url, keys, got, bodyOver, aborted, bodyVars, status, ended, closed, head, sent>>

(* Mutant of SocketCloses: a response that has a status counts as over.    *)
SocketClosesLate ==
  /\ stage \notin {"arrived", "calling"} /\ ~closed
  /\ closed' = TRUE /\ aborted' = (aborted \/ status = 0)
  /\ UNCHANGED <<stage, method, url, keys, got, bodyOver, bodyVars, status, ended, head, pending, sent>>

(* The phone goes, its session is closed, or `close` of the server cuts all*)
(* connections.                                                            *)
SocketCloses ==
  /\ stage \notin {"arrived", "calling"} /\ ~closed
  /\ OnClose
  /\ UNCHANGED <<stage, method, url, keys, got, bodyOver, bodyVars, status, ended, head, pending, sent>>

Target == [authority : BOOLEAN, path : BoundedSeq(Segment, MaxDepth)]

Arrives ==
  /\ stage = "arrived"
  /\ \E t \in Target :
    \/ DispatchCall(t)
    \/ \E peer \in {"none", "live", "aborted"}, m \in {"GET", "POST", "HEAD"}, json \in BOOLEAN,
          mode \in {"buffered", "streamed"} : Serve(peer, t, m, json, mode)

Replies ==
  /\ stage \in {"fetching", "trimming"}
  /\ \E coded \in BOOLEAN, type \in {"json", "binary"}, accept \in Accept :
    \/ Trimmed(coded, type, accept)
    \/ \E n \in 0..MaxReply, body \in BOOLEAN, declared \in BOOLEAN :
         HarnessReplies(n, body, declared, coded, type, accept)

BodyOver == BodyBreaks \/ \E declares \in BOOLEAN : BodyEnds(declares)

Next ==
  \/ Arrives \/ CallReturns \/ BodyChunk \/ BodyOver \/ Replies
  \/ TakeChunk \/ HarnessFails \/ PipelineEnds \/ PipelineBreaks
  \/ WriteChunk \/ Drained \/ WriteEnds \/ Flush \/ SocketCloses

Spec == Init /\ [][Next]_vars

(* The phone sends the body it announced and reads the answer; the harness *)
(* answers, and yields or ends; the rest is promises and events of node.   *)
FairSpec ==
  /\ Spec
  /\ WF_vars(Arrives) /\ WF_vars(CallReturns) /\ WF_vars(BodyOver) /\ WF_vars(Replies)
  /\ WF_vars(TakeChunk) /\ WF_vars(PipelineEnds) /\ WF_vars(PipelineBreaks)
  /\ WF_vars(WriteChunk) /\ WF_vars(Drained) /\ WF_vars(WriteEnds) /\ WF_vars(Flush)

-----------------------------------------------------------------------------
Fetched == stage \in {"fetching", "trimming", "piping", "writing", "draining", "hung", "calling"}

(* The control plane, and any host but our own, is out of a phone's reach  *)
(* on both transports, however the target spells the path and whatever the *)
(* operator has put on the allowlist.                                      *)
ControlIsHidden == url # Null => ~StartsWith(Normal(url), ControlPrefix)

(* The harness is never handed a body that is cut short or above the       *)
(* ceiling, and what is answered 413 is above it.                          *)
BodyIsWhole ==
  /\ Fetched => bodyOver # "broken" /\ got <= MaxBody
  /\ status = 413 => got = MaxBody + 1

(* An answer the phone takes for complete is complete: a harness that      *)
(* fails half-way, or a connection given up, never ends one in order.      *)
CompleteIsWhole ==
  ended /\ ~aborted /\ url # Null /\ status = 200 =>
    /\ ~failed /\ made = total
    /\ head.gzip \/ method = "HEAD" \/ sent = total

(* A content-length that was sent is the length of what follows, although  *)
(* the body may have been trimmed and gzipped on the way.                  *)
LengthIsTrue ==
  ended /\ ~aborted /\ method # "HEAD" /\ head.length # -1 => sent = head.length

(* The harness is told when the phone leaves before the answer is over,    *)
(* also where `serve` itself never finds out, and in no other case.        *)
LeftIsAborted ==
  /\ closed /\ ~ended => aborted
  /\ aborted => closed
  /\ stage = "hung" => aborted

(* gzip is used only for a phone that takes it: one that says nothing of   *)
(* gzip but takes anything, or one that does not refuse gzip itself.       *)
GzipIsWanted ==
  head.gzip =>
    LET Latest(name) == {k \in 1..Len(head.accept) : /\ head.accept[k].name = name
                         /\ \A j \in (k+1)..Len(head.accept) : head.accept[j].name # name}
        Valid(name) == {k \in Latest(name) : head.accept[k].q >= 0}
        deciding == IF Valid("gzip") # {} THEN Valid("gzip") ELSE Valid("*")
    IN  \E k \in deciding : head.accept[k].q > 0

(* What the phone is told of its answer is so, in its status, its headers  *)
(* and in how it ends; every field keeps its type, and a harness faster    *)
(* than the phone is not read ahead of it.                                 *)
AnswerIsTrue == TypeOK /\ CompleteIsWhole /\ LengthIsTrue /\ GzipIsWanted

(* What the harness is told of its request is so: it gets a whole body or  *)
(* none, and its signal says exactly whether the phone has left early.     *)
HarnessIsTold == BodyIsWhole /\ LeftIsAborted

(* Whoever waits for an answer gets one, or the connection is closed.      *)
Served == <>(stage = "done" \/ closed)

=============================================================================
