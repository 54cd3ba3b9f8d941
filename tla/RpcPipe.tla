------------------------------ MODULE RpcPipe ------------------------------
(***************************************************************************)
(* The RPC pipe of src/src/rpc.ts: SessionStore and serveRpcPipe, with a   *)
(* client that follows the checklist of PROTOCOL-RPC.md (external: clients *)
(* are not part of the repository) and loses its socket at any moment.     *)
(*                                                                         *)
(* Sessions are numbered in the order they are minted, which is the        *)
(* insertion order of `#sessions`; their ids are random and never come     *)
(* back.  A call is known by its id: paths, bodies and verdicts are left   *)
(* out, and every dispatched call ends in some reply.  All replies         *)
(* have the same size, so a history is bounded by their number.            *)
(***************************************************************************)
EXTENDS Integers, Sequences, FiniteSets

CONSTANTS
  Pipe,         \* sockets; one that is closed may be opened again
  None,
  MaxHistory,   \* replies that fit in MAX_SESSION_BYTES
  MaxSessions,  \* MAX_SESSIONS
  Ttl,          \* SESSION_TTL_MS
  MaxMinted,    \* bound on sessions ever minted
  MaxCalls,     \* bound on call ids the client uses in a session
  MaxClock,     \* bound on #now()
  MaxRuns       \* bound on executions of one call

ASSUME PipeAssumption == None \notin Pipe /\ None \notin Nat
ASSUME BoundAssumption ==
  /\ MaxHistory \in Nat \ {0} /\ MaxSessions \in Nat \ {0} /\ Ttl \in Nat
  /\ MaxMinted \in Nat /\ MaxCalls \in Nat /\ MaxClock \in Nat /\ MaxRuns \in Nat

Id   == 1..MaxCalls
Sess == 1..MaxMinted

VARIABLES
  clock,
  minted,    \* sessions minted so far
  store,     \* the keys of #sessions
  replies,   \* Session.replies, as call ids in the order they finished
  lastSeen,  \* Session.lastSeen
  running,   \* executions not finished: session, id, how many went before,
             \* and the pipes the reply goes to; `inflight` of a session held
  runs,      \* history: how often each call of each session was executed
  trimmed,   \* history: replies dropped from a full history
  session,   \* per pipe: the variable `session` of serveRpcPipe, None if closed
  up, down   \* per pipe: frames on their way, in order

(* The client: its pipe and how far the handshake on it has got, its       *)
(* session, the highest id it has seen, how many calls it has made in this *)
(* session, and which of them are answered.                                *)
VARIABLES cur, mode, mine, seen, asked, answered

storeVars  == <<minted, store, replies, lastSeen>>
callVars   == <<running, runs, trimmed>>
clientVars == <<cur, mode, mine, seen, asked, answered>>
vars == <<clock, storeVars, callVars, session, up, down, clientVars>>

Unanswered == {i \in Id : i <= asked} \ answered
Replied(s) == {replies[s][k] : k \in 1..Len(replies[s])}
InFlight(s, i) == {w \in running : w.sess = s /\ w.id = i /\ s \in store}

Frame ==
  [t : {"ready", "resumeFailed", "resumed"}, sess : Sess] \cup [t : {"reply"}, id : Id]
Request == [t : {"call"}, id : Id] \cup [t : {"resume"}, sess : Sess, after : 0..MaxCalls]

TypeOK ==
  /\ clock \in 0..MaxClock /\ minted \in 0..MaxMinted /\ store \subseteq Sess
  /\ replies \in [Sess -> Seq(Id)]
  /\ lastSeen \in [Sess -> 0..MaxClock]
  /\ running \subseteq [sess : Sess, id : Id, run : 1..MaxRuns, to : SUBSET Pipe]
  /\ runs \in [Sess -> [Id -> 0..MaxRuns]] /\ trimmed \subseteq Sess \X Id
  /\ session \in [Pipe -> Sess \cup {None}]
  /\ up \in [Pipe -> Seq(Request)] /\ down \in [Pipe -> Seq(Frame)]
  /\ cur \in Pipe \cup {None} /\ mode \in {"offline", "hello", "resuming", "ready"}
  /\ mine \in Sess \cup {None} /\ seen \in 0..MaxCalls /\ asked \in 0..MaxCalls
  /\ answered \subseteq Id

Init ==
  /\ clock = 0 /\ minted = 0 /\ store = {}
  /\ replies = [s \in Sess |-> <<>>] /\ lastSeen = [s \in Sess |-> 0]
  /\ running = {} /\ trimmed = {} /\ runs = [s \in Sess |-> [i \in Id |-> 0]]
  /\ session = [p \in Pipe |-> None]
  /\ up = [p \in Pipe |-> <<>>] /\ down = [p \in Pipe |-> <<>>]
  /\ cur = None /\ mode = "offline" /\ mine = None
  /\ seen = 0 /\ asked = 0 /\ answered = {}

-----------------------------------------------------------------------------
(* `#expire`: what is left of the store now.                               *)
Fresh == {s \in store : lastSeen[s] >= clock - Ttl}

(* Mutant of Mint: no ceiling on the sessions held.                        *)
MintUnbounded ==
  /\ minted < MaxMinted
  /\ minted'   = minted + 1
  /\ store'    = Fresh \cup {minted'}
  /\ lastSeen' = [lastSeen EXCEPT ![minted'] = clock]
  /\ UNCHANGED replies

(* `open`: forget the expired, make room by dropping the oldest, mint.     *)
Mint ==
  LET kept == IF Cardinality(Fresh) < MaxSessions THEN Fresh
              ELSE {s \in Fresh : \E older \in Fresh : older < s} IN
  /\ minted < MaxMinted
  /\ minted'   = minted + 1
  /\ store'    = kept \cup {minted'}
  /\ lastSeen' = [lastSeen EXCEPT ![minted'] = clock]
  /\ UNCHANGED replies

(* `finish`: record the reply of a session still held, trim the oldest.    *)
Record(s, i) ==
  IF s \notin store THEN UNCHANGED <<replies, lastSeen, trimmed>>
  ELSE LET all == Append(replies[s], i) IN
       /\ lastSeen' = [lastSeen EXCEPT ![s] = clock]
       /\ IF Len(all) <= MaxHistory
          THEN replies' = [replies EXCEPT ![s] = all] /\ UNCHANGED trimmed
          ELSE /\ replies' = [replies EXCEPT ![s] = Tail(all)]
               /\ trimmed' = trimmed \cup {<<s, Head(all)>>}

(* Mutant of Reply: ids are counted from zero on one side only.            *)
ReplyOffByOne(i) == [t |-> "reply", id |-> i - 1]

Reply(i) == [t |-> "reply", id |-> i]

(* The members of a set of numbers, from the least up.                     *)
InOrder(ns) ==
  CHOOSE q \in [1..Cardinality(ns) -> ns] :
    \A j, k \in 1..Cardinality(ns) : j < k => q[j] < q[k]

(* `since`: the replies the client has not seen, oldest first.             *)
Since(s, after) ==
  LET missed == {k \in 1..Len(replies[s]) : replies[s][k] > after}
  IN  [k \in 1..Cardinality(missed) |-> Reply(replies[s][InOrder(missed)[k]])]

Send(p, frames) == down' = [down EXCEPT ![p] = @ \o frames]

(* The socket of p is closed: later sends on it do nothing.                *)
Closing(p) ==
  /\ session' = [session EXCEPT ![p] = None]
  /\ up'      = [up EXCEPT ![p] = <<>>]
  /\ running' = {[w EXCEPT !.to = @ \ {p}] : w \in running}

-----------------------------------------------------------------------------
(* Mutant of OnResume: `session` stays the one the pipe was opened with.   *)
OnResumeUnattached(p, f) ==
  IF f.sess \in Fresh
  THEN /\ store'    = Fresh
       /\ lastSeen' = [lastSeen EXCEPT ![f.sess] = clock]
       /\ Send(p, <<[t |-> "resumed", sess |-> f.sess]>> \o Since(f.sess, f.after))
       /\ UNCHANGED session
  ELSE /\ store' = Fresh
       /\ Send(p, <<[t |-> "resumeFailed", sess |-> session[p]]>>)
       /\ UNCHANGED <<lastSeen, session>>

(* A resume frame is handled: reattach and replay, or refuse.              *)
OnResume(p, f) ==
  IF f.sess \in Fresh
  THEN /\ store'    = Fresh
       /\ lastSeen' = [lastSeen EXCEPT ![f.sess] = clock]
       /\ session'  = [session EXCEPT ![p] = f.sess]
       /\ Send(p, <<[t |-> "resumed", sess |-> f.sess]>> \o Since(f.sess, f.after))
  ELSE /\ store' = Fresh
       /\ Send(p, <<[t |-> "resumeFailed", sess |-> session[p]]>>)
       /\ UNCHANGED <<lastSeen, session>>

(* Mutant of OnCall: a retry of a call in flight is dropped, not joined.   *)
OnCallDropping(p, i) ==
  LET s == session[p] IN
  IF i \in Replied(s) /\ s \in store
  THEN Send(p, <<Reply(i)>>) /\ UNCHANGED <<running, runs>>
  ELSE IF InFlight(s, i) # {} THEN UNCHANGED <<running, runs, down>>
  ELSE /\ runs[s][i] < MaxRuns
       /\ runs' = [runs EXCEPT ![s][i] = @ + 1]
       /\ running' = running \cup {[sess |-> s, id |-> i, run |-> runs'[s][i], to |-> {p}]}
       /\ UNCHANGED down

(* Mutant of OnCall: calls in flight are not looked up.                    *)
OnCallRepeating(p, i) ==
  LET s == session[p] IN
  IF i \in Replied(s) /\ s \in store
  THEN Send(p, <<Reply(i)>>) /\ UNCHANGED <<running, runs>>
  ELSE /\ runs[s][i] < MaxRuns
       /\ runs' = [runs EXCEPT ![s][i] = @ + 1]
       /\ running' = running \cup {[sess |-> s, id |-> i, run |-> runs'[s][i], to |-> {p}]}
       /\ UNCHANGED down

(* A call frame is handled: answered from history, joined to the call in   *)
(* flight, or executed, which `begin` records if the session is held.      *)
OnCall(p, i) ==
  LET s == session[p] IN
  \/ /\ s \in store /\ i \in Replied(s)
     /\ Send(p, <<Reply(i)>>)
     /\ UNCHANGED <<running, runs>>
  \/ /\ ~(s \in store /\ i \in Replied(s)) /\ InFlight(s, i) # {}
     /\ running' = {IF w \in InFlight(s, i) THEN [w EXCEPT !.to = @ \cup {p}] ELSE w : w \in running}
     /\ UNCHANGED <<runs, down>>
  \/ /\ ~(s \in store /\ i \in Replied(s)) /\ InFlight(s, i) = {}
     /\ runs[s][i] < MaxRuns
     /\ runs' = [runs EXCEPT ![s][i] = @ + 1]
     /\ running' = running \cup {[sess |-> s, id |-> i, run |-> runs'[s][i], to |-> {p}]}
     /\ UNCHANGED down

(* The next frame a pipe has brought is handled.                           *)
Handle(p) ==
  /\ up[p] # <<>>
  /\ up' = [up EXCEPT ![p] = Tail(@)]
  /\ LET f == Head(up[p]) IN
     \/ /\ f.t = "resume"
        /\ OnResume(p, f)
        /\ UNCHANGED <<minted, replies, callVars>>
     \/ /\ f.t = "call"
        /\ OnCall(p, f.id)
        /\ UNCHANGED <<storeVars, trimmed, session>>
  /\ UNCHANGED <<clock, clientVars>>

(* The harness answers a call: the reply is recorded, then sent to the     *)
(* pipe that asked and to those that joined.                               *)
Finish(w) ==
  /\ w \in running
  /\ running' = running \ {w}
  /\ Record(w.sess, w.id)
  /\ down' = [p \in Pipe |-> IF p \in w.to THEN Append(down[p], Reply(w.id)) ELSE down[p]]
  /\ UNCHANGED <<clock, minted, store, runs, session, up, clientVars>>

(* Another phone opens a pipe of its own.                                  *)
OtherOpens ==
  /\ Mint
  /\ UNCHANGED <<clock, callVars, session, up, down, clientVars>>

(* A socket the client gave up on is found dead; what it carried is lost.  *)
PipeDies(p) ==
  /\ session[p] # None /\ p # cur
  /\ Closing(p)
  /\ UNCHANGED <<clock, storeVars, runs, trimmed, down, clientVars>>

Tick ==
  /\ clock < MaxClock
  /\ clock' = clock + 1
  /\ UNCHANGED <<storeVars, callVars, session, up, down, clientVars>>

-----------------------------------------------------------------------------
(* The client.  It opens a pipe; serveRpcPipe mints a session for it.      *)
Connect(p) ==
  /\ mode = "offline" /\ session[p] = None
  /\ Mint
  /\ session' = [session EXCEPT ![p] = minted']
  /\ down' = [down EXCEPT ![p] = <<[t |-> "ready", sess |-> minted']>>]
  /\ cur' = p /\ mode' = "hello"
  /\ UNCHANGED <<clock, callVars, up, mine, seen, asked, answered>>

Ask(frames) == up' = [up EXCEPT ![cur] = @ \o frames]

CallFrames(ids) == [k \in 1..Cardinality(ids) |-> [t |-> "call", id |-> InOrder(ids)[k]]]

(* `ready`: adopt the session, or ask for the old one back.                *)
OnReady(s) ==
  IF mine = None
  THEN mine' = s /\ mode' = "ready" /\ UNCHANGED <<seen, asked, answered, up>>
  ELSE /\ mode' = "resuming"
       /\ Ask(<<[t |-> "resume", sess |-> mine, after |-> seen]>>)
       /\ UNCHANGED <<mine, seen, asked, answered>>

(* `resumed`: resend every unanswered call with its original id.           *)
OnResumed ==
  /\ mode' = "ready"
  /\ Ask(CallFrames(Unanswered))
  /\ UNCHANGED <<mine, seen, asked, answered>>

(* `resumeFailed`: adopt the new session and start over; the unanswered    *)
(* calls are failed up to the caller.                                      *)
OnResumeFailed(s) ==
  /\ mode' = "ready" /\ mine' = s
  /\ seen' = 0 /\ asked' = 0 /\ answered' = {}
  /\ UNCHANGED up

OnReply(i) ==
  /\ answered' = answered \cup {i}
  /\ seen' = IF i > seen THEN i ELSE seen
  /\ UNCHANGED <<mine, mode, asked, up>>

Receive ==
  /\ cur # None /\ down[cur] # <<>>
  /\ down' = [down EXCEPT ![cur] = Tail(@)]
  /\ LET f == Head(down[cur]) IN
     \/ f.t = "ready" /\ OnReady(f.sess)
     \/ f.t = "resumed" /\ OnResumed
     \/ f.t = "resumeFailed" /\ OnResumeFailed(f.sess)
     \/ f.t = "reply" /\ OnReply(f.id)
  /\ UNCHANGED <<clock, storeVars, callVars, session, cur>>

Call ==
  /\ mode = "ready" /\ asked < MaxCalls
  /\ asked' = asked + 1
  /\ Ask(<<[t |-> "call", id |-> asked + 1]>>)
  /\ UNCHANGED <<clock, storeVars, callVars, session, down, cur, mode, mine, seen, answered>>

(* The client loses its socket; what it sent may still arrive.             *)
LoseSocket ==
  /\ cur # None
  /\ down' = [down EXCEPT ![cur] = <<>>]
  /\ cur' = None /\ mode' = "offline"
  /\ UNCHANGED <<clock, storeVars, callVars, session, up, mine, seen, asked, answered>>

Next ==
  \/ \E p \in Pipe : Handle(p) \/ PipeDies(p) \/ Connect(p)
  \/ \E w \in running : Finish(w)
  \/ OtherOpens \/ Tick
  \/ Receive \/ Call \/ LoseSocket

Spec == Init /\ [][Next]_vars

(* Frames that arrived are handled and every harness call ends.            *)
FairSpec ==
  /\ Spec
  /\ WF_vars(Receive)
  /\ \A p \in Pipe : WF_vars(Handle(p))
  /\ \A s \in Sess, i \in Id : WF_vars(\E w \in running : w.sess = s /\ w.id = i /\ Finish(w))

-----------------------------------------------------------------------------
(* "A call with a given id executes exactly once per session", as far as   *)
(* it holds: in a session still held, a call was executed again only after *)
(* its reply had fallen off the end of the history.                        *)
RepeatedOnlyIfTrimmed ==
  \A s \in store, i \in Id : runs[s][i] > 1 => <<s, i>> \in trimmed

(* Nothing is stranded: while the client is connected, each of its calls   *)
(* is answered, on its way to the bridge, in flight with this pipe among   *)
(* those awaiting it, or its reply is on its way back.                     *)
NothingStranded ==
  mode = "ready" =>
    \A i \in Unanswered :
      \/ \E k \in 1..Len(up[cur]) : up[cur][k] = [t |-> "call", id |-> i]
      \/ \E w \in running : w.id = i /\ cur \in w.to
      \/ \E k \in 1..Len(down[cur]) : down[cur][k] = Reply(i)

(* A retry neither repeats a call without need nor leaves one stranded.    *)
RetriesAreSafe == RepeatedOnlyIfTrimmed /\ NothingStranded

(* The store and each history stay within their ceilings, whatever pipes   *)
(* mint, resume and leave behind, and every field keeps its type.          *)
Bounded ==
  /\ TypeOK
  /\ Cardinality(store) <= MaxSessions
  /\ \A s \in store : Len(replies[s]) <= MaxHistory

(* Every call is answered, unless the client loses its socket first.       *)
CallsAreAnswered ==
  \A i \in Id : i \in Unanswered ~> (i \notin Unanswered \/ mode # "ready")

-----------------------------------------------------------------------------
(* What CallLedger sees: in a session still held a call is in flight, in   *)
(* the history, executed and out of the history, or new.                   *)
Fate(s, i) ==
  IF \E w \in running : w.sess = s /\ w.id = i THEN "running"
  ELSE IF i \in Replied(s) THEN "kept"
  ELSE IF runs[s][i] > 0 THEN "forgotten" ELSE "new"

Fates == [s \in Sess |-> [i \in Id |-> IF s \in store THEN Fate(s, i) ELSE "unknown"]]

Ledger == INSTANCE CallLedger WITH
  ever <- 1..minted, held <- store, fate <- Fates, times <- runs

(* However often the client reconnects, resumes and resends: a call of a   *)
(* session still held runs once at a time, and again only after its reply  *)
(* left a full history; the client starts its numbering over only where    *)
(* nothing was executed; and what it takes for the answer of its call is   *)
(* the reply of an execution in its own session.                           *)
KeepsTheLedger == Ledger!Spec

=============================================================================
