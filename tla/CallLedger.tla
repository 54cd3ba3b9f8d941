----------------------------- MODULE CallLedger -----------------------------
(***************************************************************************)
(* What the RPC pipe promises a client that numbers its calls (src/src/    *)
(* rpc.ts with PROTOCOL-RPC.md), told without sockets, frames and retries: *)
(* how often a call may be executed, and what an answer stands for.        *)
(*                                                                         *)
(* In a session that is held a call is executed once, and again only after *)
(* its reply fell out of a full history; it is never executed twice at the *)
(* same time.  A client starts its numbering over only in a session in     *)
(* which nothing was executed, and is only answered calls of its session   *)
(* that were executed.  A session that is no longer held promises nothing, *)
(* and never comes back.                                                   *)
(***************************************************************************)
EXTENDS Integers, FiniteSets

CONSTANTS Sess, Id, None, MaxHistory

VARIABLES
  ever,     \* sessions ever opened
  held,     \* those that are held
  fate,     \* what a session that is held knows of each call
  times,    \* how often each call was executed
  mine,     \* the client's session
  answered  \* the calls of it that the client was answered

vars == <<ever, held, fate, times, mine, answered>>

All(f) == [i \in Id |-> f]

Init ==
  /\ ever = {} /\ held = {} /\ fate = [s \in Sess |-> All("unknown")]
  /\ times = [s \in Sess |-> All(0)]
  /\ mine = None /\ answered = {}

(* Sessions may be given up, to make room or because they expired.         *)
Keeping(s) ==
  fate' = [q \in Sess |-> IF q = s THEN All("new")
                          ELSE IF q \in held' THEN fate[q] ELSE All("unknown")]

Open(s) ==
  /\ s \notin ever /\ ever' = ever \cup {s}
  /\ s \in held' /\ held' \subseteq held \cup {s} /\ Keeping(s)
  /\ UNCHANGED <<times, mine, answered>>

Drop ==
  /\ held' \subseteq held /\ Keeping(None)
  /\ UNCHANGED <<ever, times, mine, answered>>

-----------------------------------------------------------------------------
Execute(s, i) ==
  /\ s \in ever
  /\ times' = [times EXCEPT ![s][i] = @ + 1]
  /\ \/ /\ s \in held /\ fate[s][i] \in {"new", "forgotten"}
        /\ fate' = [fate EXCEPT ![s][i] = "running"]
     \/ s \notin held /\ UNCHANGED fate
  /\ UNCHANGED <<ever, held, mine, answered>>

Kept(s) == {j \in Id : fate[s][j] = "kept"}

(* The reply is kept; if the history was full, another one is forgotten.   *)
Finish(s, i) ==
  /\ s \in held /\ fate[s][i] = "running"
  /\ \/ /\ Cardinality(Kept(s)) < MaxHistory
        /\ fate' = [fate EXCEPT ![s][i] = "kept"]
     \/ /\ Cardinality(Kept(s)) >= MaxHistory
        /\ \E j \in Kept(s) : fate' = [fate EXCEPT ![s][i] = "kept", ![s][j] = "forgotten"]
  /\ UNCHANGED <<ever, held, times, mine, answered>>

Adopt(s) ==
  /\ s \in ever /\ times[s] = All(0)
  /\ mine' = s /\ answered' = {}
  /\ UNCHANGED <<ever, held, fate, times>>

Answer(i) ==
  /\ mine \in ever /\ times[mine][i] > 0
  /\ answered' = answered \cup {i}
  /\ UNCHANGED <<ever, held, fate, times, mine>>

Next ==
  \/ \E s \in Sess : Open(s) \/ Adopt(s) \/ \E i \in Id : Execute(s, i) \/ Finish(s, i)
  \/ Drop
  \/ \E i \in Id : Answer(i)

Spec == Init /\ [][Next]_vars

=============================================================================
