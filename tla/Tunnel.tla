------------------------------- MODULE Tunnel -------------------------------
(***************************************************************************)
(* ProxyTunnel of src/src/tunnel.ts: the bridge's outbound link to the     *)
(* relay.  One dial is an asynchronous function (open a socket, run the    *)
(* three XX messages, install a MuxLink) that the operator's `suspend`,    *)
(* `resume` and `close` overtake at every await.                           *)
(*                                                                         *)
(* A member of Dial names one run of `dial`, the socket it opened and the  *)
(* MuxLink it installed; it becomes free again once all three are gone.    *)
(* `generation` is only ever compared for equality with the value a link   *)
(* captured, so it is represented by `current`, the links whose captured   *)
(* value still equals it.  Delays and jitter are left to the scheduler.    *)
(***************************************************************************)
EXTENDS Naturals, FiniteSets

CONSTANTS
  Dial,         \* identities for runs of `dial`; bounds the concurrent ones
  None,         \* `undefined`
  RetryMin,     \* RECONNECT_MIN_MS
  RetryMax,     \* RECONNECT_MAX_MS
  MaxOrphans,   \* bound on timers no field refers to any more
  Hasty         \* may `resume` be called while a dial is still unsettled?

ASSUME DialAssumption   == Dial # {} /\ None \notin Dial
ASSUME RetryAssumption  == RetryMin \in Nat /\ RetryMax \in Nat /\ RetryMin <= RetryMax
ASSUME OrphanAssumption == MaxOrphans \in Nat
ASSUME HastyAssumption  == Hasty \in BOOLEAN

VARIABLES
  stopped, paused, online,  \* the three flags of the same names
  link,       \* `this.link`: the dial whose MuxLink is installed
  socket,     \* `this.socket`; None also stands for a destroyed socket
  retry,      \* `this.retry`
  timer,      \* is `this.timer` armed?
  orphans,    \* armed reconnect timers `this.timer` no longer refers to
  stage,      \* how far each dial has got
  dead,       \* dials whose socket `drop` destroyed, not yet noticed by them
  current     \* links created under the present `generation`

flags    == <<stopped, paused>>
timers   == <<retry, timer, orphans>>
vars     == <<stopped, paused, online, link, socket, retry, timer, orphans,
              stage, dead, current>>

(* opening: `await open`; hello, confirm: `await writeFrame` of the first  *)
(* and third message; answer: `await readFrame`; linked: MuxLink alive.    *)
Greeting == {"hello", "answer", "confirm"}
Stage    == {"free", "opening", "linked"} \cup Greeting

Idle      == {d \in Dial : stage[d] = "free"}
Unsettled == {d \in Dial : stage[d] = "opening" \/ stage[d] \in Greeting}
LiveLinks == {d \in Dial : stage[d] = "linked" /\ d \notin dead}

TypeOK ==
  /\ stopped \in BOOLEAN /\ paused \in BOOLEAN /\ online \in BOOLEAN
  /\ link \in Dial \cup {None} /\ socket \in Dial \cup {None}
  /\ retry \in RetryMin..RetryMax
  /\ timer \in BOOLEAN /\ orphans \in 0..MaxOrphans
  /\ stage \in [Dial -> Stage]
  /\ dead \in SUBSET Dial /\ current \in SUBSET Dial

Smaller(a, b) == IF a <= b THEN a ELSE b

-----------------------------------------------------------------------------
(* The object just built, with `start` called once: its dial has begun.    *)
Init ==
  /\ stopped = FALSE /\ paused = FALSE /\ online = FALSE
  /\ link = None /\ socket = None
  /\ retry = RetryMin /\ timer = FALSE /\ orphans = 0
  /\ \E d \in Dial : stage = [e \in Dial |-> IF e = d THEN "opening" ELSE "free"]
  /\ dead = {} /\ current = {}

(* Mutant of Schedule: the delay grows without a ceiling.                  *)
ScheduleUncapped ==
  IF stopped \/ paused
  THEN UNCHANGED timers
  ELSE /\ timer => orphans < MaxOrphans
       /\ retry' = retry * 2 /\ timer' = TRUE
       /\ orphans' = IF timer THEN orphans + 1 ELSE orphans

(* `schedule`: arming a second timer leaves the first one running.         *)
Schedule ==
  IF stopped \/ paused
  THEN UNCHANGED timers
  ELSE /\ timer => orphans < MaxOrphans
       /\ retry'   = Smaller(retry * 2, RetryMax)
       /\ timer'   = TRUE
       /\ orphans' = IF timer THEN orphans + 1 ELSE orphans

(* The head of `dial`: refuse while cut, else start opening a socket.      *)
BeginDial ==
  IF stopped \/ paused
  THEN UNCHANGED stage
  ELSE \E d \in Idle : stage' = [stage EXCEPT ![d] = "opening"]

(* Everything dial d held is gone.                                         *)
Discard(d) ==
  /\ stage'   = [stage EXCEPT ![d] = "free"]
  /\ dead'    = dead \ {d}
  /\ current' = current \ {d}
  /\ socket'  = IF socket = d THEN None ELSE socket

(* `open` rejected: refused, reset, or CONNECT_TIMEOUT_MS passed.          *)
OpenFails(d) ==
  /\ stage[d] = "opening"
  /\ Schedule
  /\ stage' = [stage EXCEPT ![d] = "free"]
  /\ UNCHANGED <<flags, online, link, socket, dead, current>>

(* Mutant of Opened: the flags are not looked at again after the await.    *)
OpenedUnchecked(d) ==
  /\ stage[d] = "opening"
  /\ stage' = [stage EXCEPT ![d] = "hello"] /\ socket' = d
  /\ UNCHANGED <<flags, online, link, timers, dead, current>>

(* Mutant of Opened: a TCP connection alone resets the delay.              *)
OpenedResetting(d) ==
  /\ stage[d] = "opening"
  /\ IF stopped \/ paused
     THEN stage' = [stage EXCEPT ![d] = "free"] /\ UNCHANGED <<socket, retry>>
     ELSE stage' = [stage EXCEPT ![d] = "hello"] /\ socket' = d /\ retry' = RetryMin
  /\ UNCHANGED <<flags, online, link, timer, orphans, dead, current>>

(* `open` resolved; a cut during the await discards the socket.            *)
Opened(d) ==
  /\ stage[d] = "opening"
  /\ IF stopped \/ paused
     THEN stage' = [stage EXCEPT ![d] = "free"] /\ UNCHANGED socket
     ELSE stage' = [stage EXCEPT ![d] = "hello"] /\ socket' = d
  /\ UNCHANGED <<flags, online, link, timers, dead, current>>

(* The first message is written; wait for the proxy's answer.              *)
HelloSent(d) ==
  /\ stage[d] = "hello" /\ d \notin dead
  /\ stage' = [stage EXCEPT ![d] = "answer"]
  /\ UNCHANGED <<flags, online, link, socket, timers, dead, current>>

(* The proxy answered; the third message is being written.                 *)
Answered(d) ==
  /\ stage[d] = "answer" /\ d \notin dead
  /\ stage' = [stage EXCEPT ![d] = "confirm"]
  /\ UNCHANGED <<flags, online, link, socket, timers, dead, current>>

(* The handshake is complete and the pinned key matched: install the link. *)
Attached(d) ==
  /\ stage[d] = "confirm" /\ d \notin dead
  /\ stage'   = [stage EXCEPT ![d] = "linked"]
  /\ retry'   = RetryMin
  /\ online'  = TRUE
  /\ link'    = d
  /\ current' = current \cup {d}
  /\ UNCHANGED <<flags, socket, timer, orphans, dead>>

(* Mutant of Abandon: the catch block forgets to schedule.                 *)
AbandonForGood(d) ==
  /\ Discard(d)
  /\ online' = FALSE
  /\ UNCHANGED <<flags, link, timers>>

(* The catch block of `dial`.                                              *)
Abandon(d) ==
  /\ Discard(d)
  /\ online' = FALSE
  /\ Schedule
  /\ UNCHANGED <<flags, link>>

(* The proxy's message did not decrypt, or its key is not the pinned one.  *)
Refused(d) ==
  /\ stage[d] \in {"answer", "confirm"} /\ d \notin dead
  /\ Abandon(d)

(* The connection broke and the await rejects.  `readBytes` listens for    *)
(* 'error'; between `open` and the first read, and while the third message *)
(* is written, nobody does, and Node ends the process: not modelled.       *)
SocketFails(d) ==
  /\ stage[d] \in Greeting /\ d \notin dead
  /\ Abandon(d)

(* A dial notices that `drop` destroyed its socket: its await rejects.     *)
CutNoticed(d) ==
  /\ stage[d] \in Greeting /\ d \in dead
  /\ Abandon(d)

(* Mutant of LinkLost: the close callback schedules before it forgets.     *)
LinkLostStillOnline(d) ==
  /\ stage[d] = "linked"
  /\ Discard(d)
  /\ IF d \in current THEN Schedule ELSE UNCHANGED timers
  /\ UNCHANGED <<flags, online, link>>

(* MuxLink.destroy after remote close, error, bad frame or idle timeout,   *)
(* and the close callback it runs, which ignores links of an older         *)
(* generation.                                                             *)
LinkLost(d) ==
  /\ stage[d] = "linked"
  /\ Discard(d)
  /\ IF d \in current
     THEN online' = FALSE /\ link' = None /\ Schedule
     ELSE UNCHANGED <<online, link, timers>>
  /\ UNCHANGED <<flags>>

(* A reconnect timer fires: the armed one or an orphan.                    *)
TimerFires ==
  /\ \/ timer /\ timer' = FALSE /\ UNCHANGED orphans
     \/ orphans > 0 /\ orphans' = orphans - 1 /\ UNCHANGED timer
  /\ BeginDial
  /\ UNCHANGED <<flags, online, link, socket, retry, dead, current>>

(* `drop`: bump the generation, then destroy the timer, link and socket    *)
(* the fields refer to.  The installed link's callback runs at once and is *)
(* ignored; any other owner of the socket finds out later.                 *)
Drop ==
  /\ current' = {}
  /\ timer'   = FALSE
  /\ stage'   = [d \in Dial |-> IF d = link THEN "free" ELSE stage[d]]
  /\ dead'    = (dead \cup {socket}) \ {link, None}
  /\ link'    = None
  /\ socket'  = None
  /\ online'  = FALSE
  /\ UNCHANGED <<retry, orphans>>

Suspend == paused'  = TRUE /\ Drop /\ UNCHANGED stopped
Close   == stopped' = TRUE /\ Drop /\ UNCHANGED paused

(* `resume`.  Nothing in the code waits for an earlier dial to settle;     *)
(* Hasty = FALSE is an operator who does.                                  *)
Resume ==
  /\ ~stopped /\ paused
  /\ ~Hasty => Unsettled = {}
  /\ paused' = FALSE
  /\ retry'  = RetryMin
  /\ \E d \in Idle : stage' = [stage EXCEPT ![d] = "opening"]
  /\ UNCHANGED <<stopped, online, link, socket, timer, orphans, dead, current>>

Next ==
  \/ \E d \in Dial :
       \/ OpenFails(d) \/ Opened(d) \/ HelloSent(d) \/ Answered(d) \/ Attached(d)
       \/ Refused(d) \/ SocketFails(d) \/ CutNoticed(d) \/ LinkLost(d)
  \/ TimerFires
  \/ Suspend \/ Resume \/ Close

Spec == Init /\ [][Next]_vars

-----------------------------------------------------------------------------
(* What Node and the code guarantee: timers fire, `open` settles within    *)
(* CONNECT_TIMEOUT_MS, a write to the kernel completes or fails, and the   *)
(* owner of a destroyed socket is told.                                    *)
BridgeFairness ==
  /\ WF_vars(TimerFires)
  /\ \A d \in Dial :
       /\ WF_vars(Opened(d) \/ OpenFails(d))
       /\ WF_vars(stage[d] = "hello" /\ (HelloSent(d) \/ SocketFails(d)))
       /\ WF_vars(stage[d] = "confirm" /\ (Attached(d) \/ Refused(d) \/ SocketFails(d)))
       /\ WF_vars(CutNoticed(d))
       /\ WF_vars(d \in dead /\ LinkLost(d))

(* What is assumed of the relay where self-healing is claimed: it answers  *)
(* a handshake or hangs up, and a bridge that keeps trying gets in.        *)
ProxyFairness ==
  \A d \in Dial :
    /\ WF_vars(stage[d] = "answer" /\ (Answered(d) \/ Refused(d) \/ SocketFails(d)))
    /\ SF_vars(Opened(d)) /\ SF_vars(HelloSent(d))
    /\ SF_vars(Answered(d)) /\ SF_vars(Attached(d))

SilentProxySpec == Spec /\ BridgeFairness

-----------------------------------------------------------------------------
Cut == paused \/ stopped

(* "Cut mobile access": from the moment `suspend` or `close` returns there *)
(* is no link a phone's stream could live on, and none appears later, at   *)
(* whatever await a dial was when it was overtaken.                        *)
CutMeansNoLink == Cut => LiveLinks = {}

(* While access is on, exactly one thing is under way that can bring the   *)
(* bridge (back) online: an armed timer, a dial, or the link itself.  None *)
(* would strand the bridge, two would open rival links.                    *)
OneDriver ==
  LET Busy == Unsettled \cup LiveLinks IN
  ~Cut => /\ orphans = 0
          /\ IF timer THEN Busy = {} ELSE \E d \in Dial : Busy = {d}

(* `connected`, which the control page shows, is never a leftover: it says *)
(* true only while the installed link is alive.                            *)
OnlineMeansLinked == online => link \in LiveLinks

(* Under a patient operator `connected` tells the whole truth.             *)
OnlineIffLinked == online <=> LiveLinks # {}

(* The delay between attempts stays within its limits, and only ever starts*)
(* over because a link was established or the operator asked: a relay that *)
(* refuses every handshake cannot be hammered at RECONNECT_MIN_MS.         *)
BackoffKept ==
  [][/\ retry' \in RetryMin..RetryMax
     /\ retry' < retry => (online' /\ link' # link) \/ (paused /\ ~paused')]_vars

(* What the switch promises its operator, and what it promises when the    *)
(* relay can be reached.                                                   *)
Switch == INSTANCE AccessSwitch WITH
            mode <- IF stopped THEN "off" ELSE IF paused THEN "cut" ELSE "on",
            up   <- LiveLinks # {}

IsASwitch      == Switch!Spec
IsALiveSwitch  == ProxyFairness => Switch!ComesUp

(* "Connect, and keep reconnecting until close": again and again the       *)
(* bridge is linked, or cut, or opens a new connection.                    *)
KeepsReconnecting ==
  []<>(online \/ Cut \/ \E d \in Dial : stage[d] = "opening")

=============================================================================
