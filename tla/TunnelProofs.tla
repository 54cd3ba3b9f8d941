---------------------------- MODULE TunnelProofs ----------------------------
(***************************************************************************)
(* Proofs about Tunnel for every set of dials and every pair of delays.    *)
(* The first part holds however the operator uses the switch; the second   *)
(* assumes an operator who resumes only when no dial is unsettled, and     *)
(* shows that the tunnel then implements AccessSwitch.                     *)
(***************************************************************************)
EXTENDS Tunnel, TLAPS

USE DialAssumption, RetryAssumption, OrphanAssumption, HastyAssumption

-----------------------------------------------------------------------------
(* What the helpers do to the types, whatever action uses them.            *)
LEMMA ScheduleTypes ==
  ASSUME TypeOK, Schedule
  PROVE  retry' \in RetryMin..RetryMax /\ timer' \in BOOLEAN /\ orphans' \in 0..MaxOrphans
<1> USE DEF TypeOK, Schedule, timers
<1>1. retry' \in RetryMin..RetryMax
  BY DEF Smaller
<1>2. timer' \in BOOLEAN
  OBVIOUS
<1>3. orphans' \in 0..MaxOrphans
  OBVIOUS
<1> QED
  BY <1>1, <1>2, <1>3

(* Discarding a socket keeps the types of the dials.                       *)
LEMMA DiscardTypes ==
  ASSUME TypeOK, NEW d \in Dial, Discard(d)
  PROVE  /\ stage' \in [Dial -> Stage] /\ socket' \in Dial \cup {None}
         /\ dead' \in SUBSET Dial /\ current' \in SUBSET Dial
BY DEF TypeOK, Discard, Stage

(* Abandoning a dial keeps every type.                                     *)
LEMMA AbandonTypes ==
  ASSUME TypeOK, NEW d \in Dial, Abandon(d)
  PROVE  TypeOK'
<1>1. retry' \in RetryMin..RetryMax /\ timer' \in BOOLEAN /\ orphans' \in 0..MaxOrphans
  BY ScheduleTypes DEF Abandon
<1>2. /\ stage' \in [Dial -> Stage] /\ socket' \in Dial \cup {None}
      /\ dead' \in SUBSET Dial /\ current' \in SUBSET Dial
  BY DiscardTypes DEF Abandon
<1>3. /\ stopped' \in BOOLEAN /\ paused' \in BOOLEAN /\ online' \in BOOLEAN
      /\ link' \in Dial \cup {None}
  BY DEF Abandon, TypeOK, flags
<1> QED
  BY <1>1, <1>2, <1>3 DEF TypeOK

(* One step keeps every variable in its type.                              *)
LEMMA TypeStep == TypeOK /\ [Next]_vars => TypeOK'
<1> SUFFICES ASSUME TypeOK, [Next]_vars PROVE TypeOK'
  OBVIOUS
<1>1. ASSUME NEW d \in Dial, OpenFails(d) PROVE TypeOK'
  <2>1. retry' \in RetryMin..RetryMax /\ timer' \in BOOLEAN /\ orphans' \in 0..MaxOrphans
    BY <1>1, ScheduleTypes DEF OpenFails
  <2>2. stage' \in [Dial -> Stage]
    BY <1>1 DEF OpenFails, TypeOK, Stage
  <2> QED
    BY <1>1, <2>1, <2>2 DEF OpenFails, TypeOK, flags
<1>2. ASSUME NEW d \in Dial, Opened(d) PROVE TypeOK'
  <2>1. stage' \in [Dial -> Stage]
    BY <1>2 DEF Opened, TypeOK, Stage, Greeting
  <2>2. socket' \in Dial \cup {None}
    BY <1>2 DEF Opened, TypeOK
  <2> QED
    BY <1>2, <2>1, <2>2 DEF Opened, TypeOK, flags, timers
<1>3. ASSUME NEW d \in Dial, HelloSent(d) \/ Answered(d) PROVE TypeOK'
  <2>1. stage' \in [Dial -> Stage]
    BY <1>3 DEF HelloSent, Answered, TypeOK, Stage, Greeting
  <2> QED
    BY <1>3, <2>1 DEF HelloSent, Answered, TypeOK, flags, timers
<1>4. ASSUME NEW d \in Dial, Attached(d) PROVE TypeOK'
  <2>1. stage' \in [Dial -> Stage]
    BY <1>4 DEF Attached, TypeOK, Stage
  <2>2. retry' \in RetryMin..RetryMax
    BY <1>4 DEF Attached
  <2> QED
    BY <1>4, <2>1, <2>2 DEF Attached, TypeOK, flags
<1>5. ASSUME NEW d \in Dial, Refused(d) \/ SocketFails(d) \/ CutNoticed(d) PROVE TypeOK'
  <2>1. Abandon(d)
    BY <1>5 DEF Refused, SocketFails, CutNoticed, TypeOK
  <2> QED
    BY <2>1, AbandonTypes
<1>6. ASSUME NEW d \in Dial, LinkLost(d) PROVE TypeOK'
  <2>1. /\ stage' \in [Dial -> Stage] /\ socket' \in Dial \cup {None}
        /\ dead' \in SUBSET Dial /\ current' \in SUBSET Dial
    BY <1>6, DiscardTypes DEF LinkLost
  <2>2. retry' \in RetryMin..RetryMax /\ timer' \in BOOLEAN /\ orphans' \in 0..MaxOrphans
    BY <1>6, ScheduleTypes DEF LinkLost, TypeOK, timers
  <2> QED
    BY <1>6, <2>1, <2>2 DEF LinkLost, TypeOK, flags
<1>7. CASE TimerFires
  <2>1. stage' \in [Dial -> Stage]
    BY <1>7 DEF TimerFires, BeginDial, Idle, TypeOK, Stage
  <2>2. timer' \in BOOLEAN
    BY <1>7 DEF TimerFires, TypeOK
  <2>3. orphans' \in 0..MaxOrphans
    BY <1>7 DEF TimerFires, TypeOK
  <2> QED
    BY <1>7, <2>1, <2>2, <2>3 DEF TimerFires, TypeOK, flags
<1>8. CASE Suspend \/ Close
  <2>1. stage' \in [Dial -> Stage]
    BY <1>8 DEF Suspend, Close, Drop, TypeOK, Stage
  <2>2. dead' \in SUBSET Dial
    BY <1>8 DEF Suspend, Close, Drop, TypeOK
  <2> QED
    BY <1>8, <2>1, <2>2 DEF Suspend, Close, Drop, TypeOK
<1>9. CASE Resume
  <2>1. stage' \in [Dial -> Stage]
    BY <1>9 DEF Resume, Idle, TypeOK, Stage
  <2>2. retry' \in RetryMin..RetryMax
    BY <1>9 DEF Resume
  <2>3. /\ paused' \in BOOLEAN
        /\ UNCHANGED <<stopped, online, link, socket, timer, orphans, dead, current>>
    BY <1>9 DEF Resume
  <2> QED
    BY <2>1, <2>2, <2>3 DEF TypeOK
<1>10. CASE UNCHANGED vars
  BY <1>10 DEF vars, TypeOK
<1> QED
  BY <1>1, <1>2, <1>3, <1>4, <1>5, <1>6, <1>7, <1>8, <1>9, <1>10 DEF Next

(* The types hold before the tunnel starts.                                *)
LEMMA TypeInit == Init => TypeOK
<1> SUFFICES ASSUME Init PROVE TypeOK
  OBVIOUS
<1>1. stage \in [Dial -> Stage]
  BY DEF Init, Stage
<1>2. retry \in RetryMin..RetryMax /\ orphans \in 0..MaxOrphans
  BY DEF Init
<1>3. /\ stopped = FALSE /\ paused = FALSE /\ online = FALSE /\ timer = FALSE
      /\ link = None /\ socket = None /\ dead = {} /\ current = {}
  BY DEF Init
<1> QED
  BY <1>1, <1>2, <1>3 DEF TypeOK

(* The tunnel's fields and its dials always have their types: in           *)
(* particular the delay between attempts stays within its two bounds.      *)
THEOREM TypeCorrect == Spec => []TypeOK
BY TypeInit, TypeStep, PTL DEF Spec

-----------------------------------------------------------------------------
(* `connected` is never a leftover, however hastily the switch is used.    *)
(* Inductive because the installed link is always one whose close callback *)
(* would still be heard: alive, and of the present generation.             *)
LinkHeard == link # None => stage[link] = "linked" /\ link \in current /\ link \notin dead

OnlineInv == TypeOK /\ LinkHeard /\ (online => link # None)

(* Every step keeps the link one whose handshake was heard, and the flag   *)
(* no longer up than the link.                                             *)
LEMMA OnlineStep == OnlineInv /\ [Next]_vars => OnlineInv'
<1> SUFFICES ASSUME OnlineInv, [Next]_vars PROVE LinkHeard' /\ (online' => link' # None)
  BY TypeStep DEF OnlineInv
<1> USE DEF OnlineInv, LinkHeard, TypeOK
<1>1. ASSUME NEW d \in Dial, OpenFails(d) PROVE LinkHeard' /\ (online' => link' # None)
  BY <1>1 DEF OpenFails
<1>2. ASSUME NEW d \in Dial, Opened(d) PROVE LinkHeard' /\ (online' => link' # None)
  BY <1>2 DEF Opened
<1>3. ASSUME NEW d \in Dial, HelloSent(d) \/ Answered(d) PROVE LinkHeard' /\ (online' => link' # None)
  BY <1>3 DEF HelloSent, Answered
<1>4. ASSUME NEW d \in Dial, Attached(d) PROVE LinkHeard' /\ (online' => link' # None)
  BY <1>4 DEF Attached
<1>5. ASSUME NEW d \in Dial, Refused(d) \/ SocketFails(d) \/ CutNoticed(d)
      PROVE  LinkHeard' /\ (online' => link' # None)
  <2>1. stage[d] # "linked" /\ Discard(d) /\ online' = FALSE /\ link' = link
    BY <1>5 DEF Refused, SocketFails, CutNoticed, Abandon, Greeting
  <2> QED
    BY <2>1 DEF Discard
<1>6. ASSUME NEW d \in Dial, LinkLost(d) PROVE LinkHeard' /\ (online' => link' # None)
  BY <1>6 DEF LinkLost, Discard
<1>7. CASE TimerFires
  <2>1. \A e \in Dial : stage[e] = "linked" => stage'[e] = "linked"
    BY <1>7 DEF TimerFires, BeginDial, Idle
  <2> QED
    BY <1>7, <2>1 DEF TimerFires
<1>8. CASE Suspend \/ Close
  BY <1>8 DEF Suspend, Close, Drop
<1>9. CASE Resume
  <2>1. \A e \in Dial : stage[e] = "linked" => stage'[e] = "linked"
    BY <1>9 DEF Resume, Idle
  <2> QED
    BY <1>9, <2>1 DEF Resume
<1>10. CASE UNCHANGED vars
  BY <1>10 DEF vars
<1> QED
  BY <1>1, <1>2, <1>3, <1>4, <1>5, <1>6, <1>7, <1>8, <1>9, <1>10 DEF Next

(* Whenever `connected` says true, the installed link is alive.            *)
THEOREM OnlineIsTrue == Spec => []OnlineMeansLinked
<1>1. Init => OnlineInv
  BY TypeInit DEF Init, OnlineInv, LinkHeard
<1>2. OnlineInv => OnlineMeansLinked
  BY DEF OnlineInv, LinkHeard, TypeOK, OnlineMeansLinked, LiveLinks
<1> QED
  BY <1>1, <1>2, OnlineStep, PTL DEF Spec

(* A step that shortens the delay.                                         *)
Restarts == (online' /\ link' # link) \/ (paused /\ ~paused')

(* A delay shrinks only where a link comes up or the operator starts over. *)
LEMMA BackoffStep == OnlineInv /\ [Next]_vars => (retry' < retry => Restarts)
<1> SUFFICES ASSUME OnlineInv, [Next]_vars, retry' < retry PROVE Restarts
  OBVIOUS
<1>1. retry \in Nat /\ retry <= RetryMax /\ RetryMax \in Nat
  BY RetryAssumption DEF OnlineInv, TypeOK
<1>2. ~Schedule
  <2> SUFFICES ASSUME Schedule PROVE FALSE
    OBVIOUS
  <2>1. retry' = retry \/ retry' = Smaller(retry * 2, RetryMax)
    BY DEF Schedule, timers
  <2> QED
    BY <1>1, <2>1 DEF Smaller
<1>3. retry' # retry
  BY <1>1
<1>4. ASSUME NEW d \in Dial, Attached(d) PROVE Restarts
  <2>1. stage[d] = "confirm" /\ online' = TRUE /\ link' = d
    BY <1>4 DEF Attached
  <2>2. link # d
    BY <2>1, DialAssumption DEF OnlineInv, LinkHeard
  <2> QED
    BY <2>1, <2>2 DEF Restarts
<1>5. CASE Resume
  BY <1>5 DEF Resume, Restarts
<1>6. ASSUME NEW d \in Dial, OpenFails(d) \/ Refused(d) \/ SocketFails(d) \/ CutNoticed(d)
      PROVE  FALSE
  BY <1>2, <1>6 DEF OpenFails, Refused, SocketFails, CutNoticed, Abandon
<1>7. ASSUME NEW d \in Dial, Opened(d) \/ HelloSent(d) \/ Answered(d) \/ LinkLost(d)
      PROVE  FALSE
  BY <1>2, <1>3, <1>7 DEF Opened, HelloSent, Answered, LinkLost, timers
<1>8. CASE TimerFires \/ Suspend \/ Close \/ UNCHANGED vars
  BY <1>3, <1>8 DEF TimerFires, Suspend, Close, Drop, vars
<1> QED
  BY <1>4, <1>5, <1>6, <1>7, <1>8 DEF Next

(* However hasty the operator, the delay stays within its limits and only  *)
(* starts over with a new link or a resume.                                *)
THEOREM BackoffHolds == Spec => BackoffKept
<1>1. Init => OnlineInv
  BY TypeInit DEF Init, OnlineInv, LinkHeard
<1>2. OnlineInv /\ OnlineInv' /\ [Next]_vars
        => /\ retry' \in RetryMin..RetryMax
           /\ retry' < retry => (online' /\ link' # link) \/ (paused /\ ~paused')
  BY BackoffStep DEF OnlineInv, TypeOK, Restarts
<1> QED
  BY <1>1, <1>2, OnlineStep, PTL DEF Spec, BackoffKept

-----------------------------------------------------------------------------
(* The patient operator.  The properties of the switch are not inductive:  *)
(* a dial that is still greeting may attach later, so what it would attach *)
(* under, and which socket a cut would destroy, belong to the invariant.   *)
Busy == {d \in Dial : stage[d] # "free"}

OneBusy     == \A d, e \in Busy : d = e
TimerAlone  == timer => ~Cut /\ Busy = {}
OnIsDriven  == ~Cut => dead = {} /\ (timer \/ Busy # {})
LinkedIsAll == \A d \in Dial : stage[d] = "linked" => ~Cut /\ online /\ link = d /\ socket = d
GreetingHeld ==
  \A d \in Dial : stage[d] \in Greeting /\ d \notin dead => ~Cut /\ socket = d
DeadGreeted == \A d \in dead : stage[d] \in Greeting
SocketUsed  == socket # None => stage[socket] \in Greeting \cup {"linked"}

SwitchInv ==
  /\ OnlineInv
  /\ orphans = 0
  /\ OneBusy /\ TimerAlone /\ OnIsDriven /\ LinkedIsAll
  /\ GreetingHeld /\ DeadGreeted /\ SocketUsed

(* With one busy dial, an action of that dial finds the others idle.       *)
LEMMA OthersIdle ==
  ASSUME SwitchInv, NEW d \in Dial, stage[d] # "free"
  PROVE  ~timer /\ \A e \in Dial : e # d => stage[e] = "free"
BY DEF SwitchInv, OneBusy, TimerAlone, Busy

(* A tunnel that has not started is driven by nothing and needs nothing.   *)
LEMMA SwitchInit == Init => SwitchInv
<1> SUFFICES ASSUME Init PROVE SwitchInv
  OBVIOUS
<1>1. OnlineInv
  BY TypeInit DEF Init, OnlineInv, LinkHeard
<1>2. PICK d \in Dial : stage = [e \in Dial |-> IF e = d THEN "opening" ELSE "free"]
  BY DEF Init
<1> QED
  BY <1>1, <1>2 DEF Init, SwitchInv, OneBusy, TimerAlone, OnIsDriven, LinkedIsAll,
                    GreetingHeld, DeadGreeted, SocketUsed, Busy, Greeting, Cut

(* Every step keeps the strengthened invariant, if `resume` is never       *)
(* called while a dial is unsettled.                                       *)
LEMMA SwitchStep == ASSUME ~Hasty PROVE SwitchInv /\ [Next]_vars => SwitchInv'
<1> SUFFICES ASSUME SwitchInv, [Next]_vars PROVE SwitchInv'
  OBVIOUS
<1> DEFINE Rest == /\ orphans = 0
                   /\ OneBusy /\ TimerAlone /\ OnIsDriven /\ LinkedIsAll
                   /\ GreetingHeld /\ DeadGreeted /\ SocketUsed
<1>0. OnlineInv' /\ (Rest' => SwitchInv')
  BY OnlineStep DEF SwitchInv
<1>t. TypeOK
  BY DEF SwitchInv, OnlineInv
<1> USE <1>t DEF SwitchInv, OneBusy, TimerAlone, OnIsDriven, LinkedIsAll, GreetingHeld,
                 DeadGreeted, SocketUsed, Busy, Greeting, Cut, TypeOK
<1>1. ASSUME NEW d \in Dial, OpenFails(d) PROVE Rest'
  BY <1>1, OthersIdle DEF OpenFails, Schedule, flags, timers
<1>2. ASSUME NEW d \in Dial, Opened(d) PROVE Rest'
  BY <1>2, OthersIdle DEF Opened, flags, timers
<1>3. ASSUME NEW d \in Dial, HelloSent(d) \/ Answered(d) PROVE Rest'
  BY <1>3, OthersIdle DEF HelloSent, Answered, flags, timers
<1>4. ASSUME NEW d \in Dial, Attached(d) PROVE Rest'
  BY <1>4, OthersIdle DEF Attached, flags
<1>5. ASSUME NEW d \in Dial, Refused(d) \/ SocketFails(d) \/ CutNoticed(d) PROVE Rest'
  <2>1. stage[d] \in Greeting /\ Abandon(d)
    BY <1>5 DEF Refused, SocketFails, CutNoticed
  <2> QED
    BY <2>1, OthersIdle DEF Abandon, Discard, Schedule, flags, timers
<1>6. ASSUME NEW d \in Dial, LinkLost(d) PROVE Rest'
  BY <1>6, OthersIdle DEF LinkLost, Discard, Schedule, flags, timers, OnlineInv, LinkHeard
<1>7. ASSUME TimerFires PROVE Rest'
  BY <1>7 DEF TimerFires, BeginDial, Idle, flags
<1>8. ASSUME Suspend \/ Close PROVE Rest'
  BY <1>8 DEF Suspend, Close, Drop
<1>9. ASSUME Resume PROVE Rest'
  <2>1. PICK d \in Dial : stage[d] = "free" /\ stage' = [stage EXCEPT ![d] = "opening"]
    BY <1>9 DEF Resume, Idle
  <2>2. \A e \in Dial : stage[e] = "free"
    <3>1. \A e \in Dial : stage[e] # "linked"
      BY <1>9 DEF Resume
    <3>2. \A e \in Dial : stage[e] # "opening" /\ stage[e] \notin Greeting
      BY <1>9 DEF Resume, Unsettled
    <3> QED
      BY <3>1, <3>2 DEF Stage
  <2>3. dead = {} /\ ~timer
    BY <1>9, <2>2 DEF Resume
  <2> QED
    BY <1>9, <2>1, <2>2, <2>3 DEF Resume
<1>10. ASSUME UNCHANGED vars PROVE Rest'
  BY <1>10 DEF vars
<1> QED
  BY <1>0, <1>1, <1>2, <1>3, <1>4, <1>5, <1>6, <1>7, <1>8, <1>9, <1>10 DEF Next

(* So it holds in every reachable state.                                   *)
LEMMA SwitchAlways == ASSUME ~Hasty PROVE Spec => []SwitchInv
BY SwitchInit, SwitchStep, PTL DEF Spec

(* Cutting or closing leaves no live link, and none appears later.         *)
THEOREM CutHolds == ASSUME ~Hasty PROVE Spec => []CutMeansNoLink
<1>1. SwitchInv => CutMeansNoLink
  BY DEF SwitchInv, LinkedIsAll, CutMeansNoLink, LiveLinks
<1> QED
  BY <1>1, SwitchAlways, PTL

(* While access is on, exactly one activity works on being reachable.      *)
THEOREM AlwaysDriven == ASSUME ~Hasty PROVE Spec => []OneDriver
<1>1. SwitchInv => OneDriver
  <2> SUFFICES ASSUME SwitchInv, ~Cut
               PROVE  /\ orphans = 0
                      /\ IF timer THEN Unsettled \cup LiveLinks = {}
                         ELSE \E d \in Dial : Unsettled \cup LiveLinks = {d}
    BY DEF OneDriver
  <2>1. orphans = 0 /\ dead = {}
    BY DEF SwitchInv, OnIsDriven
  <2>2. Unsettled \cup LiveLinks = Busy
    <3>1. \A d \in Dial : stage[d] \in {"free", "opening", "linked"} \cup Greeting
      BY DEF SwitchInv, OnlineInv, TypeOK, Stage
    <3>2. "free" \notin Greeting
      BY DEF Greeting
    <3> QED
      BY <2>1, <3>1, <3>2 DEF Unsettled, LiveLinks, Busy
  <2>3. CASE timer
    BY <2>1, <2>2, <2>3 DEF SwitchInv, TimerAlone
  <2>4. CASE ~timer
    <3>1. PICK d \in Dial : d \in Busy
      BY <2>4 DEF SwitchInv, OnIsDriven, Busy
    <3>2. Busy = {d}
      BY <3>1 DEF SwitchInv, OneBusy, Busy
    <3> QED
      BY <2>1, <2>2, <2>4, <3>2
  <2> QED
    BY <2>3, <2>4
<1> QED
  BY <1>1, SwitchAlways, PTL

(* `connected` is exactly whether a live link exists.                      *)
THEOREM OnlineIsExact == ASSUME ~Hasty PROVE Spec => []OnlineIffLinked
<1>1. SwitchInv => OnlineIffLinked
  <2> SUFFICES ASSUME SwitchInv PROVE online <=> LiveLinks # {}
    BY DEF OnlineIffLinked
  <2>1. ASSUME online PROVE LiveLinks # {}
    BY <2>1 DEF SwitchInv, OnlineInv, LinkHeard, TypeOK, LiveLinks
  <2>2. ASSUME LiveLinks # {} PROVE online
    BY <2>2 DEF SwitchInv, LinkedIsAll, LiveLinks
  <2> QED
    BY <2>1, <2>2
<1> QED
  BY <1>1, SwitchAlways, PTL

-----------------------------------------------------------------------------
(* The tunnel implements AccessSwitch: every step is a step of the switch  *)
(* or leaves both its mode and whether it is up alone.                     *)
LEMMA SwitchRefines ==
  ASSUME ~Hasty, SwitchInv, SwitchInv', [Next]_vars
  PROVE  [Switch!Next]_(Switch!vars)
<1> USE DEF Switch!Next, Switch!vars
<1> DEFINE Same == UNCHANGED flags /\ LiveLinks' = LiveLinks
<1>0. Same => UNCHANGED Switch!vars
  BY DEF flags
<1>t. TypeOK
  BY DEF SwitchInv, OnlineInv
<1>1. ASSUME NEW d \in Dial, OpenFails(d) \/ Opened(d) \/ HelloSent(d) \/ Answered(d)
      PROVE  Same
  BY <1>1, <1>t DEF OpenFails, Opened, HelloSent, Answered, LiveLinks, TypeOK, flags
<1>2. ASSUME NEW d \in Dial, Attached(d)
      PROVE  Switch!Connect
  <2>1. ~Cut /\ LiveLinks = {}
    BY <1>2, OthersIdle DEF Attached, SwitchInv, GreetingHeld, Greeting, LiveLinks
  <2>2. d \in LiveLinks'
    BY <1>2, <1>t DEF Attached, LiveLinks, TypeOK
  <2> QED
    BY <1>2, <2>1, <2>2 DEF Attached, Switch!Connect, Cut, flags
<1>3. ASSUME NEW d \in Dial, Refused(d) \/ SocketFails(d) \/ CutNoticed(d)
      PROVE  Same
  <2>1. stage[d] \in Greeting /\ Discard(d) /\ UNCHANGED flags
    BY <1>3 DEF Refused, SocketFails, CutNoticed, Abandon, Greeting
  <2> QED
    BY <1>t, <2>1 DEF Discard, LiveLinks, TypeOK, Greeting
<1>4. ASSUME NEW d \in Dial, LinkLost(d)
      PROVE  Switch!Lose
  <2>1. LiveLinks = {d} /\ LiveLinks' = {}
    <3>1. d \notin dead
      BY <1>4 DEF LinkLost, SwitchInv, DeadGreeted, Greeting
    <3> QED
      BY <1>4, <1>t, <3>1, OthersIdle DEF LinkLost, Discard, LiveLinks, TypeOK
  <2> QED
    BY <1>4, <2>1 DEF LinkLost, Switch!Lose, flags
<1>5. ASSUME TimerFires
      PROVE  Same
  BY <1>5, <1>t DEF TimerFires, BeginDial, Idle, LiveLinks, TypeOK, flags
<1>6. ASSUME Suspend \/ Close
      PROVE  Switch!Cut \/ Switch!Off
  <2>1. LiveLinks' = {}
    BY <1>6 DEF SwitchInv, LinkedIsAll, LiveLinks, Suspend, Close, Cut
  <2> QED
    BY <1>6, <2>1, <1>t DEF Suspend, Close, Switch!Cut, Switch!Off, TypeOK
<1>7. ASSUME Resume
      PROVE  Switch!Restore
  <2>1. LiveLinks' = LiveLinks
    BY <1>7, <1>t DEF Resume, Idle, LiveLinks, TypeOK
  <2> QED
    BY <1>7, <2>1 DEF Resume, Switch!Restore
<1>8. ASSUME UNCHANGED vars
      PROVE  Same
  BY <1>8 DEF vars, flags, LiveLinks
<1> QED
  BY <1>0, <1>1, <1>2, <1>3, <1>4, <1>5, <1>6, <1>7, <1>8 DEF Next

(* What ProxyTunnel does is what the switch promises: up only while on,    *)
(* down at once and for as long as it is cut, off for good once closed.    *)
THEOREM ImplementsSwitch == ASSUME ~Hasty PROVE Spec => IsASwitch
<1>1. Init => Switch!Init
  BY DEF Init, Switch!Init, LiveLinks
<1> QED
  BY <1>1, SwitchAlways, SwitchRefines, PTL DEF Spec, IsASwitch, Switch!Spec

=============================================================================
