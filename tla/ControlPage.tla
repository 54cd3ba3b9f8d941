---------------------------- MODULE ControlPage ----------------------------
(***************************************************************************)
(* The Mobile Access page (the script in src/src/web.ts) and the control   *)
(* routes it calls (src/src/api.ts): one page and whoever else uses the    *)
(* routes, another page or the Mac app.  Requests are served and answered  *)
(* in any order, and any may fail, the one for the image of the code too.  *)
(*                                                                         *)
(* Codes are numbered as they are minted; `expiresAt` tells them apart, so *)
(* no two are minted in one millisecond.  The tunnel is the AccessSwitch   *)
(* it implements.  Revoke and rename go through `act` as cut and restore   *)
(* do; what they change is modelled in DeviceRegistry.                     *)
(***************************************************************************)
EXTENDS Integers, FiniteSets

CONSTANTS
  MaxChains,  \* bound: chains of calls the page has in flight
  MaxClicks,  \* bound: codes asked for by hand, here or elsewhere
  MaxFaults   \* bound: requests that fail

ASSUME PageAssumption == MaxChains \in Nat \ {0} /\ MaxClicks \in Nat /\ MaxFaults \in Nat

VARIABLES
  mode, up,      \* the tunnel, as AccessSwitch
  code, minted,  \* the live pairing code (0: none), how many were minted
  page,          \* what the script keeps and what it shows
  call,          \* the call each chain is at
  clicks, faults

vars == <<mode, up, code, minted, page, call, clicks, faults>>

Switch == INSTANCE AccessSwitch
Chain  == 1..MaxChains
Codes  == 0..(MaxClicks + 1)

(* What `status` answers; `minted` is for the properties.                  *)
Status   == [ok |-> TRUE, code |-> code, connected |-> up, disabled |-> mode = "cut", minted |-> minted]
NoStatus == [ok |-> FALSE, code |-> 0, connected |-> FALSE, disabled |-> FALSE, minted |-> 0]

(* The image of the QR code, while it holds no code.                       *)
Loading == -1   \* asked for
Broken  == -2   \* the request failed; the browser does not repeat it
Images  == Codes \cup {Loading, Broken}

Idle == [op |-> "none", at |-> "page", answer |-> NoStatus, since |-> -1]

(* A request; `since`: how many codes the page knew of when it asked for   *)
(* one by itself, -1 if it was told to.                                    *)
Asks(op, since) == [op |-> op, at |-> "server", answer |-> NoStatus, since |-> since]

Statuses == [ok : BOOLEAN, code : Codes, connected : BOOLEAN, disabled : BOOLEAN, minted : Codes]

TypeOK ==
  /\ Switch!TypeOK /\ minted \in Codes /\ code \in {0, minted}
  /\ page \in [status : Statuses, autoPaired : BOOLEAN, autoMints : Nat, minting : BOOLEAN,
                src : Codes, img : Images]
  /\ call \in [Chain -> [op : {"none", "status", "pair", "disconnect", "connect"},
                        at : {"page", "server"}, answer : Statuses, since : Codes \cup {-1}]]
  /\ clicks \in 0..MaxClicks /\ faults \in 0..MaxFaults

Init ==
  /\ Switch!Init /\ code = 0 /\ minted = 0 /\ clicks = 0 /\ faults = 0
  /\ page = [status |-> NoStatus, autoPaired |-> FALSE, autoMints |-> 0,
              minting |-> FALSE, src |-> 0, img |-> 0]
  /\ call = [k \in Chain |-> Idle]

-----------------------------------------------------------------------------
Put(k, c) == call' = [call EXCEPT ![k] = c]

(* `refresh`, at load and every three seconds.                             *)
Refresh(k) ==
  /\ call[k] = Idle
  /\ Put(k, Asks("status", -1))
  /\ UNCHANGED <<mode, up, code, minted, page, clicks, faults>>

(* "Add Device" or "New QR Code": `pair`.                                  *)
ClickPair(k) ==
  /\ call[k] = Idle /\ clicks < MaxClicks
  /\ clicks' = clicks + 1
  /\ page' = [page EXCEPT !.minting = TRUE]
  /\ Put(k, Asks("pair", -1))
  /\ UNCHANGED <<mode, up, code, minted, faults>>

(* "Cut Off" or "Restore", whichever the last status makes the page offer. *)
ClickSwitch(k) ==
  LET s == page.status IN
  /\ call[k] = Idle /\ s.ok /\ (s.connected \/ s.disabled)
  /\ Put(k, Asks(IF s.connected THEN "disconnect" ELSE "connect", -1))
  /\ UNCHANGED <<mode, up, code, minted, page, clicks, faults>>

(* The routes: status reads, pair mints and so retires, and the switch.    *)
Serve(k) ==
  LET c == call[k] IN
  /\ c.at = "server"
  /\ Put(k, [c EXCEPT !.at = "page", !.answer = IF c.op = "status" THEN Status ELSE [@ EXCEPT !.ok = TRUE]])
  /\ IF c.op = "pair" THEN minted' = minted + 1 /\ code' = minted' ELSE UNCHANGED <<minted, code>>
  /\ CASE c.op = "disconnect"                -> Switch!Cut
       [] c.op = "connect" /\ mode = "cut"   -> Switch!Restore
       [] OTHER                              -> UNCHANGED <<mode, up>>
  /\ UNCHANGED <<page, clicks, faults>>

(* A call fails on the way there or back: the page learns only that.       *)
Fail(k) ==
  /\ call[k] # Idle /\ faults < MaxFaults
  /\ faults' = faults + 1
  /\ Put(k, [call[k] EXCEPT !.at = "page", !.answer = NoStatus])
  /\ UNCHANGED <<mode, up, code, minted, page, clicks>>

-----------------------------------------------------------------------------
(* renderPairing: the image is asked for again only when its address       *)
(* changes, whatever became of it.                                         *)
Paired(w, c) == [w EXCEPT !.src = c, !.img = IF c = 0 THEN 0 ELSE IF c = w.src THEN @ ELSE Loading]

(* Mutant of Minting: a page mints whatever it was told.                   *)
MintingAnyway(status) == ~page.autoPaired

(* Does this status make the page ask for a code by itself?                *)
Minting(status) == ~page.autoPaired /\ status.code = 0

(* Mutant of OnStatus: the image stays as long as there is one.            *)
OnStatusKeepingImage(k, status) ==
  LET mint == Minting(status) IN
  /\ page' = [page EXCEPT !.status = status, !.autoPaired = TRUE, !.minting = @ \/ mint,
                          !.autoMints = IF mint THEN @ + 1 ELSE @,
                          !.src = status.code, !.img = IF @ > 0 THEN @ ELSE Loading]
  /\ Put(k, IF mint THEN Asks("pair", status.minted) ELSE Idle)

(* Mutant of OnStatus: the page remembers that it has paired only after it *)
(* has awaited the mint.                                                   *)
OnStatusPairedLate(k, status) ==
  LET mint == Minting(status) IN
  /\ page' = [Paired(page, status.code) EXCEPT
                !.status = status, !.autoPaired = @ \/ ~mint, !.minting = @ \/ mint,
                !.autoMints = IF mint THEN @ + 1 ELSE @]
  /\ Put(k, IF mint THEN Asks("pair", status.minted) ELSE Idle)

(* refresh goes on with the status: shown, and at the first one a code     *)
(* asked for if there is none.                                             *)
OnStatus(k, status) ==
  LET mint == Minting(status) IN
  /\ page' = [Paired(page, status.code) EXCEPT
                !.status = status, !.autoPaired = TRUE, !.minting = @ \/ mint,
                !.autoMints = IF mint THEN @ + 1 ELSE @]
  /\ Put(k, IF mint THEN Asks("pair", status.minted) ELSE Idle)

(* Mutant of OnFailure: a mint that fails leaves `minting` set.            *)
OnFailureMinting(k, op) ==
  /\ page' = [Paired(page, 0) EXCEPT !.status = NoStatus]
  /\ Put(k, Idle)

(* The catch of refresh, act and pair.                                     *)
OnFailure(k, op) ==
  /\ page' = [Paired(page, 0) EXCEPT !.status = NoStatus, !.minting = @ /\ op # "pair"]
  /\ Put(k, Idle)

(* pair and act go on with a refresh.                                      *)
OnDone(k, op) ==
  /\ page' = [page EXCEPT !.minting = @ /\ op # "pair"]
  /\ Put(k, Asks("status", -1))

Answer(k) ==
  LET c == call[k] IN
  /\ c.at = "page" /\ c # Idle
  /\ \/ ~c.answer.ok /\ OnFailure(k, c.op)
     \/ c.answer.ok /\ c.op = "status" /\ OnStatus(k, c.answer)
     \/ c.answer.ok /\ c.op # "status" /\ OnDone(k, c.op)
  /\ UNCHANGED <<mode, up, code, minted, clicks, faults>>

(* The QR route draws whatever code is live when the image is asked for.   *)
Draw ==
  /\ page.img = Loading
  /\ page' = [page EXCEPT !.img = code]
  /\ UNCHANGED <<mode, up, code, minted, call, clicks, faults>>

(* The request for the image fails: nobody listens for that.               *)
DrawFails ==
  /\ page.img = Loading /\ faults < MaxFaults
  /\ faults' = faults + 1
  /\ page' = [page EXCEPT !.img = Broken]
  /\ UNCHANGED <<mode, up, code, minted, call, clicks>>

(* A phone redeems the code, or it expires.                                *)
CodeGoes ==
  /\ code # 0 /\ code' = 0
  /\ UNCHANGED <<mode, up, minted, page, call, clicks, faults>>

LinkChanges == (Switch!Connect \/ Switch!Lose) /\ UNCHANGED <<code, minted, page, call, clicks, faults>>

(* Another client of the routes mints a code, cuts or restores.            *)
Elsewhere ==
  \/ /\ clicks < MaxClicks /\ clicks' = clicks + 1
     /\ minted' = minted + 1 /\ code' = minted'
     /\ UNCHANGED <<mode, up, page, call, faults>>
  \/ (Switch!Cut \/ Switch!Restore) /\ UNCHANGED <<code, minted, page, call, clicks, faults>>

Next ==
  \/ \E k \in Chain :
       Refresh(k) \/ ClickPair(k) \/ ClickSwitch(k) \/ Serve(k) \/ Fail(k) \/ Answer(k)
  \/ Draw \/ DrawFails \/ CodeGoes \/ LinkChanges \/ Elsewhere

Spec == Init /\ [][Next]_vars

(* Requests are served, answers and images arrive or fail to, the interval *)
(* ticks.                                                                  *)
FairSpec ==
  /\ Spec
  /\ WF_vars(Draw \/ DrawFails) /\ WF_vars(\E k \in Chain : Refresh(k))
  /\ \A k \in Chain : WF_vars(Serve(k)) /\ WF_vars(Answer(k))

-----------------------------------------------------------------------------
(* The mints that are asked for and not yet served.                        *)
IsMint(c) == c.op = "pair" /\ c.at = "server"
Mints == {k \in Chain : IsMint(call[k])}

(* A code that is outstanding is reused: what a page mints by itself       *)
(* retires at most a code minted after the page had been told there was    *)
(* none; such a one it does retire, though something is left to scan.      *)
(* Every field of page, calls and bridge keeps its type.                   *)
AutoMintReuses ==
  /\ TypeOK
  /\ \A k \in Chain :
       LET c == call[k] IN
       IsMint(c) /\ c.since # -1 /\ code # 0 => code > c.since

(* A page asks for a code by itself once at most, however its refreshes    *)
(* overlap; and every code, minted or being asked for, is a click's or     *)
(* that one: nothing is minted twice.                                      *)
AutoMintsOnce ==
  /\ page.autoMints <= 1
  /\ minted + Cardinality(Mints) <= clicks + page.autoMints

(* Once the bridge is left alone the page comes to show it as it is, and   *)
(* the button for a new code is back: although older answers overtake      *)
(* newer ones, and although a mint failed.  The image is that of the live  *)
(* code, and never stays an older one, or its request has failed: such an  *)
(* image stays broken, however often the page refreshes.                   *)
Truth == page.status = Status /\ page.src = code /\ page.img \in {code, Broken} /\ ~page.minting
Disturbed == mode' # mode \/ up' # up \/ code' # code \/ faults' # faults
PageComesTrue == []<><<Disturbed>>_vars \/ <>[]Truth

=============================================================================
