------------------------- MODULE ControlPageProofs -------------------------
(***************************************************************************)
(* Proofs about ControlPage for every number of chains the page has in     *)
(* flight, and every bound on clicks and on failing calls.                 *)
(***************************************************************************)
EXTENDS ControlPage, FiniteSetTheorems, TLAPS

USE PageAssumption

Calls == [op : {"none", "status", "pair", "disconnect", "connect"},
          at : {"page", "server"}, answer : Statuses, since : Codes \cup {-1}]

Pages == [status : Statuses, autoPaired : BOOLEAN, autoMints : Nat, minting : BOOLEAN,
          src : Codes, img : Images]

(* Every code, minted or asked for, is a click or the page's own.          *)
Budget == minted + Cardinality(Mints) <= clicks + page.autoMints

(* The page's own mint comes with the first status, which is remembered    *)
(* before the mint is awaited.                                             *)
MintsWhenPaired == page.autoMints = 0 \/ (page.autoPaired /\ page.autoMints = 1)

(* No code of those a call was told of is newer than the last.             *)
Heard(c) == c.answer.minted <= minted /\ c.since <= minted

(* An answer on its way that there is no code is still right about the     *)
(* codes minted up to then.                                                *)
Outlived(c) ==
  c.op = "status" /\ c.at = "page" /\ c.answer.ok /\ c.answer.code = 0 /\ code # 0 =>
    code > c.answer.minted

Reuses(c) == IsMint(c) /\ c.since # -1 /\ code # 0 => code > c.since

CallsOK == \A k \in Chain : Heard(call[k]) /\ Outlived(call[k]) /\ Reuses(call[k])

(* Inductive.                                                              *)
Inv == TypeOK /\ Budget /\ MintsWhenPaired /\ CallsOK

-----------------------------------------------------------------------------
(* Codes are numbers, and -1 stands for none.                              *)
LEMMA CodesRange == Codes \subseteq Nat /\ 0 \in Codes /\ -1 \notin Codes
BY DEF Codes

(* What the image can be.                                                  *)
LEMMA ImagesRange == Codes \subseteq Images /\ Loading \in Images /\ Broken \in Images
BY DEF Images

(* What starts out, asks and answers keeps its type.                       *)
LEMMA CallTypes ==
  ASSUME TypeOK
  PROVE  /\ NoStatus \in Statuses /\ Idle \in Calls /\ Status \in Statuses
         /\ \A op \in {"status", "pair", "disconnect", "connect"} :
              \A s \in Codes \cup {-1} : Asks(op, s) \in Calls
<1>1. NoStatus \in Statuses
  BY CodesRange DEF NoStatus, Statuses
<1>2. code \in Codes /\ minted \in Codes /\ up \in BOOLEAN
  BY CodesRange DEF TypeOK, Switch!TypeOK
<1>3. Status \in Statuses
  BY <1>2 DEF Status, Statuses
<1> QED
  BY <1>1, <1>3 DEF Idle, Asks, Calls

(* What a call rests on and what it answers are numbers.                   *)
LEMMA CallNumbers ==
  \A c \in Calls : c.answer.minted \in Nat /\ c.since \in Int
<1> SUFFICES ASSUME NEW c \in Calls PROVE c.answer.minted \in Nat /\ c.since \in Int
  OBVIOUS
<1>1. c.answer \in Statuses /\ c.since \in Codes \cup {-1}
  BY DEF Calls
<1>2. c.answer.minted \in Codes
  BY <1>1 DEF Statuses
<1> QED
  BY <1>1, <1>2 DEF Codes

(* A call that is replaced.                                                *)
LEMMA PutIs ==
  ASSUME TypeOK, NEW k \in Chain, NEW c \in Calls, Put(k, c)
  PROVE  /\ call' \in [Chain -> Calls] /\ call'[k] = c
         /\ \A j \in Chain \ {k} : call'[j] = call[j]
BY DEF TypeOK, Calls, Put

(* The calls that mint can be counted.                                     *)
LEMMA MintsFinite == IsFiniteSet(Mints) /\ Cardinality(Mints) \in Nat
<1>1. IsFiniteSet(Chain)
  BY FS_Interval DEF Chain
<1>2. Mints \subseteq Chain
  BY DEF Mints
<1> QED
  BY <1>1, <1>2, FS_Subset, FS_CardinalityType

(* How many mints are under way after it.                                  *)
LEMMA MintsOnPut ==
  ASSUME TypeOK, NEW k \in Chain, NEW c \in Calls, Put(k, c)
  PROVE  /\ IsMint(c) /\ ~IsMint(call[k]) => Cardinality(Mints') = Cardinality(Mints) + 1
         /\ ~IsMint(c) /\ IsMint(call[k]) => Cardinality(Mints') = Cardinality(Mints) - 1
         /\ (IsMint(c) <=> IsMint(call[k])) => Mints' = Mints
<1>1. call'[k] = c /\ \A j \in Chain \ {k} : call'[j] = call[j]
  BY PutIs
<1>2. \A j \in Chain : j \in Mints' <=> IsMint(call'[j])
  BY DEF Mints, IsMint
<1>3. \A j \in Chain : j \in Mints <=> IsMint(call[j])
  BY DEF Mints
<1>4. Mints \subseteq Chain /\ Mints' \subseteq Chain
  BY DEF Mints
<1>5. ASSUME IsMint(c), ~IsMint(call[k])
      PROVE  Cardinality(Mints') = Cardinality(Mints) + 1
  <2>1. Mints' = Mints \cup {k} /\ k \notin Mints
    BY <1>1, <1>2, <1>3, <1>4, <1>5
  <2> QED
    BY <2>1, MintsFinite, FS_AddElement
<1>6. ASSUME ~IsMint(c), IsMint(call[k])
      PROVE  Cardinality(Mints') = Cardinality(Mints) - 1
  <2>1. Mints' = Mints \ {k} /\ k \in Mints
    BY <1>1, <1>2, <1>3, <1>4, <1>6
  <2> QED
    BY <2>1, MintsFinite, FS_RemoveElement
<1>7. ASSUME IsMint(c) <=> IsMint(call[k])
      PROVE  Mints' = Mints
  BY <1>1, <1>2, <1>3, <1>4, <1>7
<1> QED
  BY <1>5, <1>6, <1>7

(* What a step that mints nothing must see to: the new call's own part.    *)
LEMMA CallsOnPut ==
  ASSUME TypeOK, CallsOK, NEW k \in Chain, NEW c \in Calls, Put(k, c),
         UNCHANGED <<minted, code>>, Heard(c), Outlived(c), Reuses(c)
  PROVE  CallsOK'
<1>1. call'[k] = c /\ \A j \in Chain \ {k} : call'[j] = call[j]
  BY PutIs
<1>2. ASSUME NEW j \in Chain
      PROVE  Heard(call'[j]) /\ Outlived(call'[j]) /\ Reuses(call'[j])
  <2>1. CASE j = k
    BY <1>1, <2>1
  <2>2. CASE j # k
    BY <1>1, <2>2 DEF CallsOK
  <2> QED
    BY <2>1, <2>2
<1> QED
  BY <1>2 DEF CallsOK, Heard, Outlived, Reuses

-----------------------------------------------------------------------------
(* The invariant holds before the page is open.                            *)
LEMMA InvInit == Init => Inv
<1> SUFFICES ASSUME Init PROVE Inv
  OBVIOUS
<1>1. NoStatus \in Statuses
  BY CodesRange DEF NoStatus, Statuses
<1>2. Idle \in Calls
  BY <1>1 DEF Idle, Calls
<1>3. call \in [Chain -> Calls] /\ \A k \in Chain : call[k] = Idle
  BY <1>2 DEF Init
<1>4. TypeOK
  <2>1. page \in Pages
    BY <1>1, CodesRange, ImagesRange DEF Init, Pages
  <2>2. Switch!TypeOK
    BY DEF Init, Switch!Init, Switch!TypeOK
  <2> QED
    BY <1>3, <2>1, <2>2, CodesRange DEF Init, TypeOK, Calls, Pages
<1>5. Mints = {}
  BY <1>3 DEF Mints, IsMint, Idle
<1>6. Budget /\ MintsWhenPaired
  <2>1. Cardinality(Mints) = 0
    BY <1>5, FS_EmptySet
  <2>2. minted = 0 /\ clicks = 0 /\ page.autoMints = 0
    BY DEF Init
  <2> QED
    BY <2>1, <2>2 DEF Budget, MintsWhenPaired
<1>7. CallsOK
  BY <1>3 DEF Init, CallsOK, Heard, Outlived, Reuses, IsMint, Idle, NoStatus
<1> QED
  BY <1>4, <1>6, <1>7 DEF Inv

(* The page asks: at load, on the interval, or because it was told to.     *)
LEMMA AsksStep ==
  ASSUME Inv, NEW k \in Chain, Refresh(k) \/ ClickSwitch(k)
  PROVE  Inv'
<1>1. PICK op \in {"status", "disconnect", "connect"} : Put(k, Asks(op, -1))
  BY DEF Refresh, ClickSwitch
<1>2. UNCHANGED <<mode, up, code, minted, page, clicks, faults>>
  BY DEF Refresh, ClickSwitch
<1> DEFINE c == Asks(op, -1)
<1>3. c \in Calls /\ ~IsMint(c) /\ Put(k, c) /\ Heard(c) /\ Outlived(c) /\ Reuses(c)
  <2>1. c \in Calls
    BY CallTypes DEF Inv
  <2>2. minted \in Nat
    BY CodesRange DEF Inv, TypeOK
  <2> QED
    BY <1>1, <2>1, <2>2 DEF Asks, IsMint, Heard, Outlived, Reuses, NoStatus
<1> HIDE DEF c
<1>4. ~IsMint(call[k])
  BY DEF Refresh, ClickSwitch, Idle, IsMint
<1>5. TypeOK'
  BY <1>2, <1>3, PutIs DEF Inv, TypeOK, Switch!TypeOK, Calls
<1>6. Budget' /\ MintsWhenPaired'
  BY <1>2, <1>3, <1>4, MintsOnPut DEF Inv, Budget, MintsWhenPaired
<1>7. CallsOK'
  BY <1>2, <1>3, CallsOnPut DEF Inv
<1> QED
  BY <1>5, <1>6, <1>7 DEF Inv

(* A click on "pair" asks for a code from scratch.                         *)
LEMMA ClickPairStep ==
  ASSUME Inv, NEW k \in Chain, ClickPair(k)
  PROVE  Inv'
<1> DEFINE c == Asks("pair", -1)
<1>1. c \in Calls /\ IsMint(c) /\ Put(k, c) /\ Heard(c) /\ Outlived(c) /\ Reuses(c)
  <2>1. c \in Calls
    BY CallTypes DEF Inv
  <2>2. minted \in Nat
    BY CodesRange DEF Inv, TypeOK
  <2> QED
    BY <2>1, <2>2 DEF ClickPair, Asks, IsMint, Heard, Outlived, Reuses, NoStatus
<1> HIDE DEF c
<1>2. ~IsMint(call[k])
  BY DEF ClickPair, Idle, IsMint
<1>3. page' \in Pages /\ page'.autoMints = page.autoMints /\ page'.autoPaired = page.autoPaired
  BY DEF ClickPair, Inv, TypeOK, Pages
<1>4. TypeOK'
  BY <1>1, <1>3, PutIs DEF ClickPair, Inv, TypeOK, Switch!TypeOK, Calls, Pages
<1>5. Cardinality(Mints') = Cardinality(Mints) + 1
  BY <1>1, <1>2, MintsOnPut DEF Inv
<1>6. Budget' /\ MintsWhenPaired'
  BY <1>3, <1>5, MintsFinite, CodesRange DEF ClickPair, Inv, TypeOK, Budget, MintsWhenPaired
<1>7. CallsOK'
  BY <1>1, CallsOnPut DEF ClickPair, Inv
<1> QED
  BY <1>4, <1>6, <1>7 DEF Inv

(* The switch does not leave its type.                                     *)
LEMMA SwitchTypes ==
  ASSUME Switch!TypeOK,
         UNCHANGED <<mode, up>> \/ Switch!Cut \/ Switch!Restore \/ Switch!Connect \/ Switch!Lose
  PROVE  Switch!TypeOK'
BY DEF Switch!TypeOK, Switch!Cut, Switch!Restore, Switch!Connect, Switch!Lose

(* A route that mints nothing is served; only the new answer is to check.  *)
LEMMA ServeStep ==
  ASSUME Inv, NEW k \in Chain, Serve(k)
  PROVE  Inv'
<1> DEFINE old == call[k]
           new == [old EXCEPT !.at = "page",
                              !.answer = IF old.op = "status" THEN Status ELSE [@ EXCEPT !.ok = TRUE]]
<1>1. PICK c \in {old} : c = call[k]
  OBVIOUS
<1>2. PICK d \in {new} : d = new
  OBVIOUS
<1>3. c \in Calls /\ c.at = "server" /\ c.answer \in Statuses
  BY <1>1 DEF Inv, TypeOK, Serve, Calls
<1>4. /\ d \in Calls /\ Put(k, d) /\ d.at = "page" /\ d.op = c.op /\ d.since = c.since
      /\ d.answer = IF c.op = "status" THEN Status ELSE [c.answer EXCEPT !.ok = TRUE]
  <2>1. Status \in Statuses /\ [c.answer EXCEPT !.ok = TRUE] \in Statuses
    BY <1>3, CallTypes DEF Inv, Statuses
  <2>2. d = [c EXCEPT !.at = "page",
                      !.answer = IF c.op = "status" THEN Status ELSE [c.answer EXCEPT !.ok = TRUE]]
    BY <1>1, <1>2
  <2>3. Put(k, d)
    BY <1>2 DEF Serve
  <2> QED
    BY <1>3, <2>1, <2>2, <2>3 DEF Calls
<1> HIDE DEF old, new
<1>5. d.answer.minted <= minted /\ d.since <= minted /\ c.answer.minted <= minted
  <2>1. c.answer.minted <= minted /\ c.since <= minted
    BY <1>1 DEF Inv, CallsOK, Heard
  <2>2. minted <= minted
    BY CodesRange DEF Inv, TypeOK
  <2>3. Status.minted = minted /\ [c.answer EXCEPT !.ok = TRUE].minted = c.answer.minted
    BY <1>3 DEF Status, Statuses
  <2> QED
    BY <1>4, <2>1, <2>2, <2>3
<1>6. Outlived(d)
  BY <1>4 DEF Outlived, Status
<1>7. Switch!TypeOK'
  BY SwitchTypes DEF Serve, Inv, TypeOK
<1>8. ~IsMint(d) /\ Reuses(d)
  BY <1>4 DEF IsMint, Reuses
<1>9. CASE c.op # "pair"
  <2>1. UNCHANGED <<minted, code, page, clicks, faults>> /\ ~IsMint(c)
    BY <1>1, <1>9 DEF Serve, IsMint
  <2>2. TypeOK'
    BY <1>4, <1>7, <2>1, PutIs DEF Inv, TypeOK, Calls
  <2>3. Budget' /\ MintsWhenPaired'
    BY <1>1, <1>4, <1>8, <2>1, MintsOnPut DEF Inv, Budget, MintsWhenPaired
  <2>4. CallsOK'
    BY <1>4, <1>5, <1>6, <1>8, <2>1, CallsOnPut DEF Inv, Heard
  <2> QED
    BY <2>2, <2>3, <2>4 DEF Inv
<1>10. CASE c.op = "pair"
  <2>1. IsMint(c) /\ minted' = minted + 1 /\ code' = minted + 1 /\ UNCHANGED <<page, clicks, faults>>
    BY <1>1, <1>3, <1>10 DEF Serve, IsMint
  <2>2. Cardinality(Mints') = Cardinality(Mints) - 1 /\ Cardinality(Mints') \in Nat
    <3>1. Cardinality(Mints') = Cardinality(Mints) - 1 /\ Cardinality(Mints) # 0
      <4>1. k \in Mints
        BY <1>1, <2>1 DEF Mints
      <4> QED
        BY <1>1, <1>4, <1>8, <2>1, <4>1, MintsOnPut, MintsFinite, FS_EmptySet DEF Inv
    <3> QED
      BY <3>1, MintsFinite
  <2>3. minted + 1 \in Codes /\ Budget' /\ MintsWhenPaired'
    BY <2>1, <2>2, MintsFinite DEF Inv, TypeOK, Budget, MintsWhenPaired, Codes
  <2>4. TypeOK'
    BY <1>4, <1>7, <2>1, <2>3, PutIs DEF Inv, TypeOK, Calls
  <2>5. ASSUME NEW j \in Chain
        PROVE  (Heard(call[j]) /\ Outlived(call[j]) /\ Reuses(call[j]))'
    <3>1. minted \in Nat /\ call[j] \in Calls
      BY CodesRange DEF Inv, TypeOK, Calls
    <3>2. call[j].answer.minted <= minted /\ call[j].since <= minted
      BY DEF Inv, CallsOK, Heard
    <3>3. call'[j].answer.minted <= minted /\ call'[j].since <= minted
      BY <1>4, <1>5, <3>2, PutIs DEF Inv
    <3>4. call'[j] \in Calls
      BY <2>4 DEF TypeOK, Calls
    <3> QED
      BY <2>1, <3>1, <3>3, <3>4, CallNumbers DEF Heard, Outlived, Reuses
  <2> QED
    BY <2>3, <2>4, <2>5 DEF Inv, CallsOK
<1> QED
  BY <1>9, <1>10

(* A call fails, and the page shows what it knew.                          *)
LEMMA FailStep ==
  ASSUME Inv, NEW k \in Chain, Fail(k)
  PROVE  Inv'
<1>1. PICK c \in {call[k]} : c = call[k]
  OBVIOUS
<1>2. c \in Calls
  BY <1>1 DEF Inv, TypeOK, Calls
<1>3. PICK d \in {[c EXCEPT !.at = "page", !.answer = NoStatus]} : Put(k, d)
  BY <1>1 DEF Fail
<1>4. d \in Calls /\ d.at = "page" /\ d.answer = NoStatus /\ d.since = c.since
  BY <1>2, CallTypes DEF Inv, Calls
<1>5. ~IsMint(d) /\ Heard(d) /\ Outlived(d) /\ Reuses(d)
  <2>1. c.since <= minted /\ minted \in Nat
    BY <1>1, CodesRange DEF Inv, CallsOK, Heard, TypeOK
  <2> QED
    BY <1>4, <2>1 DEF IsMint, Heard, Outlived, Reuses, NoStatus
<1>6. UNCHANGED <<mode, up, code, minted, page, clicks>> /\ faults' \in 0..MaxFaults
  BY DEF Fail, Inv, TypeOK
<1>7. TypeOK'
  BY <1>3, <1>4, <1>6, PutIs DEF Inv, TypeOK, Switch!TypeOK, Calls
<1>8. Budget'
  <2>1. minted \in Nat /\ clicks \in Nat /\ page.autoMints \in Nat
    BY CodesRange DEF Inv, TypeOK
  <2>2. Cardinality(Mints') <= Cardinality(Mints) /\ Cardinality(Mints') \in Int
    BY <1>3, <1>4, <1>5, MintsOnPut, MintsFinite DEF Inv
  <2> QED
    BY <1>6, <2>1, <2>2, MintsFinite DEF Inv, Budget
<1>9. MintsWhenPaired' /\ CallsOK'
  BY <1>3, <1>4, <1>5, <1>6, CallsOnPut DEF Inv, MintsWhenPaired
<1> QED
  BY <1>7, <1>8, <1>9 DEF Inv

(* A first status without a code makes the page ask for one: the click it  *)
(* did not need.                                                           *)
LEMMA OnStatusStep ==
  ASSUME Inv, NEW k \in Chain, call[k].at = "page", call[k].answer.ok, call[k].op = "status",
         OnStatus(k, call[k].answer), UNCHANGED <<mode, up, code, minted, clicks, faults>>
  PROVE  Inv'
<1>1. PICK c \in {call[k]} : c = call[k]
  OBVIOUS
<1>2. c \in Calls /\ c.answer \in Statuses /\ ~IsMint(c)
  BY <1>1 DEF Inv, TypeOK, Calls, IsMint
<1>3. c.answer.code \in Codes /\ c.answer.minted \in Codes /\ c.answer.minted <= minted
  BY <1>1, <1>2 DEF Statuses, Inv, CallsOK, Heard
<1>4. /\ page'.autoPaired = TRUE /\ page' \in Pages
      /\ page'.autoMints = IF Minting(c.answer) THEN page.autoMints + 1 ELSE page.autoMints
  <2>1. PICK w \in {page} : w = page
    OBVIOUS
  <2>2. w \in Pages /\ (Minting(c.answer) => w.autoMints = 0) /\ w.autoMints \in Nat
    BY <2>1 DEF Inv, TypeOK, Pages, Minting, MintsWhenPaired
  <2>3. Paired(w, c.answer.code) \in Pages /\ Paired(w, c.answer.code).autoMints = w.autoMints
    BY <1>3, <2>2, CodesRange, ImagesRange DEF Paired, Pages
  <2>4. Minting(c.answer) \in BOOLEAN
    BY DEF Minting
  <2>5. page' = [Paired(w, c.answer.code) EXCEPT
                   !.status = c.answer, !.autoPaired = TRUE, !.minting = @ \/ Minting(c.answer),
                   !.autoMints = IF Minting(c.answer) THEN @ + 1 ELSE @]
    BY <1>1, <2>1 DEF OnStatus
  <2>6. PICK x \in Pages : x = Paired(w, c.answer.code) /\ x.autoMints = w.autoMints
    BY <2>3
  <2>7. PICK m \in BOOLEAN : m <=> Minting(c.answer)
    BY <2>4
  <2>8. page' = [x EXCEPT !.status = c.answer, !.autoPaired = TRUE, !.minting = @ \/ m,
                          !.autoMints = IF m THEN @ + 1 ELSE @]
    BY <2>5, <2>6, <2>7
  <2>9. x.minting \in BOOLEAN /\ (IF m THEN x.autoMints + 1 ELSE x.autoMints) \in Nat
    BY <2>2, <2>6, <2>7 DEF Pages
  <2> QED
    BY <1>2, <2>1, <2>6, <2>7, <2>8, <2>9 DEF Pages
<1>5. CASE ~Minting(c.answer)
  <2>1. Put(k, Idle) /\ Idle \in Calls /\ ~IsMint(Idle)
    BY <1>1, <1>5, CallTypes DEF OnStatus, Inv, Idle, IsMint
  <2>2. minted \in Nat
    BY CodesRange DEF Inv, TypeOK
  <2>3. Heard(Idle) /\ Outlived(Idle) /\ Reuses(Idle)
    BY <2>2 DEF Heard, Outlived, Reuses, IsMint, Idle, NoStatus
  <2>4. TypeOK'
    BY <1>4, <2>1, PutIs DEF Inv, TypeOK, Switch!TypeOK, Calls, Pages
  <2>5. Budget' /\ MintsWhenPaired' /\ CallsOK'
    BY <1>1, <1>2, <1>4, <1>5, <2>1, <2>3, MintsOnPut, CallsOnPut DEF Inv, Budget, MintsWhenPaired
  <2> QED
    BY <2>4, <2>5 DEF Inv
<1>6. CASE Minting(c.answer)
  <2> DEFINE d == Asks("pair", c.answer.minted)
  <2>1. Put(k, d) /\ d \in Calls /\ IsMint(d) /\ d.since = c.answer.minted /\ d.answer = NoStatus
    BY <1>1, <1>3, <1>6, CallTypes DEF OnStatus, Inv, Asks, IsMint
  <2> HIDE DEF d
  <2>2. minted \in Nat
    BY CodesRange DEF Inv, TypeOK
  <2>3. Heard(d) /\ Outlived(d)
    BY <1>3, <2>1, <2>2 DEF Heard, Outlived, IsMint, NoStatus
  <2>4. Reuses(d)
    <3>1. Outlived(c) /\ c.answer.code = 0
      BY <1>1, <1>6 DEF Inv, CallsOK, Minting
    <3> QED
      BY <1>1, <2>1, <3>1 DEF Outlived, Reuses
  <2>5. TypeOK'
    BY <1>4, <2>1, PutIs DEF Inv, TypeOK, Switch!TypeOK, Calls, Pages
  <2>6. Budget'
    <3>1. Cardinality(Mints') = Cardinality(Mints) + 1
      BY <1>1, <1>2, <2>1, MintsOnPut DEF Inv
    <3>2. page'.autoMints = page.autoMints + 1 /\ page.autoMints \in Nat /\ clicks \in Nat
      BY <1>4, <1>6 DEF Inv, TypeOK
    <3> QED
      BY <2>2, <3>1, <3>2, MintsFinite DEF Inv, Budget
  <2>7. MintsWhenPaired' /\ CallsOK'
    <3>1. page.autoMints = 0
      BY <1>6 DEF Inv, MintsWhenPaired, Minting
    <3>2. page'.autoPaired /\ page'.autoMints = 1
      BY <1>4, <1>6, <3>1
    <3> QED
      BY <2>1, <2>3, <2>4, <3>2, CallsOnPut DEF Inv, MintsWhenPaired
  <2> QED
    BY <2>5, <2>6, <2>7 DEF Inv
<1> QED
  BY <1>5, <1>6

(* Failed, or done: nothing is minted, and what follows is to be asked.    *)
LEMMA OnEndStep ==
  ASSUME Inv, NEW k \in Chain, call[k].at = "page",
         OnFailure(k, call[k].op) \/ OnDone(k, call[k].op),
         UNCHANGED <<mode, up, code, minted, clicks, faults>>
  PROVE  Inv'
<1>1. PICK d \in {Idle, Asks("status", -1)} : Put(k, d)
  BY DEF OnFailure, OnDone
<1>2. minted \in Nat
  BY CodesRange DEF Inv, TypeOK
<1>3. d \in Calls
  BY CallTypes DEF Inv
<1>4. ~IsMint(d) /\ Heard(d) /\ Outlived(d) /\ Reuses(d)
  BY <1>2 DEF Asks, Idle, IsMint, Heard, Outlived, Reuses, NoStatus
<1>5. ~IsMint(call[k])
  BY DEF IsMint
<1>6. page' \in Pages /\ page'.autoMints = page.autoMints /\ page'.autoPaired = page.autoPaired
  <2>1. PICK w \in {page} : w = page
    OBVIOUS
  <2>2. w \in Pages /\ NoStatus \in Statuses
    BY <2>1, CallTypes DEF Inv, TypeOK, Pages
  <2>3. PICK op \in {call[k].op} : op = call[k].op
    OBVIOUS
  <2>4. CASE OnFailure(k, op)
    <3>1. page' = [Paired(w, 0) EXCEPT !.status = NoStatus, !.minting = @ /\ op # "pair"]
      BY <2>1, <2>4 DEF OnFailure
    <3>2. Paired(w, 0) \in Pages /\ Paired(w, 0).autoMints = w.autoMints
          /\ Paired(w, 0).autoPaired = w.autoPaired
      BY <2>2, CodesRange, ImagesRange DEF Paired, Pages
    <3> QED
      BY <2>1, <2>2, <3>1, <3>2 DEF Pages
  <2>5. CASE OnDone(k, op)
    BY <2>1, <2>2, <2>5 DEF OnDone, Pages
  <2> QED
    BY <2>3, <2>4, <2>5
<1>7. TypeOK'
  BY <1>1, <1>3, <1>6, PutIs DEF Inv, TypeOK, Switch!TypeOK, Calls, Pages
<1>8. Budget' /\ MintsWhenPaired' /\ CallsOK'
  BY <1>1, <1>3, <1>4, <1>5, <1>6, MintsOnPut, CallsOnPut DEF Inv, Budget, MintsWhenPaired
<1> QED
  BY <1>7, <1>8 DEF Inv

(* The page hears an answer.                                               *)
LEMMA AnswerStep ==
  ASSUME Inv, NEW k \in Chain, Answer(k)
  PROVE  Inv'
BY OnStatusStep, OnEndStep DEF Answer

(* What goes on without the page's calls: an image that comes or does not, *)
(* a code that is used, the link, the switch turned elsewhere.             *)
LEMMA OutsideStep ==
  ASSUME Inv, \/ Draw \/ DrawFails \/ CodeGoes \/ LinkChanges
              \/ (Switch!Cut \/ Switch!Restore) /\ UNCHANGED <<code, minted, page, call, clicks, faults>>
  PROVE  Inv'
<1>1. /\ UNCHANGED <<minted, call, clicks>> /\ code' \in {0, code}
      /\ faults' \in 0..MaxFaults
  BY DEF Inv, TypeOK, Draw, DrawFails, CodeGoes, LinkChanges
<1>2. page' \in Pages /\ page'.autoMints = page.autoMints /\ page'.autoPaired = page.autoPaired
  <2>1. PICK w \in {page} : w = page
    OBVIOUS
  <2>2. w \in Pages /\ code \in Images /\ Broken \in Images
    BY <2>1, CodesRange, ImagesRange DEF Inv, TypeOK, Pages
  <2>3. page' = w \/ \E i \in Images : page' = [w EXCEPT !.img = i]
    BY <2>1, <2>2 DEF Draw, DrawFails, CodeGoes, LinkChanges
  <2> QED
    BY <2>1, <2>2, <2>3 DEF Pages
<1>3. Switch!TypeOK'
  BY SwitchTypes DEF Inv, TypeOK, Draw, DrawFails, CodeGoes, LinkChanges
<1>4. TypeOK'
  BY <1>1, <1>2, <1>3 DEF Inv, TypeOK, Pages
<1>5. Budget' /\ MintsWhenPaired'
  BY <1>1, <1>2 DEF Inv, Budget, MintsWhenPaired, Mints
<1>6. CallsOK'
  <2>1. ASSUME NEW j \in Chain
        PROVE  (Heard(call[j]) /\ Outlived(call[j]) /\ Reuses(call[j]))'
    <3>1. Heard(call[j]) /\ Outlived(call[j]) /\ Reuses(call[j])
      BY DEF Inv, CallsOK
    <3> QED
      BY <1>1, <3>1 DEF Heard, Outlived, Reuses
  <2> QED
    BY <2>1 DEF CallsOK
<1> QED
  BY <1>4, <1>5, <1>6 DEF Inv

(* A code is minted without a call of the page.                            *)
LEMMA ElsewhereMintsStep ==
  ASSUME Inv, clicks < MaxClicks, clicks' = clicks + 1, minted' = minted + 1, code' = minted + 1,
         UNCHANGED <<mode, up, page, call, faults>>
  PROVE  Inv'
<1>1. Mints' = Mints
  BY DEF Mints
<1>2. minted + 1 \in Codes /\ Budget' /\ MintsWhenPaired'
  BY <1>1, MintsFinite DEF Inv, TypeOK, Budget, MintsWhenPaired, Codes
<1>3. TypeOK'
  BY <1>2 DEF Inv, TypeOK, Switch!TypeOK
<1>4. ASSUME NEW j \in Chain
      PROVE  (Heard(call[j]) /\ Outlived(call[j]) /\ Reuses(call[j]))'
  <2>1. minted \in Nat /\ call[j] \in Calls
    BY CodesRange DEF Inv, TypeOK, Calls
  <2>2. call[j].answer.minted <= minted /\ call[j].since <= minted
    BY DEF Inv, CallsOK, Heard
  <2> QED
    BY <2>1, <2>2, CallNumbers DEF Heard, Outlived, Reuses
<1> QED
  BY <1>2, <1>3, <1>4 DEF Inv, CallsOK

(* Every step of Next keeps the invariant.                                 *)
LEMMA InvNext == Inv /\ [Next]_vars => Inv'
<1> SUFFICES ASSUME Inv, [Next]_vars PROVE Inv'
  OBVIOUS
<1>1. ASSUME NEW k \in Chain,
             Refresh(k) \/ ClickPair(k) \/ ClickSwitch(k) \/ Serve(k) \/ Fail(k) \/ Answer(k)
      PROVE  Inv'
  BY <1>1, AsksStep, ClickPairStep, ServeStep, FailStep, AnswerStep
<1>2. CASE Draw \/ DrawFails \/ CodeGoes \/ LinkChanges
  BY <1>2, OutsideStep
<1>3. CASE Elsewhere
  BY <1>3, OutsideStep, ElsewhereMintsStep DEF Elsewhere
<1>4. CASE UNCHANGED vars
  BY <1>4 DEF vars, Inv, TypeOK, Switch!TypeOK, Budget, Mints, MintsWhenPaired, CallsOK, Heard,
              Outlived, Reuses
<1> QED
  BY <1>1, <1>2, <1>3, <1>4 DEF Next

(* The invariant of the control page holds in every reachable state, for   *)
(* every number of codes, clicks and faults.                               *)
THEOREM Invariance == Spec => []Inv
BY InvInit, InvNext, PTL DEF Spec

-----------------------------------------------------------------------------
(* AutoMintReuses: what the page mints by itself retires no code minted    *)
(* before it was told that there was none, however its refreshes overlap   *)
(* and whatever is minted elsewhere meanwhile.                             *)
THEOREM Reused == Spec => []AutoMintReuses
<1>1. Inv => AutoMintReuses
  BY DEF Inv, AutoMintReuses, CallsOK, Reuses, IsMint
<1> QED
  BY <1>1, Invariance, PTL

(* AutoMintsOnce: of all the codes minted and being asked for, at most one *)
(* is the page's own, however its refreshes overlap and whatever fails.    *)
THEOREM MintsOnce == Spec => []AutoMintsOnce
<1>1. Inv => AutoMintsOnce
  BY DEF Inv, Budget, MintsWhenPaired, AutoMintsOnce
<1> QED
  BY <1>1, Invariance, PTL

=============================================================================
