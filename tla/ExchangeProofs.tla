--------------------------- MODULE ExchangeProofs ---------------------------
(***************************************************************************)
(* Proofs about Exchange, for every set of segments and every bound: what  *)
(* a phone can reach (ControlIsHidden), that its answer is what it is told *)
(* (AnswerIsTrue), and that the harness is told the truth of the request   *)
(* (HarnessIsTold).                                                        *)
(*                                                                         *)
(* The first rests on what `new URL` makes of a path, the second on what   *)
(* `acceptsGzip` makes of a header; both loops are reasoned about by their *)
(* least counterexample.  The rest is one invariant, stage by stage.       *)
(***************************************************************************)
EXTENDS Exchange, TLAPS, SequenceTheorems, WellFoundedInduction

(* A set of naturals with a member has a least one.                        *)
LEMMA Minimum ==
  ASSUME NEW T \in SUBSET Nat, T # {}
  PROVE  \E x \in T : \A y \in T : x <= y
<1>1. PICK x \in T : \A y \in T : <<y, x>> \notin OpToRel(<, Nat)
  BY NatLessThanWellFounded, WFMin
<1>2. \A y \in T : ~(y < x)
  BY <1>1 DEF OpToRel
<1> QED
  BY <1>2

(* A bounded sequence is a sequence.                                       *)
LEMMA BoundedIsSeq ==
  ASSUME NEW S, NEW n \in Nat, NEW s \in BoundedSeq(S, n)
  PROVE  s \in Seq(S)
<1>1. PICK m \in 0..n : s \in [1..m -> S]
  BY DEF BoundedSeq, SeqOf
<1> QED
  BY <1>1, SeqDef

-----------------------------------------------------------------------------
(* No segment is a dot segment.                                            *)
Clean(path) == \A k \in 1..Len(path) : path[k] \notin {".", ".."}

(* What is done of a path after each of its first n segments.              *)
Walk(path, S, n, h) ==
  /\ h \in [0..n -> Seq(S)] /\ h[0] = <<>>
  /\ \A k \in 1..n : h[k] = Resolve(h[k - 1], path[k])

(* A segment that is no dot segment may follow.                            *)
LEMMA MoreIsClean ==
  ASSUME NEW S, NEW done \in Seq(S), Clean(done), NEW seg \in S, seg \notin {".", ".."}
  PROVE  Append(done, seg) \in Seq(S) /\ Clean(Append(done, seg))
<1>1. /\ Append(done, seg) \in Seq(S) /\ Len(Append(done, seg)) = Len(done) + 1
      /\ Append(done, seg)[Len(done) + 1] = seg /\ Len(done) \in Nat
      /\ \A k \in 1..Len(done) : Append(done, seg)[k] = done[k]
  BY AppendProperties, LenProperties
<1> QED
  BY <1>1 DEF Clean

(* One segment keeps a sequence of segments, and leaves no dot segment.    *)
LEMMA ResolveIs ==
  ASSUME NEW S, NEW done \in Seq(S), NEW seg \in S
  PROVE  /\ Resolve(done, seg) \in Seq(S)
         /\ Clean(done) => Clean(Resolve(done, seg))
<1>1. CASE seg = ".." /\ done # <<>>
  <2>1. Len(done) \in Nat \ {0} /\ Resolve(done, seg) = SubSeq(done, 1, Len(done) - 1)
    BY <1>1, EmptySeq DEF Resolve, Front
  <2>2. /\ SubSeq(done, 1, Len(done) - 1) \in Seq(S)
        /\ Len(SubSeq(done, 1, Len(done) - 1)) = Len(done) - 1
        /\ \A k \in 1..Len(done) - 1 : SubSeq(done, 1, Len(done) - 1)[k] = done[k]
    <3>1. 1 \in 1..Len(done) + 1 /\ Len(done) - 1 \in 0..Len(done)
      BY <2>1
    <3>2. Len(done) - 1 - 1 + 1 = Len(done) - 1 /\ \A k \in 1..Len(done) - 1 : k + 1 - 1 = k
      BY <2>1
    <3> QED
      BY <2>1, <3>1, <3>2, SubSeqProperties
  <2> QED
    BY <2>1, <2>2 DEF Clean
<1>2. CASE seg = ".." /\ done = <<>>
  BY <1>2 DEF Resolve
<1>3. CASE seg = "."
  BY <1>3 DEF Resolve
<1>4. CASE seg \notin {".", ".."}
  <2>1. Resolve(done, seg) = Append(done, seg)
    BY <1>4 DEF Resolve
  <2> QED
    BY <1>4, <2>1, MoreIsClean, AppendProperties
<1> QED
  BY <1>1, <1>2, <1>3, <1>4

(* Every path can be walked to its end.                                    *)
LEMMA WalkExists ==
  ASSUME NEW S, NEW path \in Seq(S)
  PROVE  \E h : Walk(path, S, Len(path), h)
<1> DEFINE T == {n \in 0..Len(path) : ~\E h : Walk(path, S, n, h)}
<1>0. Len(path) \in 0..Len(path) /\ T \in SUBSET Nat
  BY LenProperties
<1>1. SUFFICES ASSUME T # {} PROVE FALSE
  BY <1>0
<1>2. PICK n \in T : \A m \in T : n <= m
  BY <1>0, <1>1, Minimum
<1>3. n # 0
  <2>1. Walk(path, S, 0, [k \in 0..0 |-> <<>>])
    BY EmptySeq DEF Walk
  <2> QED
    BY <1>2, <2>1
<1>4. n - 1 \in 0..Len(path) /\ n - 1 \notin T
  BY <1>2, <1>3
<1>5. PICK f : Walk(path, S, n - 1, f)
  BY <1>4
<1> DEFINE g == [k \in 0..n |-> IF k = n THEN Resolve(f[n - 1], path[n]) ELSE f[k]]
<1>6. n \in 1..Len(path) /\ path[n] \in S
  BY <1>2, <1>3, ElementOfSeq
<1>7. /\ f \in [0..n - 1 -> Seq(S)] /\ f[0] = <<>>
      /\ \A k \in 1..n - 1 : f[k] = Resolve(f[k - 1], path[k])
  BY <1>5 DEF Walk
<1>8. Resolve(f[n - 1], path[n]) \in Seq(S)
  <2>1. f[n - 1] \in Seq(S)
    BY <1>6, <1>7
  <2> QED
    BY <1>6, <2>1, ResolveIs
<1>9. g \in [0..n -> Seq(S)] /\ g[0] = <<>>
  BY <1>6, <1>7, <1>8
<1>10. ASSUME NEW k \in 1..n PROVE g[k] = Resolve(g[k - 1], path[k])
  BY <1>6, <1>7
<1> HIDE DEF g
<1>11. Walk(path, S, n, g)
  BY <1>9, <1>10 DEF Walk
<1> QED
  BY <1>2, <1>11

(* The equation by which Normal defines its function.                      *)
WalksBy(path, h) ==
  h = [k \in 0..Len(path) |-> IF k = 0 THEN <<>> ELSE Resolve(h[k - 1], path[k])]
Walked(path) == CHOOSE h : WalksBy(path, h)

(* Normal is the end of a walk, with an empty segment after a dot segment. *)
LEMMA NormalIs ==
  ASSUME NEW S, NEW path \in Seq(S)
  PROVE  /\ Walk(path, S, Len(path), Walked(path))
         /\ Normal(path) = IF path # <<>> /\ Last(path) \in {".", ".."}
                           THEN Append(Walked(path)[Len(path)], "") ELSE Walked(path)[Len(path)]
<1>1. PICK f : Walk(path, S, Len(path), f)
  BY WalkExists
<1>2. f \in [0..Len(path) -> Seq(S)] /\ f[0] = <<>> /\ Len(path) \in Nat
      /\ \A k \in 1..Len(path) : f[k] = Resolve(f[k - 1], path[k])
  BY <1>1, LenProperties DEF Walk
<1>3. WalksBy(path, f)
  BY <1>2 DEF WalksBy
<1>4. WalksBy(path, Walked(path))
  BY <1>3 DEF Walked
<1> DEFINE g == Walked(path)
<1>5. /\ Normal(path) = IF path # <<>> /\ Last(path) \in {".", ".."}
                        THEN Append(g[Len(path)], "") ELSE g[Len(path)]
  BY DEF Normal, Walked, WalksBy
<1> HIDE DEF g
<1>6. /\ g = [k \in 0..Len(path) |-> g[k]] /\ g[0] = <<>>
      /\ \A k \in 1..Len(path) : g[k] = Resolve(g[k - 1], path[k])
  BY <1>2, <1>4 DEF WalksBy, g
<1> DEFINE T == {k \in 0..Len(path) : g[k] \notin Seq(S)}
<1>7. ASSUME T # {} PROVE FALSE
  <2>0. T \in SUBSET Nat
    BY <1>2
  <2> HIDE DEF T
  <2>1. PICK k \in T : \A j \in T : k <= j
    BY <1>7, <2>0, Minimum
  <2> USE DEF T
  <2>2. k # 0
    BY <1>6, <2>1, EmptySeq
  <2>3. k \in 1..Len(path) /\ k - 1 \in 0..Len(path) /\ k - 1 \notin T
    BY <1>2, <2>1, <2>2
  <2>4. g[k - 1] \in Seq(S) /\ path[k] \in S
    BY <2>3, ElementOfSeq
  <2> QED
    BY <1>6, <2>1, <2>3, <2>4, ResolveIs
<1>8. g \in [0..Len(path) -> Seq(S)]
  BY <1>6, <1>7
<1>9. Walk(path, S, Len(path), g)
  BY <1>6, <1>8 DEF Walk
<1> QED
  BY <1>5, <1>9 DEF g

(* No dot segment is left in what Normal returns.                          *)
LEMMA NormalIsClean ==
  ASSUME NEW S, NEW path \in Seq(S)
  PROVE  Normal(path) \in Seq(S \cup {""}) /\ Clean(Normal(path))
<1> DEFINE g == Walked(path)
<1>1. /\ g \in [0..Len(path) -> Seq(S)] /\ g[0] = <<>> /\ Len(path) \in Nat
      /\ \A k \in 1..Len(path) : g[k] = Resolve(g[k - 1], path[k])
  BY NormalIs, LenProperties DEF Walk
<1> HIDE DEF g
<1> DEFINE T == {k \in 0..Len(path) : ~Clean(g[k])}
<1>2. ASSUME T # {} PROVE FALSE
  <2>0. T \in SUBSET Nat
    BY <1>1
  <2> HIDE DEF T
  <2>1. PICK k \in T : \A j \in T : k <= j
    BY <1>2, <2>0, Minimum
  <2> USE DEF T
  <2>2. k # 0
    BY <1>1, <2>1 DEF Clean
  <2>3. k \in 1..Len(path) /\ k - 1 \in 0..Len(path) /\ k - 1 \notin T
    BY <1>1, <2>1, <2>2
  <2>4. g[k - 1] \in Seq(S) /\ path[k] \in S /\ Clean(g[k - 1])
    BY <1>1, <2>3, ElementOfSeq
  <2> QED
    BY <1>1, <2>1, <2>3, <2>4, ResolveIs
<1>3. PICK done \in Seq(S) : done = g[Len(path)] /\ Clean(done)
  <2>1. Len(path) \in 0..Len(path)
    BY <1>1
  <2> QED
    BY <1>1, <1>2, <2>1
<1>4. Normal(path) = Append(done, "") \/ Normal(path) = done
  BY <1>3, NormalIs DEF g
<1>5. Append(done, "") \in Seq(S \cup {""}) /\ Clean(Append(done, ""))
  <2>1. done \in Seq(S \cup {""}) /\ "" \in S \cup {""}
    BY SeqMonotonic
  <2> QED
    BY <1>3, <2>1, MoreIsClean
<1>6. done \in Seq(S \cup {""})
  BY SeqMonotonic
<1> QED
  BY <1>3, <1>4, <1>5, <1>6

(* A path without dot segments is its own normal form: what the harness is *)
(* handed is what was classified, whoever resolves it once more.           *)
LEMMA NormalIsFinal ==
  ASSUME NEW S, NEW path \in Seq(S), Clean(path)
  PROVE  Normal(path) = path
<1> DEFINE g == Walked(path)
<1>1. /\ g \in [0..Len(path) -> Seq(S)] /\ g[0] = <<>> /\ Len(path) \in Nat
      /\ \A k \in 1..Len(path) : g[k] = Resolve(g[k - 1], path[k])
  BY NormalIs, LenProperties DEF Walk
<1> HIDE DEF g
<1> DEFINE Done(k) == Len(g[k]) = k /\ \A j \in 1..k : g[k][j] = path[j]
           T == {k \in 0..Len(path) : ~Done(k)}
<1>2. ASSUME T # {} PROVE FALSE
  <2>0. T \in SUBSET Nat
    BY <1>1
  <2> HIDE DEF T
  <2>1. PICK k \in T : \A j \in T : k <= j
    BY <1>2, <2>0, Minimum
  <2> USE DEF T
  <2>2. k # 0
    BY <1>1, <2>1
  <2>3. k \in 1..Len(path) /\ k - 1 \in 0..Len(path) /\ k - 1 \notin T
    BY <1>1, <2>1, <2>2
  <2>4. PICK d \in Seq(S) : d = g[k - 1]
    BY <1>1, <2>3
  <2>5. Len(d) = k - 1 /\ \A j \in 1..(k - 1) : d[j] = path[j]
    BY <2>3, <2>4
  <2>6. path[k] \in S /\ path[k] \notin {".", ".."}
    BY <2>3, ElementOfSeq DEF Clean
  <2>7. g[k] = Append(d, path[k])
    BY <1>1, <2>3, <2>4, <2>6 DEF Resolve
  <2>8. /\ Len(g[k]) = k /\ g[k][k] = path[k]
        /\ \A j \in 1..(k - 1) : g[k][j] = d[j]
    BY <2>3, <2>5, <2>6, <2>7, AppendProperties
  <2>9. ASSUME NEW j \in 1..k PROVE g[k][j] = path[j]
    BY <2>3, <2>5, <2>8
  <2> QED
    BY <2>1, <2>8, <2>9
<1>3. PICK done \in Seq(S) : done = g[Len(path)] /\ Len(done) = Len(path)
                             /\ \A j \in 1..Len(path) : done[j] = path[j]
  <2>1. Len(path) \in 0..Len(path)
    BY <1>1
  <2>2. Done(Len(path))
    BY <1>2, <2>1
  <2> QED
    BY <1>1, <2>1, <2>2
<1>4. done = path
  BY <1>3, SeqEqual
<1>5. ~(path # <<>> /\ Last(path) \in {".", ".."})
  <2>1. path # <<>> => Len(path) \in 1..Len(path)
    BY EmptySeq
  <2> QED
    BY <2>1 DEF Clean, Last
<1> QED
  BY <1>3, <1>4, <1>5, NormalIs DEF g

-----------------------------------------------------------------------------
(* The quality that counts after the first n parts: the last one given to  *)
(* the name, or -1.                                                        *)
Counting(accept, name, n, v) ==
  \/ v = -1 /\ \A k \in 1..n : accept[k].name # name
  \/ \E k \in 1..n : /\ accept[k].name = name /\ accept[k].q = v
                     /\ \A j \in (k + 1)..n : accept[j].name # name

(* The equation by which Quality defines its function, and any function    *)
(* that meets it up to n.                                                  *)
Heard(accept, name, n, h) ==
  h = [k \in 0..n |-> IF k = 0 THEN -1
                      ELSE IF accept[k].name = name THEN accept[k].q ELSE h[k - 1]]
Hears(accept, name) == CHOOSE h : Heard(accept, name, Len(accept), h)

(* Every header can be read to its end.                                    *)
LEMMA HeardExists ==
  ASSUME NEW accept, NEW name, Len(accept) \in Nat
  PROVE  \E h : Heard(accept, name, Len(accept), h)
<1> DEFINE T == {n \in 0..Len(accept) : ~\E h : Heard(accept, name, n, h)}
<1>0. Len(accept) \in 0..Len(accept) /\ T \in SUBSET Nat
  OBVIOUS
<1>1. SUFFICES ASSUME T # {} PROVE FALSE
  BY <1>0
<1>2. PICK n \in T : \A m \in T : n <= m
  BY <1>0, <1>1, Minimum
<1>3. n # 0
  <2>1. Heard(accept, name, 0, [k \in 0..0 |-> -1])
    BY DEF Heard
  <2> QED
    BY <1>2, <2>1
<1>4. n - 1 \in 0..Len(accept) /\ n - 1 \notin T
  BY <1>2, <1>3
<1>5. PICK f : Heard(accept, name, n - 1, f)
  BY <1>4
<1> DEFINE v == IF accept[n].name = name THEN accept[n].q ELSE f[n - 1]
           g == [k \in 0..n |-> IF k = n THEN v ELSE f[k]]
<1> HIDE DEF v
<1>6. n \in 1..Len(accept)
  BY <1>2, <1>3
<1>7. ASSUME NEW k \in 0..n
      PROVE  g[k] = IF k = 0 THEN -1 ELSE IF accept[k].name = name THEN accept[k].q ELSE g[k - 1]
  <2>1. CASE k = n
    <3>1. g[k] = v /\ g[k - 1] = f[n - 1] /\ k # 0
      BY <1>6, <2>1
    <3> QED
      BY <2>1, <3>1 DEF v
  <2>2. CASE k # n
    <3>1. k \in 0..(n - 1) /\ g[k] = f[k] /\ (k # 0 => g[k - 1] = f[k - 1])
      BY <1>6, <2>2
    <3> QED
      BY <1>5, <3>1 DEF Heard
  <2> QED
    BY <2>1, <2>2
<1>8. g = [k \in 0..n |-> g[k]]
  OBVIOUS
<1> HIDE DEF g
<1>9. Heard(accept, name, n, g)
  BY <1>7, <1>8 DEF Heard
<1> QED
  BY <1>2, <1>9

(* The last part of a name counts, and no earlier one.                     *)
LEMMA QualityIs ==
  ASSUME NEW accept, NEW name, Len(accept) \in Nat
  PROVE  Counting(accept, name, Len(accept), Quality(accept, name))
<1> DEFINE g == Hears(accept, name)
<1>1. Quality(accept, name) = g[Len(accept)]
  BY DEF Quality, Hears, Heard
<1>2. Heard(accept, name, Len(accept), g)
  BY HeardExists DEF Hears
<1> HIDE DEF g
<1>3. \A k \in 0..Len(accept) :
        g[k] = IF k = 0 THEN -1 ELSE IF accept[k].name = name THEN accept[k].q ELSE g[k - 1]
  BY <1>2 DEF Heard
<1> DEFINE T == {k \in 0..Len(accept) : ~Counting(accept, name, k, g[k])}
<1>4. ASSUME T # {} PROVE FALSE
  <2>0. T \in SUBSET Nat
    OBVIOUS
  <2> HIDE DEF T
  <2>1. PICK k \in T : \A j \in T : k <= j
    BY <1>4, <2>0, Minimum
  <2> USE DEF T
  <2>2. k \in 0..Len(accept) /\ ~Counting(accept, name, k, g[k])
    BY <2>1
  <2>3. k # 0
    <3>1. g[0] = -1
      BY <1>3, <2>2
    <3> QED
      BY <2>2, <3>1 DEF Counting
  <2>4. k \in 1..Len(accept) /\ k - 1 \in 0..Len(accept) /\ k - 1 \notin T
    BY <2>1, <2>2, <2>3
  <2>5. Counting(accept, name, k - 1, g[k - 1])
    BY <2>4
  <2>6. CASE accept[k].name = name
    <3>1. g[k] = accept[k].q
      BY <1>3, <2>2, <2>3, <2>6
    <3> QED
      BY <2>2, <2>4, <2>6, <3>1 DEF Counting
  <2>7. CASE accept[k].name # name
    <3>1. g[k] = g[k - 1]
      BY <1>3, <2>2, <2>3, <2>7
    <3>2. CASE g[k - 1] = -1 /\ \A j \in 1..(k - 1) : accept[j].name # name
      <4>1. \A j \in 1..k : j \in 1..(k - 1) \/ j = k
        BY <2>4
      <4>2. \A j \in 1..k : accept[j].name # name
        BY <2>7, <3>2, <4>1
      <4> QED
        BY <2>2, <3>1, <3>2, <4>2 DEF Counting
    <3>3. ASSUME NEW i \in 1..(k - 1), accept[i].name = name, accept[i].q = g[k - 1],
                 \A j \in (i + 1)..(k - 1) : accept[j].name # name
          PROVE  FALSE
      <4>1. i \in 1..k /\ \A j \in (i + 1)..k : j \in (i + 1)..(k - 1) \/ j = k
        BY <2>4
      <4>2. \A j \in (i + 1)..k : accept[j].name # name
        BY <2>7, <3>3, <4>1
      <4> QED
        BY <2>2, <3>1, <3>3, <4>1, <4>2 DEF Counting
    <3> QED
      BY <2>5, <3>2, <3>3 DEF Counting
  <2> QED
    BY <2>6, <2>7
<1>5. Len(accept) \in 0..Len(accept)
  OBVIOUS
<1> QED
  BY <1>1, <1>4, <1>5

(* The parts that decide, as GzipIsWanted names them.                      *)
Latest(accept, name) ==
  {k \in 1..Len(accept) : /\ accept[k].name = name
                          /\ \A j \in (k + 1)..Len(accept) : accept[j].name # name}
Valid(accept, name) == {k \in Latest(accept, name) : accept[k].q >= 0}

(* A quality counts if and only if a valid part says so.                   *)
LEMMA ValidIs ==
  ASSUME NEW accept \in Seq(Part), NEW name
  PROVE  /\ Quality(accept, name) >= 0 =>
              \E k \in Valid(accept, name) : accept[k].q = Quality(accept, name)
         /\ Valid(accept, name) # {} => Quality(accept, name) >= 0
<1>1. Len(accept) \in Nat /\ \A k \in 1..Len(accept) : accept[k].q \in {-1, 0, 1}
  <2>1. \A k \in 1..Len(accept) : accept[k] \in Part
    BY ElementOfSeq
  <2>2. \A part \in Part : part.q \in {-1, 0, 1}
    BY DEF Part
  <2> QED
    BY <2>1, <2>2, LenProperties
<1>2. Counting(accept, name, Len(accept), Quality(accept, name))
  BY <1>1, QualityIs
<1>3. Quality(accept, name) \in {-1, 0, 1}
  BY <1>1, <1>2 DEF Counting
<1>4. CASE \A k \in 1..Len(accept) : accept[k].name # name
  <2>1. Quality(accept, name) = -1 /\ Latest(accept, name) = {}
    BY <1>2, <1>4 DEF Counting, Latest
  <2> QED
    BY <2>1 DEF Valid
<1>5. ASSUME NEW k \in 1..Len(accept), accept[k].name = name, accept[k].q = Quality(accept, name),
             \A j \in (k + 1)..Len(accept) : accept[j].name # name
      PROVE  Latest(accept, name) = {k}
  <2>1. ASSUME NEW i \in 1..Len(accept), accept[i].name = name,
               \A j \in (i + 1)..Len(accept) : accept[j].name # name
        PROVE  i = k
    <3>1. ~(i < k) /\ ~(k < i)
      BY <1>1, <1>5, <2>1
    <3> QED
      BY <3>1
  <2> QED
    BY <1>5, <2>1 DEF Latest
<1>6. CASE \E k \in 1..Len(accept) : /\ accept[k].name = name /\ accept[k].q = Quality(accept, name)
                                     /\ \A j \in (k + 1)..Len(accept) : accept[j].name # name
  <2>1. PICK k \in 1..Len(accept) : /\ accept[k].name = name /\ accept[k].q = Quality(accept, name)
                                    /\ \A j \in (k + 1)..Len(accept) : accept[j].name # name
    BY <1>6
  <2>2. Latest(accept, name) = {k}
    BY <1>5, <2>1
  <2> QED
    BY <1>3, <2>1, <2>2 DEF Valid
<1> QED
  BY <1>2, <1>4, <1>6 DEF Counting

(* A header that admits gzip says so itself: in the last part that names   *)
(* it, or in the last one for anything if that names nothing.              *)
LEMMA AdmittingIs ==
  ASSUME NEW accept \in Seq(Part), AcceptsGzip(accept)
  PROVE  \E k \in IF Valid(accept, "gzip") # {} THEN Valid(accept, "gzip") ELSE Valid(accept, "*") :
            accept[k].q > 0
<1>1. CASE Quality(accept, "gzip") >= 0
  <2>1. PICK k \in Valid(accept, "gzip") : accept[k].q = Quality(accept, "gzip")
    BY <1>1, ValidIs
  <2>2. Quality(accept, "gzip") > 0
    BY <1>1 DEF AcceptsGzip
  <2> QED
    BY <2>1, <2>2
<1>2. CASE ~(Quality(accept, "gzip") >= 0)
  <2>1. Valid(accept, "gzip") = {}
    BY <1>2, ValidIs
  <2>2. Quality(accept, "*") > 0
    BY <1>2 DEF AcceptsGzip
  <2>3. Quality(accept, "*") \in Int
    <3>1. Len(accept) \in Nat /\ \A k \in 1..Len(accept) : accept[k] \in Part
      BY ElementOfSeq, LenProperties
    <3>2. \A part \in Part : part.q \in Int
      BY DEF Part
    <3>3. Counting(accept, "*", Len(accept), Quality(accept, "*"))
      BY <3>1, QualityIs
    <3> QED
      BY <3>1, <3>2, <3>3 DEF Counting
  <2>4. Quality(accept, "*") >= 0
    BY <2>2, <2>3
  <2>5. PICK k \in Valid(accept, "*") : accept[k].q = Quality(accept, "*")
    BY <2>4, ValidIs
  <2> QED
    BY <2>1, <2>2, <2>5
<1> QED
  BY <1>1, <1>2

-----------------------------------------------------------------------------
(* What the harness was asked for was classified in the form it has.       *)
UrlOK ==
  url # Null => url \in Seq(Segment \cup {""}) /\ Clean(url) /\ ~StartsWith(url, ControlPrefix)

(* Until `serve` is done the answer is open; until there is an answer to   *)
(* pass on nothing is sent, and from then on what the head promises is     *)
(* what the body will be.                                                  *)
StageOK ==
  /\ stage # "done" => ~ended /\ ~failed /\ bodyOver # "broken" /\ got <= MaxBody
  /\ stage \in {"arrived", "buffering", "fetching", "trimming", "calling"} =>
       status = 0 /\ head = Plain /\ sent = 0
  /\ stage \in {"arrived", "calling"} => ~closed /\ total = 0
  /\ stage \in {"buffering", "fetching"} => url # Null
  /\ stage = "piping" => head.gzip /\ head.length = -1 /\ sent = 0
  /\ stage \in {"writing", "draining"} =>
       head.length \in {-1, total} /\ (method # "HEAD" => sent = made)
  /\ stage = "writing" => closed \/ pending < HighWater

(* gzip rests on a header that admits it.                                  *)
GzipOK == head.gzip => head.accept \in Admitting

Inv == TypeOK /\ UrlOK /\ StageOK /\ CompleteIsWhole /\ LengthIsTrue /\ GzipOK /\ HarnessIsTold

(* The invariant holds before a request arrives.                           *)
LEMMA InvInit == Init => Inv
<1> SUFFICES ASSUME Init PROVE Inv
  OBVIOUS
<1>1. <<>> \in Accept
  BY DEF Accept
<1>2. TypeOK
  <2>1. 0 \in 0..(MaxBody + 1) /\ 0 \in 0..HighWater /\ 0 \in 0..MaxReply /\ -1 \in -1..MaxReply
    BY ExchangeAssumption
  <2>2. Plain \in [gzip : BOOLEAN, accept : Accept, length : -1..MaxReply]
    BY <1>1, <2>1 DEF Plain
  <2>3. stage \in Stages /\ url = Null /\ stage = "arrived"
    BY DEF Init, Stages
  <2>4. got = 0 /\ status = 0 /\ head = Plain /\ pending = 0 /\ sent = 0 /\ total = 0 /\ made = 0
    BY DEF Init
  <2>5. 0 \in 0..0 /\ 0 <= 0
    OBVIOUS
  <2>6. /\ method \in {"GET", "POST", "HEAD"} /\ keys \in BOOLEAN /\ bodyOver \in {"no", "whole", "broken"}
        /\ ended \in BOOLEAN /\ closed \in BOOLEAN /\ aborted \in BOOLEAN /\ failed \in BOOLEAN
    BY DEF Init
  <2> QED
    BY <2>1, <2>2, <2>3, <2>4, <2>5, <2>6 DEF TypeOK
<1>3. StageOK
  BY ExchangeAssumption DEF Init, StageOK
<1> QED
  BY <1>2, <1>3, ExchangeAssumption
  DEF Init, Inv, UrlOK, CompleteIsWhole, LengthIsTrue, GzipOK, HarnessIsTold, BodyIsWhole, LeftIsAborted, Fetched, Plain

(* The answer is given up, and the phone sees its connection close.        *)
LEMMA RejectStep ==
  ASSUME Inv, stage # "done", Reject, UNCHANGED <<url, got, total, made>>,
         method' \in {"GET", "POST", "HEAD"}, keys' \in BOOLEAN,
         bodyOver' \in {"no", "whole", "broken"}, failed' \in BOOLEAN
  PROVE  Inv'
<1>1. /\ UNCHANGED <<url, got, total, made, status, ended, head, pending, sent>>
      /\ stage' = "done" /\ closed' = TRUE /\ aborted' = TRUE /\ ~ended'
  BY DEF Reject, OnClose, Inv, StageOK, TypeOK
<1>2. TypeOK'
  BY <1>1 DEF Inv, TypeOK, Stages
<1>3. UrlOK' /\ GzipOK'
  BY <1>1 DEF Inv, UrlOK, GzipOK, Clean
<1>4. StageOK'
  BY <1>1 DEF StageOK
<1>5. CompleteIsWhole' /\ LengthIsTrue'
  BY <1>1 DEF CompleteIsWhole, LengthIsTrue
<1>6. HarnessIsTold'
  BY <1>1 DEF Inv, HarnessIsTold, BodyIsWhole, LeftIsAborted, Fetched
<1> QED
  BY <1>2, <1>3, <1>4, <1>5, <1>6 DEF Inv

(* The answer is one of the bridge's own, or that of a call.               *)
LEMMA AnswerStep ==
  ASSUME Inv, stage \in {"arrived", "buffering", "calling"},
         NEW code \in {200, 403, 404, 413, 502, 503}, Answer(code),
         UNCHANGED <<url, keys, bodyOver, aborted, total, made>>,
         method' \in {"GET", "POST", "HEAD"}, got' \in 0..(MaxBody + 1), failed' \in BOOLEAN,
         code = 413 => got' = MaxBody + 1,
         code = 200 => stage = "calling" /\ ~failed'
  PROVE  Inv'
<1>1. /\ UNCHANGED <<closed, head, pending, sent>>
      /\ stage' = "done" /\ status' = code /\ ended' = TRUE
  BY DEF Answer
<1>2. TypeOK'
  BY <1>1 DEF Inv, TypeOK, Stages
<1>3. UrlOK' /\ GzipOK'
  BY <1>1 DEF Inv, UrlOK, GzipOK, Clean
<1>4. StageOK'
  BY <1>1 DEF StageOK
<1>5. CompleteIsWhole'
  <2>1. stage = "calling" => total = 0 /\ made \in 0..total /\ sent = 0
    BY DEF Inv, StageOK, TypeOK
  <2> QED
    BY <1>1, <2>1 DEF CompleteIsWhole
<1>6. LengthIsTrue'
  <2>1. head.length = -1
    BY DEF Inv, StageOK, Plain
  <2> QED
    BY <1>1, <2>1 DEF LengthIsTrue
<1>7. HarnessIsTold'
  BY <1>1 DEF Inv, HarnessIsTold, BodyIsWhole, LeftIsAborted, Fetched
<1> QED
  BY <1>2, <1>3, <1>4, <1>5, <1>6, <1>7 DEF Inv

-----------------------------------------------------------------------------
(* The fence lets through what has a normal form out of the control plane, *)
(* and nothing else.                                                       *)
LEMMA AllowedIs ==
  ASSUME NEW target \in Target, NEW m, NEW json, Verdict(target, m, json) = "allow"
  PROVE  LET parsed == ParseMobileUrl(target) IN
         /\ parsed # Null /\ parsed \in Seq(Segment \cup {""}) /\ Clean(parsed)
         /\ ~StartsWith(parsed, ControlPrefix)
<1>1. target.path \in Seq(Segment)
  <2>1. target.path \in BoundedSeq(Segment, MaxDepth)
    BY DEF Target
  <2> QED
    BY <2>1, BoundedIsSeq, ExchangeAssumption
<1>2. /\ ParseMobileUrl(target) # Null
      /\ ClassifyApiRequest(ParseMobileUrl(target), m, json) = "allow"
  BY DEF Verdict
<1>3. ParseMobileUrl(target) = Normal(target.path)
  BY <1>2 DEF ParseMobileUrl
<1>4. ~StartsWith(ParseMobileUrl(target), ControlPrefix)
  BY <1>2 DEF ClassifyApiRequest
<1> QED
  BY <1>1, <1>2, <1>3, <1>4, NormalIsClean

(* A request arrives over HTTP.                                            *)
LEMMA ServeStep ==
  ASSUME Inv, stage = "arrived", NEW peer \in {"none", "live", "aborted"}, NEW target \in Target,
         NEW m \in {"GET", "POST", "HEAD"}, NEW json \in BOOLEAN,
         NEW mode \in {"buffered", "streamed"}, Serve(peer, target, m, json, mode)
  PROVE  Inv'
<1> DEFINE verdict == Verdict(target, m, json)
           admitted == peer = "live" /\ verdict = "allow" /\ Forwardable(m, mode = "streamed")
<1>1. /\ method' = m /\ UNCHANGED <<keys, got, bodyOver, total, made, failed>>
      /\ url' = IF admitted THEN ParseMobileUrl(target) ELSE url
  BY DEF Serve, bodyVars
<1>2. got \in 0..(MaxBody + 1) /\ failed \in BOOLEAN /\ keys \in BOOLEAN
      /\ bodyOver \in {"no", "whole", "broken"}
  BY DEF Inv, TypeOK
<1>3. CASE admitted
  <2>1. /\ stage' \in {"buffering", "fetching"} /\ UNCHANGED <<resVars, aborted>>
        /\ url' = ParseMobileUrl(target)
    BY <1>1, <1>3 DEF Serve, Forwardable
  <2>2. url' # Null /\ url' \in Seq(Segment \cup {""}) /\ Clean(url') /\ ~StartsWith(url', ControlPrefix)
    <3>1. Verdict(target, m, json) = "allow"
      BY <1>3
    <3> QED
      BY <2>1, <3>1, AllowedIs
  <2>3. UrlOK'
    BY <2>2 DEF UrlOK, Clean
  <2>4. TypeOK'
    <3>1. \A k \in 1..Len(url') : url'[k] \notin {".", ".."}
      BY <2>2 DEF Clean
    <3>2. stage' \in Stages /\ method' \in {"GET", "POST", "HEAD"}
      BY <1>1, <2>1 DEF Stages
    <3>3. UNCHANGED <<keys, got, bodyOver, status, ended, closed, head, pending, sent, aborted,
                      total, made, failed>>
      BY <1>1, <2>1 DEF resVars
    <3>4. url' # Null
      BY <2>2
    <3>5. TypeOK
      BY DEF Inv
    <3> QED
      BY <3>1, <3>2, <3>3, <3>4, <3>5 DEF TypeOK
  <2>5. StageOK'
    BY <1>1, <2>1, <2>2 DEF Inv, StageOK, resVars
  <2>6. CompleteIsWhole' /\ LengthIsTrue' /\ GzipOK'
    <3>1. ~ended' /\ head' = head
      BY <2>1 DEF Inv, StageOK, resVars
    <3> QED
      BY <3>1 DEF Inv, CompleteIsWhole, LengthIsTrue, GzipOK
  <2>7. HarnessIsTold'
    BY <1>1, <2>1 DEF Inv, StageOK, HarnessIsTold, BodyIsWhole, LeftIsAborted, Fetched, resVars
  <2> QED
    BY <2>3, <2>4, <2>5, <2>6, <2>7 DEF Inv
<1>4. CASE ~admitted
  <2>1. url' = url
    BY <1>1, <1>4
  <2>2. CASE Reject
    BY <1>1, <1>2, <2>1, <2>2, RejectStep
  <2>3. CASE ~Reject
    <3>1. UNCHANGED aborted /\ \E code \in {403, 404, 503} : Answer(code)
      <4>1. UNCHANGED aborted /\ (Answer(503) \/ Answer(RefusalStatus(verdict)))
        BY <1>4, <2>3 DEF Serve
      <4>2. RefusalStatus(verdict) \in {403, 404}
        BY DEF RefusalStatus
      <4> QED
        BY <4>1, <4>2
    <3>2. PICK code \in {403, 404, 503} : Answer(code)
      BY <3>1
    <3> QED
      BY <1>1, <1>2, <2>1, <3>1, <3>2, AnswerStep
  <2> QED
    BY <2>2, <2>3
<1> QED
  BY <1>3, <1>4

(* A request arrives over the RPC pipe.                                    *)
LEMMA DispatchCallStep ==
  ASSUME Inv, stage = "arrived", NEW target \in Target, DispatchCall(target)
  PROVE  Inv'
<1>1. method' = "POST" /\ UNCHANGED <<keys, got, bodyOver, aborted, total, made, failed>>
  BY DEF DispatchCall, bodyVars
<1>2. got \in 0..(MaxBody + 1) /\ failed \in BOOLEAN
  BY DEF Inv, TypeOK
<1>3. CASE Verdict(target, "POST", TRUE) # "allow"
  <2>1. UNCHANGED url /\ \E code \in {403, 404} : Answer(code)
    BY <1>3 DEF DispatchCall, RefusalStatus
  <2>2. PICK code \in {403, 404} : Answer(code)
    BY <2>1
  <2> QED
    BY <1>1, <1>2, <2>1, <2>2, AnswerStep
<1>4. CASE Verdict(target, "POST", TRUE) = "allow"
  <2>1. stage' = "calling" /\ UNCHANGED resVars /\ url' = ParseMobileUrl(target)
    BY <1>4 DEF DispatchCall
  <2>2. url' # Null /\ url' \in Seq(Segment \cup {""}) /\ Clean(url') /\ ~StartsWith(url', ControlPrefix)
    BY <1>4, <2>1, AllowedIs
  <2>3. UrlOK'
    BY <2>2 DEF UrlOK, Clean
  <2>4. TypeOK'
    <3>1. \A k \in 1..Len(url') : url'[k] \notin {".", ".."}
      BY <2>2 DEF Clean
    <3>2. stage' \in Stages /\ method' \in {"GET", "POST", "HEAD"}
      BY <1>1, <2>1 DEF Stages
    <3>3. UNCHANGED <<keys, got, bodyOver, status, ended, closed, head, pending, sent, aborted,
                      total, made, failed>>
      BY <1>1, <2>1 DEF resVars
    <3>4. url' # Null
      BY <2>2
    <3>5. TypeOK
      BY DEF Inv
    <3> QED
      BY <3>1, <3>2, <3>3, <3>4, <3>5 DEF TypeOK
  <2>5. StageOK'
    BY <1>1, <2>1, <2>2 DEF Inv, StageOK, resVars
  <2>6. CompleteIsWhole' /\ LengthIsTrue' /\ GzipOK'
    <3>1. ~ended' /\ head' = head
      BY <2>1 DEF Inv, StageOK, resVars
    <3> QED
      BY <3>1 DEF Inv, CompleteIsWhole, LengthIsTrue, GzipOK
  <2>7. HarnessIsTold'
    BY <1>1, <2>1 DEF Inv, StageOK, HarnessIsTold, BodyIsWhole, LeftIsAborted, Fetched, resVars
  <2> QED
    BY <2>3, <2>4, <2>5, <2>6, <2>7 DEF Inv
<1> QED
  BY <1>3, <1>4

(* The pipe's answer to a call.                                            *)
LEMMA CallReturnsStep ==
  ASSUME Inv, CallReturns
  PROVE  Inv'
<1>1. PICK code \in {200, 502} : Answer(code) /\ failed' = (code = 502)
  BY DEF CallReturns
<1>2. /\ stage = "calling"
      /\ UNCHANGED <<method, url, keys, got, bodyOver, aborted, total, made>>
  BY DEF CallReturns
<1>4. failed' \in BOOLEAN /\ (code = 200 => ~failed')
  <2>1. (code = 502) \in BOOLEAN /\ (code = 200 => ~(code = 502))
    OBVIOUS
  <2> QED
    BY <1>1, <2>1
<1>3. method' \in {"GET", "POST", "HEAD"} /\ got' \in 0..(MaxBody + 1)
  BY <1>2 DEF Inv, TypeOK
<1> QED
  BY <1>1, <1>2, <1>3, <1>4, AnswerStep

(* A chunk of the body is received, and may be one too many.               *)
LEMMA BodyChunkStep ==
  ASSUME Inv, BodyChunk
  PROVE  Inv'
<1>1. /\ stage = "buffering" /\ ~closed /\ got' = got + 1
      /\ UNCHANGED <<method, url, keys, bodyOver, aborted, total, made, failed>>
  BY DEF BodyChunk, bodyVars
<1>2. got \in Nat /\ got <= MaxBody /\ MaxBody \in Nat
  BY <1>1, ExchangeAssumption DEF Inv, TypeOK, StageOK
<1>3. CASE got' > MaxBody
  <2>1. Answer(413)
    BY <1>3 DEF BodyChunk
  <2>2. got' = MaxBody + 1 /\ MaxBody + 1 \in 0..(MaxBody + 1)
    BY <1>1, <1>2, <1>3
  <2>3. method' \in {"GET", "POST", "HEAD"} /\ failed' \in BOOLEAN
    BY <1>1 DEF Inv, TypeOK
  <2> QED
    BY <1>1, <2>1, <2>2, <2>3, AnswerStep
<1>4. CASE ~(got' > MaxBody)
  <2>1. UNCHANGED <<stage, status, ended, closed, head, pending, sent>>
    BY <1>4 DEF BodyChunk, resVars
  <2>2. got' \in 0..(MaxBody + 1) /\ got' <= MaxBody
    BY <1>1, <1>2, <1>4
  <2>3. status' = 0
    BY <1>1, <2>1 DEF Inv, StageOK
  <2>4. TypeOK'
    BY <1>1, <2>1, <2>2 DEF Inv, TypeOK
  <2>5. UrlOK' /\ GzipOK'
    BY <1>1, <2>1 DEF Inv, UrlOK, GzipOK, Clean
  <2>6. StageOK'
    BY <1>1, <2>1, <2>2 DEF Inv, StageOK
  <2>7. CompleteIsWhole' /\ LengthIsTrue'
    BY <1>1, <2>1 DEF Inv, CompleteIsWhole, LengthIsTrue
  <2>8. HarnessIsTold'
    <3>1. Fetched' <=> Fetched
      BY <2>1 DEF Fetched
    <3> QED
      BY <1>1, <2>1, <2>2, <2>3, <3>1 DEF Inv, HarnessIsTold, BodyIsWhole, LeftIsAborted
  <2> QED
    BY <2>4, <2>5, <2>6, <2>7, <2>8 DEF Inv
<1> QED
  BY <1>3, <1>4

(* The body is over, whole or not.                                         *)
LEMMA BodyOverStep ==
  ASSUME Inv, BodyOver
  PROVE  Inv'
<1>1. CASE BodyBreaks
  <2>1. /\ stage # "done" /\ Reject /\ bodyOver' \in {"no", "whole", "broken"}
        /\ UNCHANGED <<method, url, keys, got, total, made, failed>>
    BY <1>1 DEF BodyBreaks, bodyVars
  <2>2. method' \in {"GET", "POST", "HEAD"} /\ keys' \in BOOLEAN /\ failed' \in BOOLEAN
    BY <2>1 DEF Inv, TypeOK
  <2> QED
    BY <2>1, <2>2, RejectStep
<1>2. ASSUME NEW declares \in BOOLEAN, BodyEnds(declares)
      PROVE  Inv'
  <2>1. /\ stage = "buffering" /\ bodyOver' = "whole" /\ keys' \in BOOLEAN
        /\ UNCHANGED <<method, url, got, total, made, failed>>
    BY <1>2 DEF BodyEnds, bodyVars, RequestedProjections
  <2>2. method' \in {"GET", "POST", "HEAD"} /\ failed' \in BOOLEAN
    BY <2>1 DEF Inv, TypeOK
  <2>3. CASE Reject
    BY <2>1, <2>2, <2>3, RejectStep
  <2>4. CASE ~Reject
    <3>1. stage' = "fetching" /\ UNCHANGED <<status, ended, closed, head, pending, sent, aborted>>
      BY <1>2, <2>4 DEF BodyEnds, resVars
    <3>2. TypeOK'
      BY <2>1, <3>1 DEF Inv, TypeOK, Stages
    <3>3. UrlOK' /\ GzipOK'
      BY <2>1, <3>1 DEF Inv, UrlOK, GzipOK, Clean
    <3>4. StageOK'
      BY <2>1, <3>1 DEF Inv, StageOK
    <3>5. CompleteIsWhole' /\ LengthIsTrue'
      BY <2>1, <3>1 DEF Inv, CompleteIsWhole, LengthIsTrue
    <3>6. HarnessIsTold'
      BY <2>1, <3>1 DEF Inv, StageOK, HarnessIsTold, BodyIsWhole, LeftIsAborted, Fetched
    <3> QED
      BY <3>2, <3>3, <3>4, <3>5, <3>6 DEF Inv
  <2> QED
    BY <2>3, <2>4
<1> QED
  BY <1>1, <1>2 DEF BodyOver

-----------------------------------------------------------------------------
(* The answer of the harness, or what is left of it, is passed on.         *)
LEMMA ReplyStep ==
  ASSUME Inv, stage \in {"fetching", "trimming"}, NEW n \in 0..MaxReply,
         NEW body \in BOOLEAN, NEW length \in {-1, n}, NEW coded \in BOOLEAN, NEW type,
         NEW accept \in Accept, Reply(body, length, coded, type, accept),
         ~body => n = 0, total' = n, made' = 0,
         UNCHANGED <<method, url, keys, got, bodyOver, aborted, failed>>
  PROVE  Inv'
<1> DEFINE gzip == body /\ method # "HEAD" /\ ~coded /\ accept \in Admitting /\ IsCompressible(type)
                   /\ ~IsNegligiblySmall(length)
<1>1. PICK g \in BOOLEAN :
        /\ g => body /\ accept \in Admitting
        /\ status' = 200 /\ ended' = (ended \/ ~body)
        /\ head' = [gzip |-> g, accept |-> IF g THEN accept ELSE <<>>,
                    length |-> IF g THEN -1 ELSE length]
        /\ stage' = IF ~body THEN "done" ELSE IF g THEN "piping" ELSE "writing"
        /\ UNCHANGED <<closed, pending, sent>>
  <2>1. gzip \in BOOLEAN
    OBVIOUS
  <2> QED
    BY <2>1 DEF Reply
<1>2. /\ stage' \in {"done", "piping", "writing"} /\ (stage' = "done" <=> ~body)
      /\ (stage' = "piping" => g) /\ (stage' = "writing" => ~g)
  BY <1>1
<1>3. /\ head'.gzip = g /\ head'.length \in {-1, n} /\ (g => head'.length = -1)
      /\ head'.accept = (IF g THEN accept ELSE <<>>)
  BY <1>1
<1>4. ~ended /\ ~failed /\ bodyOver # "broken" /\ got <= MaxBody /\ sent = 0 /\ url # Null
      /\ (ended' <=> ~body)
  BY <1>1 DEF Inv, StageOK, TypeOK
<1>5. pending = 0 /\ MaxReply \in Nat \ {0} /\ HighWater \in Nat \ {0}
  BY <1>4, ExchangeAssumption DEF Inv, TypeOK
<1>6. TypeOK'
  <2>1. head' \in [gzip : BOOLEAN, accept : Accept, length : -1..MaxReply]
    <3>1. <<>> \in Accept /\ length \in -1..MaxReply /\ -1 \in -1..MaxReply
      BY <1>5 DEF Accept
    <3> QED
      BY <1>1, <3>1
  <2>2. total' \in 0..MaxReply /\ made' \in 0..total' /\ pending' \in 0..HighWater
        /\ pending' <= sent' /\ sent' \in 0..MaxReply
    BY <1>1, <1>4, <1>5
  <2>3. stage' \in Stages /\ ended' \in BOOLEAN /\ status' \in {0, 200, 403, 404, 413, 502, 503}
    BY <1>1, <1>2 DEF Stages, Inv, TypeOK
  <2>4. closed' = closed /\ url' # Null
    BY <1>1, <1>4
  <2>5. TypeOK
    BY DEF Inv
  <2> QED
    BY <2>1, <2>2, <2>3, <2>4, <2>5 DEF TypeOK
<1>7. UrlOK' /\ GzipOK'
  BY <1>1, <1>3 DEF Inv, UrlOK, GzipOK, Clean
<1>8. StageOK'
  <2>1. pending' < HighWater
    BY <1>1, <1>5
  <2>2. stage' \in {"piping", "writing", "done"} /\ sent' = 0
    BY <1>1, <1>2, <1>4
  <2>3. stage' # "done" => ~ended' /\ ~failed' /\ bodyOver' # "broken" /\ got' <= MaxBody
    BY <1>2, <1>4
  <2>4. stage' = "piping" => head'.gzip /\ head'.length = -1
    BY <1>2, <1>3
  <2>5. head'.length \in {-1, total'} /\ made' = 0
    BY <1>3
  <2> QED
    BY <2>1, <2>2, <2>3, <2>4, <2>5 DEF StageOK
<1>9. CompleteIsWhole'
  <2>1. ended' => made' = total' /\ sent' = total'
    BY <1>1, <1>4
  <2> QED
    BY <1>4, <2>1 DEF CompleteIsWhole
<1>10. LengthIsTrue'
  <2>1. ended' => n = 0 /\ sent' = 0
    BY <1>1, <1>4
  <2> QED
    BY <1>3, <2>1 DEF LengthIsTrue
<1>11. HarnessIsTold'
  <2>1. closed' = closed /\ (closed => aborted) /\ (aborted => closed)
    BY <1>1, <1>4 DEF Inv, HarnessIsTold, LeftIsAborted
  <2> QED
    BY <1>1, <1>2, <1>4, <2>1 DEF HarnessIsTold, BodyIsWhole, LeftIsAborted
<1> QED
  BY <1>6, <1>7, <1>8, <1>9, <1>10, <1>11 DEF Inv

(* The harness answers, or its answer has been trimmed.                    *)
LEMMA RepliesStep ==
  ASSUME Inv, Replies
  PROVE  Inv'
<1>1. PICK coded \in BOOLEAN, type \in {"json", "binary"}, accept \in Accept :
        \/ Trimmed(coded, type, accept)
        \/ \E n \in 0..MaxReply, body \in BOOLEAN, declared \in BOOLEAN :
             HarnessReplies(n, body, declared, coded, type, accept)
  BY DEF Replies
<1>2. CASE Trimmed(coded, type, accept)
  <2>1. 1 \in 0..MaxReply
    BY ExchangeAssumption
  <2>2. /\ stage \in {"fetching", "trimming"} /\ Reply(TRUE, -1, coded, type, accept)
        /\ total' = 1 /\ made' = 0 /\ UNCHANGED <<method, url, keys, got, bodyOver, aborted, failed>>
    BY <1>2 DEF Trimmed
  <2> QED
    BY <2>1, <2>2, ReplyStep
<1>3. ASSUME NEW n \in 0..MaxReply, NEW body \in BOOLEAN, NEW declared \in BOOLEAN,
             HarnessReplies(n, body, declared, coded, type, accept)
      PROVE  Inv'
  <2>1. /\ stage = "fetching" /\ (~body => n = 0) /\ total' = n /\ made' = 0
        /\ UNCHANGED <<method, url, keys, got, bodyOver, aborted, failed>>
    BY <1>3 DEF HarnessReplies
  <2>2. CASE ~keys
    <3>1. PICK length \in {-1, n} : length = IF declared THEN n ELSE -1
      OBVIOUS
    <3>2. Reply(body, length, coded, type, accept)
      BY <1>3, <2>2, <3>1 DEF HarnessReplies
    <3> QED
      BY <2>1, <3>2, ReplyStep
  <2>3. CASE keys
    <3>1. stage' = "trimming" /\ UNCHANGED <<status, ended, closed, head, pending, sent>>
      BY <1>3, <2>3 DEF HarnessReplies, resVars
    <3>2. TypeOK'
      <4>1. 0 \in 0..n /\ url # Null
        BY <2>1 DEF Inv, StageOK
      <4> QED
        BY <2>1, <3>1, <4>1 DEF Inv, TypeOK, Stages
    <3>3. UrlOK' /\ GzipOK'
      BY <2>1, <3>1 DEF Inv, UrlOK, GzipOK, Clean
    <3>4. StageOK'
      BY <2>1, <3>1 DEF Inv, StageOK
    <3>5. CompleteIsWhole' /\ LengthIsTrue'
      BY <2>1, <3>1 DEF Inv, StageOK, CompleteIsWhole, LengthIsTrue
    <3>6. HarnessIsTold'
      BY <2>1, <3>1 DEF Inv, StageOK, HarnessIsTold, BodyIsWhole, LeftIsAborted, Fetched
    <3> QED
      BY <3>2, <3>3, <3>4, <3>5, <3>6 DEF Inv
  <2> QED
    BY <2>1, <2>2, <2>3 DEF Inv, TypeOK
<1> QED
  BY <1>1, <1>2, <1>3

-----------------------------------------------------------------------------
(* A chunk of the harness's body goes to the trimmer or into gzip.         *)
LEMMA TakeChunkStep ==
  ASSUME Inv, TakeChunk
  PROVE  Inv'
<1>1. /\ stage \in {"trimming", "piping"} /\ made < total /\ made' = made + 1
      /\ UNCHANGED <<stage, method, url, keys, got, bodyOver, status, ended, closed, head, pending,
                     sent, aborted, total, failed>>
  BY DEF TakeChunk, resVars
<1>2. made \in Nat /\ total \in Nat /\ made + 1 \in 0..total
  BY <1>1, ExchangeAssumption DEF Inv, TypeOK
<1>3. TypeOK'
  BY <1>1, <1>2 DEF Inv, TypeOK
<1>4. UrlOK' /\ GzipOK'
  BY <1>1 DEF Inv, UrlOK, GzipOK, Clean
<1>5. StageOK'
  BY <1>1 DEF Inv, StageOK
<1>6. CompleteIsWhole' /\ LengthIsTrue'
  BY <1>1 DEF Inv, StageOK, CompleteIsWhole, LengthIsTrue
<1>7. HarnessIsTold'
  BY <1>1 DEF Inv, HarnessIsTold, BodyIsWhole, LeftIsAborted, Fetched
<1> QED
  BY <1>3, <1>4, <1>5, <1>6, <1>7 DEF Inv

(* The harness fails, or the pipeline finds its response closed.           *)
LEMMA BreakStep ==
  ASSUME Inv, HarnessFails \/ PipelineBreaks
  PROVE  Inv'
<1>1. /\ stage # "done" /\ Reject
      /\ UNCHANGED <<method, url, keys, got, bodyOver, total, made>>
  BY DEF HarnessFails, PipelineBreaks, bodyVars
<1>2. /\ method' \in {"GET", "POST", "HEAD"} /\ keys' \in BOOLEAN
      /\ bodyOver' \in {"no", "whole", "broken"}
  BY <1>1 DEF Inv, TypeOK
<1>3. failed' \in BOOLEAN
  <2>1. CASE HarnessFails
    BY <2>1 DEF HarnessFails
  <2>2. CASE PipelineBreaks
    BY <2>2 DEF PipelineBreaks, bodyVars, Inv, TypeOK
  <2> QED
    BY <2>1, <2>2
<1> QED
  BY <1>1, <1>2, <1>3, RejectStep

(* The last of a body is sent: by the pipeline, or by the writing loop.    *)
LEMMA EndsStep ==
  ASSUME Inv, PipelineEnds \/ WriteEnds
  PROVE  Inv'
<1>1. /\ made = total /\ ended' = TRUE /\ stage' = "done"
      /\ UNCHANGED <<method, url, keys, got, bodyOver, aborted, total, made, failed, status, closed,
                     head, pending>>
  BY DEF PipelineEnds, WriteEnds, bodyVars
<1>2. /\ stage \in {"piping", "writing"} /\ ~failed /\ bodyOver # "broken" /\ got <= MaxBody
  BY DEF PipelineEnds, WriteEnds, Inv, StageOK
<1>3. \/ stage = "piping" /\ sent = 0 /\ sent' = 1 /\ head.gzip /\ head.length = -1
      \/ stage = "writing" /\ sent' = sent /\ head.length \in {-1, total}
         /\ (method # "HEAD" => sent = made)
  BY DEF PipelineEnds, WriteEnds, Inv, StageOK
<1>4. TypeOK'
  <2>1. sent' \in 0..MaxReply /\ pending <= sent'
    BY <1>3, ExchangeAssumption DEF Inv, TypeOK
  <2> QED
    BY <1>1, <2>1 DEF Inv, TypeOK, Stages
<1>5. UrlOK' /\ GzipOK'
  BY <1>1 DEF Inv, UrlOK, GzipOK, Clean
<1>6. StageOK'
  BY <1>1 DEF StageOK
<1>7. CompleteIsWhole'
  BY <1>1, <1>2, <1>3 DEF CompleteIsWhole
<1>8. LengthIsTrue'
  BY <1>1, <1>3 DEF LengthIsTrue
<1>9. HarnessIsTold'
  BY <1>1, <1>2 DEF Inv, HarnessIsTold, BodyIsWhole, LeftIsAborted, Fetched
<1> QED
  BY <1>4, <1>5, <1>6, <1>7, <1>8, <1>9 DEF Inv

(* A chunk is written: it is sent, it is none of the answer to HEAD, or    *)
(* nobody takes it any more.                                               *)
LEMMA WriteChunkStep ==
  ASSUME Inv, WriteChunk
  PROVE  Inv'
<1>1. /\ stage = "writing" /\ made < total /\ made' = made + 1
      /\ UNCHANGED <<method, url, keys, got, bodyOver, aborted, total, failed, status, ended, closed, head>>
  BY DEF WriteChunk
<1>2. /\ ~ended /\ ~failed /\ bodyOver # "broken" /\ got <= MaxBody /\ url # Null
      /\ head.length \in {-1, total} /\ (method # "HEAD" => sent = made)
      /\ closed \/ pending < HighWater
  BY <1>1 DEF Inv, StageOK, TypeOK
<1>3. PICK p \in Nat, s \in Nat, m \in Nat, t \in Nat :
        /\ p = pending /\ s = sent /\ m = made /\ t = total
        /\ p <= HighWater /\ p <= s /\ s <= MaxReply /\ m < t /\ t <= MaxReply
  <2>1. pending \in Nat /\ sent \in Nat /\ made \in Nat /\ total \in Nat
    BY <1>1, ExchangeAssumption DEF Inv, TypeOK
  <2>2. pending <= HighWater /\ pending <= sent /\ sent <= MaxReply /\ total <= MaxReply
    BY ExchangeAssumption DEF Inv, TypeOK
  <2> QED
    BY <1>1, <2>1, <2>2
<1>4. /\ stage' \in {"hung", "writing", "draining"} /\ (stage' = "hung" => closed)
      /\ sent' \in Nat /\ pending' \in Nat /\ pending' <= HighWater /\ pending' <= sent'
      /\ sent' <= MaxReply
      /\ stage' # "hung" /\ method # "HEAD" => sent' = m + 1
      /\ stage' = "writing" => pending' < HighWater
  <2>1. CASE closed
    <3>1. stage' = "hung" /\ UNCHANGED <<sent, pending>>
      BY <2>1 DEF WriteChunk
    <3> QED
      BY <1>3, <2>1, <3>1
  <2>2. CASE ~closed /\ method = "HEAD"
    <3>1. UNCHANGED <<stage, sent, pending>>
      BY <2>2 DEF WriteChunk
    <3> QED
      BY <1>1, <1>2, <1>3, <2>2, <3>1
  <2>3. CASE ~closed /\ method # "HEAD"
    <3>1. /\ sent' = s + 1 /\ pending' = p + 1
          /\ stage' = IF p + 1 >= HighWater THEN "draining" ELSE "writing"
      BY <1>3, <2>3 DEF WriteChunk
    <3>2. s = m /\ p < HighWater
      BY <1>2, <1>3, <2>3
    <3>3. s + 1 <= MaxReply /\ p + 1 <= HighWater /\ p + 1 <= s + 1 /\ HighWater \in Nat
      BY <1>3, <3>2, ExchangeAssumption
    <3> QED
      BY <1>3, <3>1, <3>2, <3>3
  <2> QED
    BY <2>1, <2>2, <2>3
<1>5. TypeOK'
  <2>1. made' \in 0..total' /\ pending' \in 0..HighWater /\ pending' <= sent' /\ sent' \in 0..MaxReply
    BY <1>1, <1>3, <1>4, ExchangeAssumption
  <2>2. stage' \in Stages /\ url' # Null
    BY <1>1, <1>2, <1>4 DEF Stages
  <2> QED
    BY <1>1, <2>1, <2>2 DEF Inv, TypeOK
<1>6. UrlOK' /\ GzipOK'
  BY <1>1 DEF Inv, UrlOK, GzipOK, Clean
<1>7. StageOK'
  <2>1. made' = m + 1
    BY <1>1, <1>3
  <2> QED
    BY <1>1, <1>2, <1>4, <2>1 DEF StageOK
<1>8. CompleteIsWhole' /\ LengthIsTrue'
  BY <1>1, <1>2 DEF CompleteIsWhole, LengthIsTrue
<1>9. HarnessIsTold'
  <2>1. status' # 413 \/ got' = MaxBody + 1
    BY <1>1 DEF Inv, HarnessIsTold, BodyIsWhole
  <2>2. bodyOver' # "broken" /\ got' <= MaxBody
    BY <1>1, <1>2
  <2>3. LeftIsAborted'
    BY <1>1, <1>2, <1>4 DEF Inv, HarnessIsTold, LeftIsAborted
  <2> QED
    BY <2>1, <2>2, <2>3 DEF HarnessIsTold, BodyIsWhole
<1> QED
  BY <1>5, <1>6, <1>7, <1>8, <1>9 DEF Inv

(* The response has drained or closed.                                     *)
LEMMA DrainedStep ==
  ASSUME Inv, Drained
  PROVE  Inv'
<1>1. /\ stage = "draining" /\ (pending = 0 \/ closed) /\ stage' = "writing"
      /\ UNCHANGED <<method, url, keys, got, bodyOver, aborted, total, made, failed, status, ended,
                     closed, head, pending, sent>>
  BY DEF Drained, resVars, bodyVars
<1>2. closed \/ pending < HighWater
  BY <1>1, ExchangeAssumption
<1>3. TypeOK'
  BY <1>1 DEF Inv, TypeOK, Stages
<1>4. UrlOK' /\ GzipOK'
  BY <1>1 DEF Inv, UrlOK, GzipOK, Clean
<1>5. StageOK'
  BY <1>1, <1>2 DEF Inv, StageOK
<1>6. CompleteIsWhole' /\ LengthIsTrue'
  BY <1>1 DEF Inv, CompleteIsWhole, LengthIsTrue
<1>7. HarnessIsTold'
  BY <1>1 DEF Inv, HarnessIsTold, BodyIsWhole, LeftIsAborted, Fetched
<1> QED
  BY <1>3, <1>4, <1>5, <1>6, <1>7 DEF Inv

(* The socket takes a chunk.                                               *)
LEMMA FlushStep ==
  ASSUME Inv, Flush
  PROVE  Inv'
<1>1. /\ pending > 0 /\ pending' = pending - 1
      /\ UNCHANGED <<stage, method, url, keys, got, bodyOver, aborted, total, made, failed, status,
                     ended, closed, head, sent>>
  BY DEF Flush, bodyVars
<1>2. PICK p \in Nat, s \in Nat : p = pending /\ s = sent /\ p <= HighWater /\ p <= s
  <2>1. pending \in Nat /\ sent \in Nat /\ pending <= HighWater /\ pending <= sent
    BY ExchangeAssumption DEF Inv, TypeOK
  <2> QED
    BY <2>1
<1>3. pending' \in 0..HighWater /\ pending' <= sent' /\ pending' < HighWater
  BY <1>1, <1>2, ExchangeAssumption
<1>4. TypeOK'
  BY <1>1, <1>3 DEF Inv, TypeOK
<1>5. UrlOK' /\ GzipOK'
  BY <1>1 DEF Inv, UrlOK, GzipOK, Clean
<1>6. StageOK'
  BY <1>1, <1>3 DEF Inv, StageOK
<1>7. CompleteIsWhole' /\ LengthIsTrue'
  BY <1>1 DEF Inv, CompleteIsWhole, LengthIsTrue
<1>8. HarnessIsTold'
  BY <1>1 DEF Inv, HarnessIsTold, BodyIsWhole, LeftIsAborted, Fetched
<1> QED
  BY <1>4, <1>5, <1>6, <1>7, <1>8 DEF Inv

(* The connection closes under whatever `serve` is at.                     *)
LEMMA SocketClosesStep ==
  ASSUME Inv, SocketCloses
  PROVE  Inv'
<1>1. /\ stage \notin {"arrived", "calling"} /\ closed' = TRUE
      /\ aborted' = (aborted \/ ~ended)
      /\ UNCHANGED <<stage, method, url, keys, got, bodyOver, total, made, failed, status, ended,
                     head, pending, sent>>
  BY DEF SocketCloses, OnClose, bodyVars
<1>2. aborted' \in BOOLEAN /\ (aborted => aborted') /\ (~ended => aborted')
  <2>1. aborted \in BOOLEAN /\ ended \in BOOLEAN
    BY DEF Inv, TypeOK
  <2> QED
    BY <1>1, <2>1
<1>3. TypeOK'
  BY <1>1, <1>2 DEF Inv, TypeOK
<1>4. UrlOK' /\ GzipOK'
  BY <1>1 DEF Inv, UrlOK, GzipOK, Clean
<1>5. StageOK'
  BY <1>1 DEF Inv, StageOK
<1>6. CompleteIsWhole' /\ LengthIsTrue'
  BY <1>1, <1>2 DEF Inv, CompleteIsWhole, LengthIsTrue
<1>7. HarnessIsTold'
  BY <1>1, <1>2 DEF Inv, HarnessIsTold, BodyIsWhole, LeftIsAborted, Fetched
<1> QED
  BY <1>3, <1>4, <1>5, <1>6, <1>7 DEF Inv

-----------------------------------------------------------------------------
(* Every step of Next keeps the invariant.                                 *)
LEMMA InvNext == Inv /\ [Next]_vars => Inv'
<1> SUFFICES ASSUME Inv, [Next]_vars PROVE Inv'
  OBVIOUS
<1>1. CASE Arrives
  <2>1. stage = "arrived"
    BY <1>1 DEF Arrives
  <2>2. PICK t \in Target :
          \/ DispatchCall(t)
          \/ \E peer \in {"none", "live", "aborted"}, m \in {"GET", "POST", "HEAD"}, json \in BOOLEAN,
                mode \in {"buffered", "streamed"} : Serve(peer, t, m, json, mode)
    BY <1>1 DEF Arrives
  <2> QED
    BY <2>1, <2>2, DispatchCallStep, ServeStep
<1>2. CASE CallReturns \/ BodyChunk \/ BodyOver \/ Replies
  BY <1>2, CallReturnsStep, BodyChunkStep, BodyOverStep, RepliesStep
<1>3. CASE TakeChunk \/ HarnessFails \/ PipelineEnds \/ PipelineBreaks
  BY <1>3, TakeChunkStep, BreakStep, EndsStep
<1>4. CASE WriteChunk \/ Drained \/ WriteEnds \/ Flush \/ SocketCloses
  BY <1>4, WriteChunkStep, DrainedStep, EndsStep, FlushStep, SocketClosesStep
<1>5. CASE UNCHANGED vars
  <2>1. UNCHANGED <<stage, method, url, keys, got, bodyOver, aborted, total, made, failed, status,
                    ended, closed, head, pending, sent>>
    BY <1>5 DEF vars, resVars, bodyVars
  <2>2. TypeOK'
    BY <2>1 DEF Inv, TypeOK
  <2>3. UrlOK' /\ GzipOK'
    BY <2>1 DEF Inv, UrlOK, GzipOK, Clean
  <2>4. StageOK'
    BY <2>1 DEF Inv, StageOK
  <2>5. CompleteIsWhole' /\ LengthIsTrue'
    BY <2>1 DEF Inv, CompleteIsWhole, LengthIsTrue
  <2>6. HarnessIsTold'
    BY <2>1 DEF Inv, HarnessIsTold, BodyIsWhole, LeftIsAborted, Fetched
  <2> QED
    BY <2>2, <2>3, <2>4, <2>5, <2>6 DEF Inv
<1> QED
  BY <1>1, <1>2, <1>3, <1>4, <1>5 DEF Next

(* The invariant of an exchange holds for every set of segments, of        *)
(* allowed routes and every bound.                                         *)
THEOREM Invariance == Spec => []Inv
BY InvInit, InvNext, PTL DEF Spec

(* ControlIsHidden: nothing under the control prefix is ever asked of the  *)
(* harness, in whatever way the target spells it: what was classified has  *)
(* no dot segments left and is its own normal form, and the fence is       *)
(* consulted before the operator's allowlist.                              *)
THEOREM ControlIsOutOfReach == Spec => []ControlIsHidden
<1>1. Inv => ControlIsHidden
  <2> SUFFICES ASSUME Inv, url # Null PROVE ~StartsWith(Normal(url), ControlPrefix)
    BY DEF ControlIsHidden
  <2>1. url \in Seq(Segment \cup {""}) /\ Clean(url) /\ ~StartsWith(url, ControlPrefix)
    BY DEF Inv, UrlOK
  <2>2. Normal(url) = url
    BY <2>1, NormalIsFinal
  <2> QED
    BY <2>1, <2>2
<1> QED
  BY <1>1, Invariance, PTL

(* AnswerIsTrue: a harness that fails half-way never ends an answer in     *)
(* order, a content-length that is sent is kept, and gzip is used only for *)
(* a header whose last word on it admits it.                               *)
THEOREM AnswersAreTrue == Spec => []AnswerIsTrue
<1>1. Inv => AnswerIsTrue
  <2> SUFFICES ASSUME Inv PROVE AnswerIsTrue
    OBVIOUS
  <2>1. GzipIsWanted
    <3> SUFFICES ASSUME head.gzip PROVE GzipIsWanted
      BY DEF GzipIsWanted
    <3> DEFINE accept == head.accept
    <3>1. accept \in BoundedSeq(Part, 2) /\ AcceptsGzip(accept)
      <4>1. GzipOK
        BY DEF Inv
      <4>2. accept \in Admitting
        BY <4>1 DEF GzipOK
      <4> HIDE DEF accept
      <4> QED
        BY <4>2 DEF Admitting
    <3>2. accept \in Seq(Part)
      <4> HIDE DEF accept
      <4> QED
        BY <3>1, BoundedIsSeq
    <3>3. \E k \in IF Valid(accept, "gzip") # {} THEN Valid(accept, "gzip") ELSE Valid(accept, "*") :
            accept[k].q > 0
      <4> HIDE DEF accept
      <4> QED
        BY <3>1, <3>2, AdmittingIs
    <3> QED
      BY <3>3 DEF GzipIsWanted, Valid, Latest
  <2> QED
    BY <2>1 DEF Inv, AnswerIsTrue
<1> QED
  BY <1>1, Invariance, PTL

(* HarnessIsTold: the harness gets a whole body within the ceiling or      *)
(* none, and its signal says exactly whether the phone has left early.     *)
THEOREM TheHarnessIsTold == Spec => []HarnessIsTold
<1>1. Inv => HarnessIsTold
  BY DEF Inv
<1> QED
  BY <1>1, Invariance, PTL

=============================================================================
