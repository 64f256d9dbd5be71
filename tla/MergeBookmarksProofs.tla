------------------------ MODULE MergeBookmarksProofs ------------------------
(***************************************************************************)
(* What merge_bookmarks does with any trees of any depth, and so for any   *)
(* two profiles however many edits their users made.                       *)
(*                                                                         *)
(* The recursive functions of MergeBookmarks come first: that there is a   *)
(* function that satisfies the equation by which each is defined.  Then    *)
(* the merge of one folder, what holds of all trees by induction on the    *)
(* depth, the profiles and the trees read from them, and the merge along a *)
(* path.  The theorems on the places of the merged tree come last.         *)
(***************************************************************************)
EXTENDS MergeBookmarks, FiniteSetTheorems, FunctionTheorems, WellFoundedInduction, TLAPS

-----------------------------------------------------------------------------
(* Numbers                                                                 *)

(* A set of natural numbers that is not empty has a least element. *)
LEMMA LeastNatural ==
  ASSUME NEW T \in SUBSET Nat, T # {}
  PROVE  \E m \in T : \A n \in T : m <= n
<1> DEFINE R == OpToRel(<, Nat)
<1>1. IsWellFoundedOn(R, Nat)
  BY NatLessThanWellFounded, Zenon
<1>2. \A x \in Nat, y \in Nat : y < x => <<y, x>> \in R
  BY DEF OpToRel
<1> HIDE DEF R
<1>3. PICK m \in T : \A n \in T : <<n, m>> \notin R
  BY <1>1, WFMin
<1>4. \A n \in T : ~(n < m)
  BY <1>2, <1>3
<1> QED BY <1>4

(* Induction, for a set of numbers. *)
LEMMA NatSetInduction ==
  ASSUME NEW S, 0 \in S, \A n \in Nat : n \in S => n + 1 \in S
  PROVE  \A n \in Nat : n \in S
<1> DEFINE T == {n \in Nat : n \notin S}
<1>1. SUFFICES ASSUME T # {} PROVE FALSE
  OBVIOUS
<1>2. PICK m \in T : \A n \in T : m <= n
  BY <1>1, LeastNatural, Zenon
<1>3. m # 0 /\ m \in Nat
  OBVIOUS
<1>4. m - 1 \in Nat /\ m - 1 \notin T
  BY <1>2, <1>3
<1>5. (m - 1) + 1 = m
  BY <1>3
<1>6. m - 1 \in S
  BY <1>4
<1>7. m \in S
  BY <1>4, <1>5, <1>6
<1> QED BY <1>7

-----------------------------------------------------------------------------
(***************************************************************************)
(* The recursive functions.  A function on the numbers up to n that        *)
(* satisfies the equation exists for every n and is unique, so that their  *)
(* values make up one on all numbers.  The four proofs are the same.       *)
(***************************************************************************)

(* The trees of depth d, from those of the depth before. *)
NodesOver(d, x) ==
  IF d = 0 THEN {} ELSE [id : Id, kind : Kind, name : Name, url : Url \cup {NoUrl},
                         children : Siblings(x)]

(* Node satisfies the equation that defines it.                            *)
LEMMA NodeEquation ==
  Node = [d \in Nat |-> NodesOver(d, Node[d - 1])]
<1> DEFINE Step(d, x) == NodesOver(d, x)
           UpTo(g, n) == g = [d \in 0..n |-> Step(d, g[d - 1])]
           F == Node
<1>0. F = CHOOSE f : f = [d \in Nat |-> Step(d, f[d - 1])]
  BY DEF Node, NodesOver
<1>z. \A x, y : Step(0, x) = Step(0, y)
  BY DEF NodesOver
<1> HIDE DEF Step, F
<1>1. \A n \in Nat : \E g : UpTo(g, n)
  <2> DEFINE S == {n \in Nat : \E g : UpTo(g, n)}
  <2>1. 0 \in S
    <3> DEFINE g == [d \in 0..0 |-> Step(0, {})]
    <3>1. \A d \in 0..0 : Step(0, {}) = Step(d, g[d - 1])
      BY <1>z
    <3>2. UpTo(g, 0)
      BY <3>1, Zenon
    <3>3. \E h : UpTo(h, 0)
      BY <3>2, Zenon
    <3> HIDE DEF UpTo
    <3> QED BY <3>3
  <2>2. ASSUME NEW n \in Nat, n \in S PROVE n + 1 \in S
    <3>1. PICK g : UpTo(g, n)
      BY <2>2
    <3> DEFINE h == [d \in 0..(n + 1) |-> Step(d, g[d - 1])]
    <3>2. ASSUME NEW d \in 0..(n + 1) PROVE Step(d, g[d - 1]) = Step(d, h[d - 1])
      <4>1. CASE d = 0
        BY <1>z, <4>1, Zenon
      <4>2. CASE d # 0
        <5>1. d - 1 \in 0..n /\ d - 1 \in 0..(n + 1)
          BY <4>2
        <5>2. g[d - 1] = Step(d - 1, g[(d - 1) - 1])
          BY <3>1, <5>1, Zenon
        <5>3. h[d - 1] = Step(d - 1, g[(d - 1) - 1])
          BY <5>1, Zenon
        <5> QED BY <5>2, <5>3
      <4> QED BY <4>1, <4>2
    <3>3. UpTo(h, n + 1)
      BY <3>2, Zenon
    <3>4. \E f : UpTo(f, n + 1)
      BY <3>3, Zenon
    <3> HIDE DEF UpTo
    <3> QED BY <3>4
  <2> HIDE DEF S
  <2>3. \A n \in Nat : n \in S
    BY <2>1, <2>2, NatSetInduction
  <2> QED BY <2>3 DEF S
<1>2. \A k \in Nat : \A m, n \in Nat : \A g, h :
        UpTo(g, m) /\ UpTo(h, n) /\ k <= m /\ k <= n => g[k] = h[k]
  <2> DEFINE S == {k \in Nat : \A m, n \in Nat : \A g, h :
                     UpTo(g, m) /\ UpTo(h, n) /\ k <= m /\ k <= n => g[k] = h[k]}
  <2>0. ASSUME NEW k \in Nat, NEW m \in Nat, NEW g, UpTo(g, m), k <= m
        PROVE  g[k] = Step(k, g[k - 1])
    <3>1. k \in 0..m
      BY <2>0
    <3> QED BY <2>0, <3>1, Zenon
  <2> HIDE DEF UpTo
  <2>1. 0 \in S
    BY <1>z, <2>0
  <2>2. ASSUME NEW k \in Nat, k \in S PROVE k + 1 \in S
    <3>1. SUFFICES ASSUME NEW m \in Nat, NEW n \in Nat, NEW g, NEW h,
                          UpTo(g, m), UpTo(h, n), k + 1 <= m, k + 1 <= n
                   PROVE  g[k + 1] = h[k + 1]
      BY DEF S
    <3>2. k <= m /\ k <= n /\ k + 1 \in Nat /\ (k + 1) - 1 = k
      BY <3>1
    <3>3. g[k] = h[k]
      BY <2>2, <3>1, <3>2
    <3> QED BY <2>0, <3>1, <3>2, <3>3
  <2> HIDE DEF S
  <2>3. \A n \in Nat : n \in S
    BY <2>1, <2>2, NatSetInduction
  <2> QED BY <2>3 DEF S
<1> DEFINE G(n) == CHOOSE g : UpTo(g, n)
           L == [n \in Nat |-> G(n)[n]]
<1>3. \A n \in Nat : UpTo(G(n), n)
  BY <1>1, Zenon
<1>4. ASSUME NEW d \in Nat PROVE L[d] = Step(d, L[d - 1])
  <2>1. d \in 0..d /\ (d # 0 => d - 1 \in Nat /\ d - 1 <= d /\ d - 1 <= d - 1)
    OBVIOUS
  <2>2. G(d)[d] = Step(d, G(d)[d - 1])
    <3>1. UpTo(G(d), d)
      BY <1>3, Zenon
    <3> HIDE DEF G
    <3> QED BY <2>1, <3>1, Zenon
  <2>3. d # 0 => G(d)[d - 1] = G(d - 1)[d - 1]
    <3> HIDE DEF UpTo, G
    <3> QED BY <1>2, <1>3, <2>1
  <2>4. d # 0 => L[d - 1] = G(d - 1)[d - 1]
    BY <2>1, Zenon
  <2>5. L[d] = G(d)[d]
    BY Zenon
  <2> HIDE DEF L, G
  <2> QED BY <1>z, <2>2, <2>3, <2>4, <2>5
<1>5. L = [d \in Nat |-> Step(d, L[d - 1])]
  <2> DEFINE R == [d \in Nat |-> Step(d, L[d - 1])]
  <2>1. \A d \in Nat : R[d] = Step(d, L[d - 1])
    BY Zenon
  <2>2. DOMAIN R = Nat /\ R = [d \in Nat |-> R[d]]
    <3> HIDE DEF L
    <3> QED OBVIOUS
  <2>3. DOMAIN L = Nat /\ L = [d \in Nat |-> L[d]]
    <3> HIDE DEF G
    <3> QED OBVIOUS
  <2> HIDE DEF L, R
  <2>4. L = R
    BY <1>4, <2>1, <2>2, <2>3
  <2> QED BY <2>4 DEF R
<1> HIDE DEF L
<1>6. F = [d \in Nat |-> Step(d, F[d - 1])]
  BY <1>0, <1>5, Zenon
<1> QED BY <1>6 DEF Step, F

(* The merge of trees of depth d, from that of the depth before. *)
MergesOver(d, x) ==
  [v \in Versions(d) |->
     IF d = 0 THEN [node |-> {}, conflicts |-> 0] ELSE MergeOptional(x, v[1], v[2], v[3])]

(* MergeAt satisfies the equation that defines it.                         *)
LEMMA MergeEquation ==
  MergeAt = [d \in Nat |-> MergesOver(d, MergeAt[d - 1])]
<1> DEFINE Step(d, x) == MergesOver(d, x)
           UpTo(g, n) == g = [d \in 0..n |-> Step(d, g[d - 1])]
           F == MergeAt
<1>0. F = CHOOSE f : f = [d \in Nat |-> Step(d, f[d - 1])]
  BY DEF MergeAt, MergesOver
<1>z. \A x, y : Step(0, x) = Step(0, y)
  BY DEF MergesOver
<1> HIDE DEF Step, F
<1>1. \A n \in Nat : \E g : UpTo(g, n)
  <2> DEFINE S == {n \in Nat : \E g : UpTo(g, n)}
  <2>1. 0 \in S
    <3> DEFINE g == [d \in 0..0 |-> Step(0, {})]
    <3>1. \A d \in 0..0 : Step(0, {}) = Step(d, g[d - 1])
      BY <1>z
    <3>2. UpTo(g, 0)
      BY <3>1, Zenon
    <3>3. \E h : UpTo(h, 0)
      BY <3>2, Zenon
    <3> HIDE DEF UpTo
    <3> QED BY <3>3
  <2>2. ASSUME NEW n \in Nat, n \in S PROVE n + 1 \in S
    <3>1. PICK g : UpTo(g, n)
      BY <2>2
    <3> DEFINE h == [d \in 0..(n + 1) |-> Step(d, g[d - 1])]
    <3>2. ASSUME NEW d \in 0..(n + 1) PROVE Step(d, g[d - 1]) = Step(d, h[d - 1])
      <4>1. CASE d = 0
        BY <1>z, <4>1, Zenon
      <4>2. CASE d # 0
        <5>1. d - 1 \in 0..n /\ d - 1 \in 0..(n + 1)
          BY <4>2
        <5>2. g[d - 1] = Step(d - 1, g[(d - 1) - 1])
          BY <3>1, <5>1, Zenon
        <5>3. h[d - 1] = Step(d - 1, g[(d - 1) - 1])
          BY <5>1, Zenon
        <5> QED BY <5>2, <5>3
      <4> QED BY <4>1, <4>2
    <3>3. UpTo(h, n + 1)
      BY <3>2, Zenon
    <3>4. \E f : UpTo(f, n + 1)
      BY <3>3, Zenon
    <3> HIDE DEF UpTo
    <3> QED BY <3>4
  <2> HIDE DEF S
  <2>3. \A n \in Nat : n \in S
    BY <2>1, <2>2, NatSetInduction
  <2> QED BY <2>3 DEF S
<1>2. \A k \in Nat : \A m, n \in Nat : \A g, h :
        UpTo(g, m) /\ UpTo(h, n) /\ k <= m /\ k <= n => g[k] = h[k]
  <2> DEFINE S == {k \in Nat : \A m, n \in Nat : \A g, h :
                     UpTo(g, m) /\ UpTo(h, n) /\ k <= m /\ k <= n => g[k] = h[k]}
  <2>0. ASSUME NEW k \in Nat, NEW m \in Nat, NEW g, UpTo(g, m), k <= m
        PROVE  g[k] = Step(k, g[k - 1])
    <3>1. k \in 0..m
      BY <2>0
    <3> QED BY <2>0, <3>1, Zenon
  <2> HIDE DEF UpTo
  <2>1. 0 \in S
    BY <1>z, <2>0
  <2>2. ASSUME NEW k \in Nat, k \in S PROVE k + 1 \in S
    <3>1. SUFFICES ASSUME NEW m \in Nat, NEW n \in Nat, NEW g, NEW h,
                          UpTo(g, m), UpTo(h, n), k + 1 <= m, k + 1 <= n
                   PROVE  g[k + 1] = h[k + 1]
      BY DEF S
    <3>2. k <= m /\ k <= n /\ k + 1 \in Nat /\ (k + 1) - 1 = k
      BY <3>1
    <3>3. g[k] = h[k]
      BY <2>2, <3>1, <3>2
    <3> QED BY <2>0, <3>1, <3>2, <3>3
  <2> HIDE DEF S
  <2>3. \A n \in Nat : n \in S
    BY <2>1, <2>2, NatSetInduction
  <2> QED BY <2>3 DEF S
<1> DEFINE G(n) == CHOOSE g : UpTo(g, n)
           L == [n \in Nat |-> G(n)[n]]
<1>3. \A n \in Nat : UpTo(G(n), n)
  BY <1>1, Zenon
<1>4. ASSUME NEW d \in Nat PROVE L[d] = Step(d, L[d - 1])
  <2>1. d \in 0..d /\ (d # 0 => d - 1 \in Nat /\ d - 1 <= d /\ d - 1 <= d - 1)
    OBVIOUS
  <2>2. G(d)[d] = Step(d, G(d)[d - 1])
    <3>1. UpTo(G(d), d)
      BY <1>3, Zenon
    <3> HIDE DEF G
    <3> QED BY <2>1, <3>1, Zenon
  <2>3. d # 0 => G(d)[d - 1] = G(d - 1)[d - 1]
    <3> HIDE DEF UpTo, G
    <3> QED BY <1>2, <1>3, <2>1
  <2>4. d # 0 => L[d - 1] = G(d - 1)[d - 1]
    BY <2>1, Zenon
  <2>5. L[d] = G(d)[d]
    BY Zenon
  <2> HIDE DEF L, G
  <2> QED BY <1>z, <2>2, <2>3, <2>4, <2>5
<1>5. L = [d \in Nat |-> Step(d, L[d - 1])]
  <2> DEFINE R == [d \in Nat |-> Step(d, L[d - 1])]
  <2>1. \A d \in Nat : R[d] = Step(d, L[d - 1])
    BY Zenon
  <2>2. DOMAIN R = Nat /\ R = [d \in Nat |-> R[d]]
    <3> HIDE DEF L
    <3> QED OBVIOUS
  <2>3. DOMAIN L = Nat /\ L = [d \in Nat |-> L[d]]
    <3> HIDE DEF G
    <3> QED OBVIOUS
  <2> HIDE DEF L, R
  <2>4. L = R
    BY <1>4, <2>1, <2>2, <2>3
  <2> QED BY <2>4 DEF R
<1> HIDE DEF L
<1>6. F = [d \in Nat |-> Step(d, F[d - 1])]
  BY <1>0, <1>5, Zenon
<1> QED BY <1>6 DEF Step, F

(* The trees of a profile d levels deep, from those a level less deep. *)
TreesOver(p, d, x) ==
  [id \in DOMAIN p.node |->
     [id |-> id, kind |-> p.node[id].kind, name |-> p.node[id].name,
      url |-> p.node[id].url,
      children |-> IF d = 0 THEN <<>>
                   ELSE [i \in DOMAIN p.kids[id] |-> x[p.kids[id][i]]]]]

(* Trees satisfies the equation that defines it.                           *)
LEMMA TreesEquation ==
  ASSUME NEW p
  PROVE  Trees(p) = [d \in Nat |-> TreesOver(p, d, Trees(p)[d - 1])]
<1> DEFINE Step(d, x) == TreesOver(p, d, x)
           UpTo(g, n) == g = [d \in 0..n |-> Step(d, g[d - 1])]
           F == Trees(p)
<1>0. F = CHOOSE f : f = [d \in Nat |-> Step(d, f[d - 1])]
  BY DEF Trees, TreesOver
<1>z. \A x, y : Step(0, x) = Step(0, y)
  BY DEF TreesOver
<1> HIDE DEF Step, F
<1>1. \A n \in Nat : \E g : UpTo(g, n)
  <2> DEFINE S == {n \in Nat : \E g : UpTo(g, n)}
  <2>1. 0 \in S
    <3> DEFINE g == [d \in 0..0 |-> Step(0, {})]
    <3>1. \A d \in 0..0 : Step(0, {}) = Step(d, g[d - 1])
      BY <1>z
    <3>2. UpTo(g, 0)
      BY <3>1, Zenon
    <3>3. \E h : UpTo(h, 0)
      BY <3>2, Zenon
    <3> HIDE DEF UpTo
    <3> QED BY <3>3
  <2>2. ASSUME NEW n \in Nat, n \in S PROVE n + 1 \in S
    <3>1. PICK g : UpTo(g, n)
      BY <2>2
    <3> DEFINE h == [d \in 0..(n + 1) |-> Step(d, g[d - 1])]
    <3>2. ASSUME NEW d \in 0..(n + 1) PROVE Step(d, g[d - 1]) = Step(d, h[d - 1])
      <4>1. CASE d = 0
        BY <1>z, <4>1, Zenon
      <4>2. CASE d # 0
        <5>1. d - 1 \in 0..n /\ d - 1 \in 0..(n + 1)
          BY <4>2
        <5>2. g[d - 1] = Step(d - 1, g[(d - 1) - 1])
          BY <3>1, <5>1, Zenon
        <5>3. h[d - 1] = Step(d - 1, g[(d - 1) - 1])
          BY <5>1, Zenon
        <5> QED BY <5>2, <5>3
      <4> QED BY <4>1, <4>2
    <3>3. UpTo(h, n + 1)
      BY <3>2, Zenon
    <3>4. \E f : UpTo(f, n + 1)
      BY <3>3, Zenon
    <3> HIDE DEF UpTo
    <3> QED BY <3>4
  <2> HIDE DEF S
  <2>3. \A n \in Nat : n \in S
    BY <2>1, <2>2, NatSetInduction
  <2> QED BY <2>3 DEF S
<1>2. \A k \in Nat : \A m, n \in Nat : \A g, h :
        UpTo(g, m) /\ UpTo(h, n) /\ k <= m /\ k <= n => g[k] = h[k]
  <2> DEFINE S == {k \in Nat : \A m, n \in Nat : \A g, h :
                     UpTo(g, m) /\ UpTo(h, n) /\ k <= m /\ k <= n => g[k] = h[k]}
  <2>0. ASSUME NEW k \in Nat, NEW m \in Nat, NEW g, UpTo(g, m), k <= m
        PROVE  g[k] = Step(k, g[k - 1])
    <3>1. k \in 0..m
      BY <2>0
    <3> QED BY <2>0, <3>1, Zenon
  <2> HIDE DEF UpTo
  <2>1. 0 \in S
    BY <1>z, <2>0
  <2>2. ASSUME NEW k \in Nat, k \in S PROVE k + 1 \in S
    <3>1. SUFFICES ASSUME NEW m \in Nat, NEW n \in Nat, NEW g, NEW h,
                          UpTo(g, m), UpTo(h, n), k + 1 <= m, k + 1 <= n
                   PROVE  g[k + 1] = h[k + 1]
      BY DEF S
    <3>2. k <= m /\ k <= n /\ k + 1 \in Nat /\ (k + 1) - 1 = k
      BY <3>1
    <3>3. g[k] = h[k]
      BY <2>2, <3>1, <3>2
    <3> QED BY <2>0, <3>1, <3>2, <3>3
  <2> HIDE DEF S
  <2>3. \A n \in Nat : n \in S
    BY <2>1, <2>2, NatSetInduction
  <2> QED BY <2>3 DEF S
<1> DEFINE G(n) == CHOOSE g : UpTo(g, n)
           L == [n \in Nat |-> G(n)[n]]
<1>3. \A n \in Nat : UpTo(G(n), n)
  BY <1>1, Zenon
<1>4. ASSUME NEW d \in Nat PROVE L[d] = Step(d, L[d - 1])
  <2>1. d \in 0..d /\ (d # 0 => d - 1 \in Nat /\ d - 1 <= d /\ d - 1 <= d - 1)
    OBVIOUS
  <2>2. G(d)[d] = Step(d, G(d)[d - 1])
    <3>1. UpTo(G(d), d)
      BY <1>3, Zenon
    <3> HIDE DEF G
    <3> QED BY <2>1, <3>1, Zenon
  <2>3. d # 0 => G(d)[d - 1] = G(d - 1)[d - 1]
    <3> HIDE DEF UpTo, G
    <3> QED BY <1>2, <1>3, <2>1
  <2>4. d # 0 => L[d - 1] = G(d - 1)[d - 1]
    BY <2>1, Zenon
  <2>5. L[d] = G(d)[d]
    BY Zenon
  <2> HIDE DEF L, G
  <2> QED BY <1>z, <2>2, <2>3, <2>4, <2>5
<1>5. L = [d \in Nat |-> Step(d, L[d - 1])]
  <2> DEFINE R == [d \in Nat |-> Step(d, L[d - 1])]
  <2>1. \A d \in Nat : R[d] = Step(d, L[d - 1])
    BY Zenon
  <2>2. DOMAIN R = Nat /\ R = [d \in Nat |-> R[d]]
    <3> HIDE DEF L
    <3> QED OBVIOUS
  <2>3. DOMAIN L = Nat /\ L = [d \in Nat |-> L[d]]
    <3> HIDE DEF G
    <3> QED OBVIOUS
  <2> HIDE DEF L, R
  <2>4. L = R
    BY <1>4, <2>1, <2>2, <2>3
  <2> QED BY <2>4 DEF R
<1> HIDE DEF L
<1>6. F = [d \in Nat |-> Step(d, F[d - 1])]
  BY <1>0, <1>5, Zenon
<1> QED BY <1>6 DEF Step, F

(* The places on level d of a snapshot, from those on the level above. *)
LevelUnder(nodes, d, x) ==
  IF d = 0 THEN {<<<<>>, [children |-> nodes]>>}
  ELSE UNION {{<<Append(e[1], n.id), n>> : n \in ToSet(e[2].children)} : e \in x}

(* Levels satisfies the equation that defines it.                          *)
LEMMA LevelEquation ==
  ASSUME NEW nodes
  PROVE  Levels(nodes) = [d \in Nat |-> LevelUnder(nodes, d, Levels(nodes)[d - 1])]
<1> DEFINE Step(d, x) == LevelUnder(nodes, d, x)
           UpTo(g, n) == g = [d \in 0..n |-> Step(d, g[d - 1])]
           F == Levels(nodes)
<1>0. F = CHOOSE f : f = [d \in Nat |-> Step(d, f[d - 1])]
  BY DEF Levels, LevelUnder
<1>z. \A x, y : Step(0, x) = Step(0, y)
  BY DEF LevelUnder
<1> HIDE DEF Step, F
<1>1. \A n \in Nat : \E g : UpTo(g, n)
  <2> DEFINE S == {n \in Nat : \E g : UpTo(g, n)}
  <2>1. 0 \in S
    <3> DEFINE g == [d \in 0..0 |-> Step(0, {})]
    <3>1. \A d \in 0..0 : Step(0, {}) = Step(d, g[d - 1])
      BY <1>z
    <3>2. UpTo(g, 0)
      BY <3>1, Zenon
    <3>3. \E h : UpTo(h, 0)
      BY <3>2, Zenon
    <3> HIDE DEF UpTo
    <3> QED BY <3>3
  <2>2. ASSUME NEW n \in Nat, n \in S PROVE n + 1 \in S
    <3>1. PICK g : UpTo(g, n)
      BY <2>2
    <3> DEFINE h == [d \in 0..(n + 1) |-> Step(d, g[d - 1])]
    <3>2. ASSUME NEW d \in 0..(n + 1) PROVE Step(d, g[d - 1]) = Step(d, h[d - 1])
      <4>1. CASE d = 0
        BY <1>z, <4>1, Zenon
      <4>2. CASE d # 0
        <5>1. d - 1 \in 0..n /\ d - 1 \in 0..(n + 1)
          BY <4>2
        <5>2. g[d - 1] = Step(d - 1, g[(d - 1) - 1])
          BY <3>1, <5>1, Zenon
        <5>3. h[d - 1] = Step(d - 1, g[(d - 1) - 1])
          BY <5>1, Zenon
        <5> QED BY <5>2, <5>3
      <4> QED BY <4>1, <4>2
    <3>3. UpTo(h, n + 1)
      BY <3>2, Zenon
    <3>4. \E f : UpTo(f, n + 1)
      BY <3>3, Zenon
    <3> HIDE DEF UpTo
    <3> QED BY <3>4
  <2> HIDE DEF S
  <2>3. \A n \in Nat : n \in S
    BY <2>1, <2>2, NatSetInduction
  <2> QED BY <2>3 DEF S
<1>2. \A k \in Nat : \A m, n \in Nat : \A g, h :
        UpTo(g, m) /\ UpTo(h, n) /\ k <= m /\ k <= n => g[k] = h[k]
  <2> DEFINE S == {k \in Nat : \A m, n \in Nat : \A g, h :
                     UpTo(g, m) /\ UpTo(h, n) /\ k <= m /\ k <= n => g[k] = h[k]}
  <2>0. ASSUME NEW k \in Nat, NEW m \in Nat, NEW g, UpTo(g, m), k <= m
        PROVE  g[k] = Step(k, g[k - 1])
    <3>1. k \in 0..m
      BY <2>0
    <3> QED BY <2>0, <3>1, Zenon
  <2> HIDE DEF UpTo
  <2>1. 0 \in S
    BY <1>z, <2>0
  <2>2. ASSUME NEW k \in Nat, k \in S PROVE k + 1 \in S
    <3>1. SUFFICES ASSUME NEW m \in Nat, NEW n \in Nat, NEW g, NEW h,
                          UpTo(g, m), UpTo(h, n), k + 1 <= m, k + 1 <= n
                   PROVE  g[k + 1] = h[k + 1]
      BY DEF S
    <3>2. k <= m /\ k <= n /\ k + 1 \in Nat /\ (k + 1) - 1 = k
      BY <3>1
    <3>3. g[k] = h[k]
      BY <2>2, <3>1, <3>2
    <3> QED BY <2>0, <3>1, <3>2, <3>3
  <2> HIDE DEF S
  <2>3. \A n \in Nat : n \in S
    BY <2>1, <2>2, NatSetInduction
  <2> QED BY <2>3 DEF S
<1> DEFINE G(n) == CHOOSE g : UpTo(g, n)
           L == [n \in Nat |-> G(n)[n]]
<1>3. \A n \in Nat : UpTo(G(n), n)
  BY <1>1, Zenon
<1>4. ASSUME NEW d \in Nat PROVE L[d] = Step(d, L[d - 1])
  <2>1. d \in 0..d /\ (d # 0 => d - 1 \in Nat /\ d - 1 <= d /\ d - 1 <= d - 1)
    OBVIOUS
  <2>2. G(d)[d] = Step(d, G(d)[d - 1])
    <3>1. UpTo(G(d), d)
      BY <1>3, Zenon
    <3> HIDE DEF G
    <3> QED BY <2>1, <3>1, Zenon
  <2>3. d # 0 => G(d)[d - 1] = G(d - 1)[d - 1]
    <3> HIDE DEF UpTo, G
    <3> QED BY <1>2, <1>3, <2>1
  <2>4. d # 0 => L[d - 1] = G(d - 1)[d - 1]
    BY <2>1, Zenon
  <2>5. L[d] = G(d)[d]
    BY Zenon
  <2> HIDE DEF L, G
  <2> QED BY <1>z, <2>2, <2>3, <2>4, <2>5
<1>5. L = [d \in Nat |-> Step(d, L[d - 1])]
  <2> DEFINE R == [d \in Nat |-> Step(d, L[d - 1])]
  <2>1. \A d \in Nat : R[d] = Step(d, L[d - 1])
    BY Zenon
  <2>2. DOMAIN R = Nat /\ R = [d \in Nat |-> R[d]]
    <3> HIDE DEF L
    <3> QED OBVIOUS
  <2>3. DOMAIN L = Nat /\ L = [d \in Nat |-> L[d]]
    <3> HIDE DEF G
    <3> QED OBVIOUS
  <2> HIDE DEF L, R
  <2>4. L = R
    BY <1>4, <2>1, <2>2, <2>3
  <2> QED BY <2>4 DEF R
<1> HIDE DEF L
<1>6. F = [d \in Nat |-> Step(d, F[d - 1])]
  BY <1>0, <1>5, Zenon
<1> QED BY <1>6 DEF Step, F

-----------------------------------------------------------------------------
(* Options, siblings and their trees                                       *)

(* There is no tree of depth 0. *)
LEMMA NoNode == Node[0] = {}
  BY NodeEquation, Zenon DEF NodesOver

(* A tree is a node over trees that are less deep. *)
LEMMA NodeOfNodes ==
  ASSUME NEW d \in Nat
  PROVE  Node[d + 1] = [id : Id, kind : Kind, name : Name, url : Url \cup {NoUrl},
                        children : Siblings(Node[d])]
<1>1. d + 1 \in Nat /\ d + 1 # 0 /\ (d + 1) - 1 = d
  OBVIOUS
<1>2. Node[d + 1] = NodesOver(d + 1, Node[(d + 1) - 1])
  BY <1>1, NodeEquation, Zenon
<1> QED BY <1>1, <1>2 DEF NodesOver

(* An option is empty or has one element. *)
LEMMA OptionCases ==
  ASSUME NEW S, NEW o \in Option(S)
  PROVE  o = {} \/ \E x \in S : o = {x}
  BY DEF Option

(* One element is an option, and so is none.                               *)
LEMMA OptionOfOne ==
  ASSUME NEW S, NEW x \in S
  PROVE  {x} \in Option(S) /\ {} \in Option(S)
  BY DEF Option

(* The element of an option that has one.                                  *)
LEMMA TheOne ==
  ASSUME NEW x
  PROVE  The({x}) = x
  BY DEF The

(* The nodes with one id among siblings. *)
LEMMA LookupType ==
  ASSUME NEW S, NEW nodes \in Siblings(S), NEW id
  PROVE  /\ Lookup(nodes, id) \in Option(S)
         /\ \A n \in Lookup(nodes, id) : n.id = id /\ n \in S
         /\ \A i \in DOMAIN nodes : nodes[i].id = id => Lookup(nodes, id) = {nodes[i]}
         /\ Lookup(nodes, id) # {} => \E i \in DOMAIN nodes : nodes[i].id = id
<1>1. /\ nodes \in Seq(S)
      /\ \A i, j \in DOMAIN nodes : nodes[i].id = nodes[j].id => i = j
  BY DEF Siblings
<1>2. \A i \in DOMAIN nodes : nodes[i] \in S
  BY <1>1
<1>3. Lookup(nodes, id) = {n \in {nodes[i] : i \in DOMAIN nodes} : n.id = id}
  BY DEF Lookup, ToSet
<1> QED BY <1>1, <1>2, <1>3 DEF Option

(* The node at a position is the one with its id. *)
LEMMA LookupAt ==
  ASSUME NEW S, NEW nodes
  PROVE  nodes \in Siblings(S) =>
           \A i \in DOMAIN nodes : Lookup(nodes, nodes[i].id) = {nodes[i]}
  BY LookupType

(* An id that no position has is not found. *)
LEMMA LookupNone ==
  ASSUME NEW id, NEW nodes
  PROVE  (\A i \in DOMAIN nodes : nodes[i].id # id) => Lookup(nodes, id) = {}
  BY DEF Lookup, ToSet

(* An empty folder holds nothing. *)
LEMMA LookupEmpty ==
  ASSUME NEW id
  PROVE  Lookup(<<>>, id) = {}
  BY DEF Lookup, ToSet

(* An empty folder.                                                        *)
LEMMA NoSiblings ==
  ASSUME NEW S
  PROVE  <<>> \in Siblings(S)
  BY DEF Siblings

(* The ids of siblings. *)
LEMMA IdsType ==
  ASSUME NEW d \in Nat, NEW nodes \in Siblings(Node[d])
  PROVE  IdsOf(nodes) \in Seq(Id)
<1>1. nodes \in Seq(Node[d])
  BY DEF Siblings
<1>2. Len(nodes) \in Nat /\ DOMAIN nodes = 1..Len(nodes) /\ \A i \in DOMAIN nodes : nodes[i] \in Node[d]
  BY <1>1
<1>3. \A n \in Node[d] : n.id \in Id
  <2>1. CASE d = 0
    BY <2>1, NoNode
  <2>2. CASE d # 0
    <3>1. d - 1 \in Nat /\ (d - 1) + 1 = d
      BY <2>2
    <3>2. Node[d] = [id : Id, kind : Kind, name : Name, url : Url \cup {NoUrl},
                     children : Siblings(Node[d - 1])]
      BY <3>1, NodeOfNodes, Zenon
    <3> QED BY <3>2
  <2> QED BY <2>1, <2>2
<1>4. IdsOf(nodes) = [i \in 1..Len(nodes) |-> nodes[i].id]
  BY <1>2 DEF IdsOf
<1>5. \A i \in 1..Len(nodes) : nodes[i].id \in Id
  BY <1>2, <1>3
<1> QED BY <1>2, <1>4, <1>5

-----------------------------------------------------------------------------
(* Order and sums                                                          *)

(* The image of a finite set under a function is finite. *)
LEMMA FiniteRange ==
  ASSUME NEW S, IsFiniteSet(S), NEW T, NEW f \in [S -> T]
  PROVE  IsFiniteSet({f[x] : x \in S})
<1> DEFINE R == {f[x] : x \in S}
<1>1. f \in Surjection(S, R)
  BY DEF Surjection
<1> HIDE DEF R
<1>2. IsFiniteSet(R)
  BY <1>1, FS_Surjection, Zenon
<1> QED BY <1>2 DEF R

(* Ascending lists a finite set of numbers, each once. *)
LEMMA AscendingType ==
  ASSUME NEW S \in SUBSET Nat, IsFiniteSet(S)
  PROVE  /\ Cardinality(S) \in Nat
         /\ Ascending(S) \in [1..Cardinality(S) -> S]
         /\ \A k, m \in 1..Cardinality(S) : Ascending(S)[k] = Ascending(S)[m] => k = m
         /\ \A i \in S : \E k \in 1..Cardinality(S) : Ascending(S)[k] = i
<1> DEFINE upTo(i) == {j \in S : j <= i}
           n == Cardinality(S)
           rank == [i \in S |-> Cardinality(upTo(i))]
<1>1. n \in Nat
  BY FS_CardinalityType
<1>2. ASSUME NEW i \in S PROVE IsFiniteSet(upTo(i)) /\ Cardinality(upTo(i)) \in 1..n
  <2>1. upTo(i) \in SUBSET S /\ i \in upTo(i)
    OBVIOUS
  <2> HIDE DEF upTo
  <2>2. IsFiniteSet(upTo(i)) /\ Cardinality(upTo(i)) <= n
    BY <2>1, FS_Subset
  <2>3. Cardinality(upTo(i)) \in Nat /\ Cardinality(upTo(i)) # 0
    BY <2>1, <2>2, FS_CardinalityType, FS_EmptySet
  <2> QED BY <1>1, <2>2, <2>3
<1>3. ASSUME NEW i \in S, NEW j \in S, i < j PROVE Cardinality(upTo(i)) # Cardinality(upTo(j))
  <2>0. \A k \in S : k \in Nat
    OBVIOUS
  <2>1. /\ \A k \in upTo(i) : k \in upTo(j)
        /\ j \in upTo(j)
        /\ j \notin upTo(i)
    BY <1>3, <2>0
  <2>2. IsFiniteSet(upTo(j))
    BY <1>2
  <2> HIDE DEF upTo
  <2>3. upTo(i) \in SUBSET upTo(j) /\ upTo(i) # upTo(j)
    BY <2>1
  <2> QED BY <2>2, <2>3, FS_Subset, Zenon
<1>4. IsFiniteSet(1..n) /\ Cardinality(1..n) = n
  BY <1>1, FS_Interval
<1>5. rank \in Injection(S, 1..n)
  <2>1. rank \in [S -> 1..n]
    BY <1>2
  <2>2. ASSUME NEW i \in S, NEW j \in S, rank[i] = rank[j] PROVE i = j
    <3>1. Cardinality(upTo(i)) = Cardinality(upTo(j))
      BY <2>2
    <3> HIDE DEF upTo, rank
    <3> QED BY <1>3, <3>1
  <2> HIDE DEF rank
  <2> QED BY <2>1, <2>2 DEF Injection, IsInjective
<1>6. rank \in Surjection(S, 1..n)
  <2> HIDE DEF rank
  <2> QED BY <1>4, <1>5, FS_Injection
<1>7. \A k \in 1..n : \E i \in S : Cardinality(upTo(i)) = k
  BY <1>6 DEF Surjection
<1>8. \A i, j \in S : Cardinality(upTo(i)) = Cardinality(upTo(j)) => i = j
  <2> HIDE DEF upTo
  <2> QED BY <1>3
<1>9. Ascending(S) = [k \in 1..n |-> CHOOSE i \in S : Cardinality(upTo(i)) = k]
  BY DEF Ascending
<1> HIDE DEF upTo, n
<1>10. \A k \in 1..n : Ascending(S)[k] \in S /\ Cardinality(upTo(Ascending(S)[k])) = k
  <2>1. ASSUME NEW k \in 1..n
        PROVE  Ascending(S)[k] \in S /\ Cardinality(upTo(Ascending(S)[k])) = k
    <3>1. Ascending(S)[k] = CHOOSE i \in S : Cardinality(upTo(i)) = k
      BY <1>9, Zenon
    <3> QED BY <1>7, <3>1, Zenon
  <2> QED BY <2>1
<1>11. Ascending(S) \in [1..n -> S]
  BY <1>9, <1>10
<1>12. \A k, m \in 1..n : Ascending(S)[k] = Ascending(S)[m] => k = m
  BY <1>10
<1>13. ASSUME NEW i \in S PROVE \E k \in 1..n : Ascending(S)[k] = i
  <2>1. PICK k \in 1..n : k = Cardinality(upTo(i))
    BY <1>2 DEF n
  <2> QED BY <1>8, <1>10, <2>1
<1> QED BY <1>1, <1>11, <1>12, <1>13 DEF n

(* Numbers from 1 on without a gap are their own order. *)
LEMMA AscendingInterval ==
  ASSUME NEW n \in Nat
  PROVE  Ascending(1..n) = [k \in 1..n |-> k]
<1>1. Cardinality(1..n) = n
  BY FS_Interval
<1>2. ASSUME NEW i \in 1..n PROVE Cardinality({j \in 1..n : j <= i}) = i
  <2>1. {j \in 1..n : j <= i} = 1..i
    OBVIOUS
  <2>2. Cardinality(1..i) = i
    BY FS_Interval
  <2> QED BY <2>1, <2>2
<1>3. \A k \in 1..n : (CHOOSE i \in 1..n : Cardinality({j \in 1..n : j <= i}) = k) = k
  BY <1>2, Zenon
<1> QED BY <1>1, <1>3, Zenon DEF Ascending

(* A sum of natural numbers is one, and 0 only if each of them is. *)
LEMMA TotalType ==
  ASSUME NEW S, IsFiniteSet(S), NEW f \in [S -> Nat]
  PROVE  Total(f) \in Nat /\ (Total(f) = 0 => \A x \in S : f[x] = 0)
<1> DEFINE counts == [x \in S |-> {x} \X (1..f[x])]
           Family == {counts[x] : x \in S}
           All == UNION Family
<1>1. Total(f) = Cardinality(All)
  <2>1. All = UNION {{x} \X (1..f[x]) : x \in DOMAIN f}
    OBVIOUS
  <2> QED BY <2>1 DEF Total
<1>2. ASSUME NEW x \in S PROVE IsFiniteSet({x} \X (1..f[x]))
  <2>0. 1 \in Int /\ f[x] \in Int
    OBVIOUS
  <2>1. IsFiniteSet(1..f[x])
    BY <2>0, FS_Interval, Zenon
  <2>2. IsFiniteSet({x})
    BY FS_Singleton, Zenon
  <2> QED BY <2>1, <2>2, FS_Product
<1>3. IsFiniteSet(Family)
  <2> DEFINE T == {counts[x] : x \in S}
  <2>1. counts \in [S -> T]
    OBVIOUS
  <2> HIDE DEF counts, T
  <2> QED BY <2>1, FiniteRange
<1>4. \A T \in Family : IsFiniteSet(T)
  BY <1>2
<1>5. ASSUME NEW x \in S, f[x] # 0 PROVE All # {}
  <2>1. <<x, 1>> \in counts[x]
    BY <1>5
  <2> HIDE DEF counts
  <2> QED BY <2>1
<1> HIDE DEF Family
<1>6. IsFiniteSet(All)
  BY <1>3, <1>4, FS_UNION
<1> HIDE DEF All
<1>7. Cardinality(All) \in Nat /\ (Cardinality(All) = 0 => All = {})
  BY <1>6, FS_CardinalityType, FS_EmptySet
<1> QED BY <1>1, <1>5, <1>7

-----------------------------------------------------------------------------
(* The merge of one folder                                                 *)

(* MergeOptional, for trees of one depth. *)
LEMMA MergeOfVersions ==
  ASSUME NEW d \in Nat, NEW v \in Versions(d + 1)
  PROVE  MergeAt[d + 1][v] = MergeOptional(MergeAt[d], v[1], v[2], v[3])
<1>1. d + 1 \in Nat /\ d + 1 # 0 /\ (d + 1) - 1 = d
  OBVIOUS
<1>2. MergeAt[d + 1] = MergesOver(d + 1, MergeAt[(d + 1) - 1])
  BY <1>1, MergeEquation, Zenon
<1>3. MergeAt[d + 1] = [w \in Versions(d + 1) |-> MergeOptional(MergeAt[d], w[1], w[2], w[3])]
  BY <1>1, <1>2 DEF MergesOver
<1> QED BY <1>3, Zenon

(* Where nobody has a node there is none, and no conflict. *)
LEMMA MergeOfNothing ==
  ASSUME NEW d \in Nat
  PROVE  <<{}, {}, {}>> \in Versions(d) /\ MergeAt[d][<<{}, {}, {}>>] = [node |-> {}, conflicts |-> 0]
<1>1. \A e \in Nat : <<{}, {}, {}>> \in Versions(e)
  BY DEF Versions, Option
<1>2. CASE d = 0
  <2>1. MergeAt[0] = MergesOver(0, MergeAt[0 - 1])
    BY MergeEquation, Zenon
  <2>2. MergeAt[0] = [v \in Versions(0) |-> [node |-> {}, conflicts |-> 0]]
    BY <2>1 DEF MergesOver
  <2> QED BY <1>1, <1>2, <2>2, Zenon
<1>3. CASE d # 0
  <2>1. d - 1 \in Nat /\ (d - 1) + 1 = d
    BY <1>3
  <2> DEFINE v == <<{}, {}, {}>>
  <2>2. v \in Versions((d - 1) + 1)
    BY <1>1, <2>1
  <2>3. MergeAt[(d - 1) + 1][v] = MergeOptional(MergeAt[d - 1], v[1], v[2], v[3])
    BY <2>1, <2>2, MergeOfVersions, Zenon
  <2>4. MergeOptional(MergeAt[d - 1], v[1], v[2], v[3]) = [node |-> {}, conflicts |-> 0]
    BY DEF MergeOptional
  <2> QED BY <1>1, <2>1, <2>3, <2>4
<1> QED BY <1>2, <1>3

(* What a merge of trees of depth d is: a node at most, a number of        *)
(* conflicts, and no id but those of the two sides.                        *)
MergeTyped(d) ==
  \A v \in Versions(d) :
    /\ MergeAt[d][v].node \in Option(Node[d])
    /\ MergeAt[d][v].conflicts \in Nat
    /\ \A n \in MergeAt[d][v].node : \E m \in v[2] \cup v[3] : m.id = n.id

(* The merge of the children with one id. *)
Child(d, from, local, remote, id) ==
  MergeAt[d][<<Lookup(from, id), Lookup(local, id), Lookup(remote, id)>>]

(* The merge of the children with one id is a child with that id, or none. *)
LEMMA ChildType ==
  ASSUME NEW d \in Nat, MergeTyped(d), NEW id,
         NEW from \in Siblings(Node[d]), NEW local \in Siblings(Node[d]),
         NEW remote \in Siblings(Node[d])
  PROVE  /\ <<Lookup(from, id), Lookup(local, id), Lookup(remote, id)>> \in Versions(d)
         /\ Child(d, from, local, remote, id).node \in Option(Node[d])
         /\ Child(d, from, local, remote, id).conflicts \in Nat
         /\ \A n \in Child(d, from, local, remote, id).node : n.id = id
<1> DEFINE b == Lookup(from, id)  l == Lookup(local, id)  r == Lookup(remote, id)
<1>1. /\ b \in Option(Node[d]) /\ l \in Option(Node[d]) /\ r \in Option(Node[d])
      /\ \A n \in l \cup r : n.id = id
  BY LookupType
<1> HIDE DEF b, l, r
<1>2. <<b, l, r>> \in Versions(d)
  BY <1>1 DEF Versions
<1>3. /\ MergeAt[d][<<b, l, r>>].node \in Option(Node[d])
      /\ MergeAt[d][<<b, l, r>>].conflicts \in Nat
      /\ \A n \in MergeAt[d][<<b, l, r>>].node : \E m \in l \cup r : m.id = n.id
  BY <1>2 DEF MergeTyped
<1>4. \A n \in MergeAt[d][<<b, l, r>>].node : n.id = id
  BY <1>1, <1>3
<1> QED BY <1>2, <1>3, <1>4 DEF Child, b, l, r

(* An id is read from a folder if a node in it has the id.                 *)
LEMMA LookupOfIds ==
  ASSUME NEW S, NEW nodes \in Siblings(S), NEW id
  PROVE  id \in ToSet(IdsOf(nodes)) <=> Lookup(nodes, id) # {}
<1>1. DOMAIN IdsOf(nodes) = DOMAIN nodes /\ \A i \in DOMAIN nodes : IdsOf(nodes)[i] = nodes[i].id
  BY DEF IdsOf
<1>2. ToSet(IdsOf(nodes)) = {nodes[i].id : i \in DOMAIN nodes}
  BY <1>1 DEF ToSet
<1> QED BY <1>2, LookupType

(* What is in the one sequence after the other. *)
LEMMA ElementsOfConcat ==
  ASSUME NEW S, NEW s \in Seq(S), NEW t \in Seq(S)
  PROVE  ToSet(s \o t) = ToSet(s) \cup ToSet(t)
<1>1. PICK u : u = s \o t
  OBVIOUS
<1>2. /\ Len(s) \in Nat /\ Len(t) \in Nat
      /\ DOMAIN s = 1..Len(s) /\ DOMAIN t = 1..Len(t) /\ DOMAIN u = 1..(Len(s) + Len(t))
      /\ \A i \in 1..Len(s) : u[i] = s[i]
      /\ \A i \in 1..Len(t) : u[i + Len(s)] = t[i]
  BY <1>1
<1>3. ASSUME NEW i \in 1..(Len(s) + Len(t)), i \notin 1..Len(s)
      PROVE  \E j \in 1..Len(t) : i = j + Len(s)
  <2>1. i - Len(s) \in 1..Len(t) /\ i = (i - Len(s)) + Len(s)
    BY <1>2, <1>3
  <2> QED BY <2>1
<1>4. /\ \A i \in 1..Len(t) : i + Len(s) \in 1..(Len(s) + Len(t))
      /\ \A i \in 1..Len(s) : i \in 1..(Len(s) + Len(t))
  BY <1>2
<1>5. \A x \in ToSet(u) : x \in ToSet(s) \/ x \in ToSet(t)
  <2>1. ASSUME NEW i \in DOMAIN u PROVE u[i] \in ToSet(s) \/ u[i] \in ToSet(t)
    <3>1. CASE i \in 1..Len(s)
      BY <1>2, <3>1 DEF ToSet
    <3>2. CASE i \notin 1..Len(s)
      <4>1. PICK j \in 1..Len(t) : i = j + Len(s)
        BY <1>2, <1>3, <3>2
      <4>2. u[i] = t[j]
        BY <1>2, <4>1
      <4> QED BY <1>2, <4>2 DEF ToSet
    <3> QED BY <3>1, <3>2
  <2> QED BY <2>1 DEF ToSet
<1>6. \A x \in ToSet(s) \cup ToSet(t) : x \in ToSet(u)
  <2>1. ASSUME NEW i \in 1..Len(s) PROVE s[i] \in ToSet(u)
    <3>1. i \in DOMAIN u /\ u[i] = s[i]
      BY <1>2, <1>4
    <3> QED BY <3>1, Zenon DEF ToSet
  <2>2. ASSUME NEW i \in 1..Len(t) PROVE t[i] \in ToSet(u)
    <3>1. i + Len(s) \in DOMAIN u /\ u[i + Len(s)] = t[i]
      BY <1>2, <1>4
    <3> QED BY <3>1, Zenon DEF ToSet
  <2> QED BY <1>2, <2>1, <2>2 DEF ToSet
<1>7. ToSet(u) = ToSet(s) \cup ToSet(t)
  BY <1>5, <1>6
<1> QED BY <1>1, <1>7

(* The ids of all siblings: those of remote first, and no id but theirs. *)
IdsAreRead(from, local, remote) ==
  LET ids == SiblingIds(from, local, remote)
  IN  /\ ids \in Seq(Id)
      /\ Len(ids) = Len(remote) + Len(local) + Len(from)
      /\ \A i \in 1..Len(remote) : ids[i] = remote[i].id
      /\ ToSet(ids) = {id \in Id : \/ Lookup(from, id) # {} \/ Lookup(local, id) # {}
                                   \/ Lookup(remote, id) # {}}
      /\ IsFiniteSet(ToSet(ids))

(* The ids of base, local and remote are read, the remote ones first.      *)
LEMMA SiblingIdsType ==
  ASSUME NEW d \in Nat, NEW from \in Siblings(Node[d]), NEW local \in Siblings(Node[d]),
         NEW remote \in Siblings(Node[d])
  PROVE  IdsAreRead(from, local, remote)
<1> DEFINE r == IdsOf(remote)  l == IdsOf(local)  b == IdsOf(from)
           ids == SiblingIds(from, local, remote)
<1>1. r \in Seq(Id) /\ l \in Seq(Id) /\ b \in Seq(Id)
  BY IdsType
<1>2. from \in Seq(Node[d]) /\ local \in Seq(Node[d]) /\ remote \in Seq(Node[d])
  BY DEF Siblings
<1>3. /\ DOMAIN r = DOMAIN remote /\ \A i \in DOMAIN remote : r[i] = remote[i].id
      /\ DOMAIN l = DOMAIN local /\ \A i \in DOMAIN local : l[i] = local[i].id
      /\ DOMAIN b = DOMAIN from /\ \A i \in DOMAIN from : b[i] = from[i].id
  BY DEF IdsOf
<1>4. ids = r \o l \o b
  BY DEF SiblingIds
<1>5. Len(r) = Len(remote) /\ Len(l) = Len(local) /\ Len(b) = Len(from)
  <2> HIDE DEF r, l, b
  <2> QED BY <1>1, <1>2, <1>3
<1>6. \A id : /\ id \in {r[i] : i \in DOMAIN r} <=> Lookup(remote, id) # {}
              /\ id \in {l[i] : i \in DOMAIN l} <=> Lookup(local, id) # {}
              /\ id \in {b[i] : i \in DOMAIN b} <=> Lookup(from, id) # {}
  <2>1. ASSUME NEW nodes \in Siblings(Node[d]), NEW id
        PROVE  id \in ToSet(IdsOf(nodes)) <=> Lookup(nodes, id) # {}
    BY LookupOfIds, Zenon
  <2> HIDE DEF r, l, b
  <2> QED BY <2>1 DEF r, l, b, ToSet
<1> HIDE DEF r, l, b, ids
<1>7. ids \in Seq(Id) /\ Len(ids) = Len(r) + Len(l) + Len(b)
  BY <1>1, <1>4
<1>8. \A i \in 1..Len(r) : ids[i] = r[i]
  BY <1>1, <1>4
<1>9. ToSet(ids) = {r[i] : i \in DOMAIN r} \cup {l[i] : i \in DOMAIN l} \cup {b[i] : i \in DOMAIN b}
  <2>1. PICK rl : rl = r \o l
    OBVIOUS
  <2>2. rl \in Seq(Id) /\ ids = rl \o b
    BY <1>1, <1>4, <2>1
  <2>3. ToSet(rl) = ToSet(r) \cup ToSet(l)
    BY <1>1, <2>1, ElementsOfConcat, Zenon
  <2>4. ToSet(ids) = ToSet(rl) \cup ToSet(b)
    BY <1>1, <2>2, ElementsOfConcat, Zenon
  <2> QED BY <2>3, <2>4 DEF ToSet
<1>10. ToSet(ids) \subseteq Id
  BY <1>7 DEF ToSet
<1>11. ToSet(ids) = {id \in Id : \/ Lookup(from, id) # {} \/ Lookup(local, id) # {}
                                 \/ Lookup(remote, id) # {}}
  BY <1>6, <1>9, <1>10
<1>12. IsFiniteSet(ToSet(ids))
  <2>0. Len(ids) \in Int /\ 1 \in Int /\ DOMAIN ids = 1..Len(ids) /\ ids \in [1..Len(ids) -> Id]
    BY <1>7
  <2>1. IsFiniteSet(1..Len(ids))
    BY <2>0, FS_Interval, Zenon
  <2>2. IsFiniteSet({ids[i] : i \in 1..Len(ids)})
    BY <2>0, <2>1, FiniteRange
  <2> QED BY <2>0, <2>2 DEF ToSet
<1> QED BY <1>3, <1>5, <1>7, <1>8, <1>11, <1>12 DEF ids, IdsAreRead

(* The positions at which merge_children first meets an id that survives. *)
Kept(d, from, local, remote) ==
  LET ids == SiblingIds(from, local, remote)
  IN  {i \in DOMAIN ids : /\ \A j \in 1..(i - 1) : ids[j] # ids[i]
                          /\ Child(d, from, local, remote, ids[i]).node # {}}

(* Every id that survives is kept at one of them, and at no other. *)
KeptOnce(d, from, local, remote) ==
  LET ids  == SiblingIds(from, local, remote)
      kept == Kept(d, from, local, remote)
  IN  /\ kept \in SUBSET Nat
      /\ kept \subseteq DOMAIN ids
      /\ IsFiniteSet(kept)
      /\ \A i, j \in kept : ids[i] = ids[j] => i = j
      /\ \A id \in ToSet(ids) : Child(d, from, local, remote, id).node # {} =>
           \E i \in kept : ids[i] = id

(* An id that survives is kept once (the set of seen ids of merge_children). *)
LEMMA KeptType ==
  ASSUME NEW d \in Nat, NEW from \in Siblings(Node[d]), NEW local \in Siblings(Node[d]),
         NEW remote \in Siblings(Node[d])
  PROVE  KeptOnce(d, from, local, remote)
<1> DEFINE ids  == SiblingIds(from, local, remote)
           kept == Kept(d, from, local, remote)
<1>1. ids \in Seq(Id)
  BY SiblingIdsType DEF IdsAreRead
<1>2. kept = {i \in DOMAIN ids : /\ \A j \in 1..(i - 1) : ids[j] # ids[i]
                                 /\ Child(d, from, local, remote, ids[i]).node # {}}
  BY DEF Kept
<1> HIDE DEF ids, kept
<1>3. Len(ids) \in Nat /\ DOMAIN ids = 1..Len(ids)
  BY <1>1
<1>4. kept \subseteq DOMAIN ids /\ kept \in SUBSET Nat /\ kept \in SUBSET (1..Len(ids))
  BY <1>2, <1>3
<1>5. IsFiniteSet(kept)
  <2>1. Len(ids) \in Int /\ 1 \in Int
    BY <1>3
  <2>2. IsFiniteSet(1..Len(ids))
    BY <2>1, FS_Interval, Zenon
  <2> QED BY <1>4, <2>2, FS_Subset
<1>6. \A i, j \in kept : ids[i] = ids[j] => i = j
  <2>1. ASSUME NEW i \in kept, NEW j \in kept, i < j PROVE ids[i] # ids[j]
    <3>1. i \in 1..(j - 1)
      BY <1>3, <1>4, <2>1
    <3> QED BY <1>2, <3>1
  <2> QED BY <1>4, <2>1
<1>7. ASSUME NEW id \in ToSet(ids), Child(d, from, local, remote, id).node # {}
      PROVE  \E i \in kept : ids[i] = id
  <2> DEFINE T == {i \in DOMAIN ids : ids[i] = id}
  <2>1. T \in SUBSET Nat /\ T # {}
    BY <1>3 DEF ToSet
  <2>2. PICK m \in T : \A n \in T : m <= n
    <3> HIDE DEF T
    <3> QED BY <2>1, LeastNatural
  <2>3. m \in DOMAIN ids /\ ids[m] = id
    OBVIOUS
  <2>4. \A j \in 1..(m - 1) : j \in DOMAIN ids /\ ~(m <= j)
    BY <1>3, <2>3
  <2>5. \A j \in 1..(m - 1) : ids[j] # ids[m]
    BY <2>2, <2>3, <2>4
  <2> QED BY <1>2, <1>7, <2>3, <2>5
<1> QED BY <1>4, <1>5, <1>6, <1>7 DEF ids, kept, KeptOnce

(* MergeChildren by its positions: the node at each, and their conflicts. *)
MergedInOrder(d, from, local, remote) ==
  LET ids   == SiblingIds(from, local, remote)
      kept  == Kept(d, from, local, remote)
      order == Ascending(kept)
      kids  == MergeChildren(MergeAt[d], from, local, remote)
  IN  /\ kids.nodes \in [1..Cardinality(kept) -> Node[d]]
      /\ \A k \in 1..Cardinality(kept) :
           /\ kids.nodes[k].id = ids[order[k]]
           /\ Child(d, from, local, remote, ids[order[k]]).node = {kids.nodes[k]}
      /\ kids.conflicts = Total([id \in ToSet(ids) |->
                                  Child(d, from, local, remote, id).conflicts])

(* The children of a merged folder in the order their ids were first met.  *)
LEMMA MergeChildrenType ==
  ASSUME NEW d \in Nat, MergeTyped(d),
         NEW from \in Siblings(Node[d]), NEW local \in Siblings(Node[d]),
         NEW remote \in Siblings(Node[d])
  PROVE  MergedInOrder(d, from, local, remote)
<1> DEFINE ids    == SiblingIds(from, local, remote)
           kept   == Kept(d, from, local, remote)
           order  == Ascending(kept)
           kids   == MergeChildren(MergeAt[d], from, local, remote)
           merged == [id \in ToSet(ids) |->
                        MergeAt[d][<<Lookup(from, id), Lookup(local, id), Lookup(remote, id)>>]]
           n      == Cardinality(kept)
<1>0. ids \in Seq(Id)
  BY SiblingIdsType DEF IdsAreRead
<1>1. \A id \in ToSet(ids) : merged[id] = Child(d, from, local, remote, id)
  BY DEF Child
<1>2. \A i \in DOMAIN ids : ids[i] \in ToSet(ids)
  BY DEF ToSet
<1>3. kept = {i \in DOMAIN ids : /\ \A j \in 1..(i - 1) : ids[j] # ids[i]
                                 /\ merged[ids[i]].node # {}}
  <2> HIDE DEF ids, merged
  <2> QED BY <1>1, <1>2 DEF Kept, ids
<1>4. /\ kids.nodes = [k \in DOMAIN Ascending(kept) |-> The(merged[ids[Ascending(kept)[k]]].node)]
      /\ kids.conflicts = Total([id \in ToSet(ids) |-> merged[id].conflicts])
  <2>1. kids = LET k == {i \in DOMAIN ids : /\ \A j \in 1..(i - 1) : ids[j] # ids[i]
                                            /\ merged[ids[i]].node # {}}
                   o == Ascending(k)
               IN  [nodes     |-> [m \in DOMAIN o |-> The(merged[ids[o[m]]].node)],
                    conflicts |-> Total([id \in ToSet(ids) |-> merged[id].conflicts])]
    BY DEF MergeChildren
  <2> HIDE DEF ids, kids, merged
  <2> QED BY <1>3, <2>1
<1>5. /\ n \in Nat
      /\ kept \subseteq DOMAIN ids
      /\ order \in [1..n -> kept]
  <2>1. kept \in SUBSET Nat /\ kept \subseteq DOMAIN ids /\ IsFiniteSet(kept)
    BY KeptType DEF KeptOnce
  <2> HIDE DEF kept, ids
  <2> QED BY <2>1, AscendingType
<1>6. \A k \in 1..n : order[k] \in DOMAIN ids /\ ids[order[k]] \in ToSet(ids)
  <2> HIDE DEF ids, kept, order, n
  <2> QED BY <1>2, <1>5
<1>7. ASSUME NEW k \in 1..n
      PROVE  LET c == Child(d, from, local, remote, ids[order[k]])
             IN  /\ c.node = {The(c.node)}
                 /\ The(c.node) \in Node[d]
                 /\ The(c.node).id = ids[order[k]]
                 /\ kids.nodes[k] = The(c.node)
  <2> DEFINE c == Child(d, from, local, remote, ids[order[k]])
  <2>0. PICK id : id = ids[order[k]]
    OBVIOUS
  <2>1. c.node \in Option(Node[d]) /\ \A x \in c.node : x.id = ids[order[k]]
    <3>1. /\ Child(d, from, local, remote, id).node \in Option(Node[d])
          /\ \A x \in Child(d, from, local, remote, id).node : x.id = id
      BY ChildType, Zenon
    <3> QED BY <2>0, <3>1
  <2>2. merged[ids[order[k]]] = c /\ c.node # {}
    <3> HIDE DEF merged, ids, kept, order
    <3>1. order[k] \in kept /\ ids[order[k]] \in ToSet(ids)
      BY <1>5, <1>6
    <3> QED BY <1>1, <1>3, <3>1
  <2>3. kids.nodes[k] = The(c.node)
    <3>1. DOMAIN order = 1..n
      BY <1>5
    <3> HIDE DEF merged, ids, kept, kids, n, c
    <3> QED BY <1>4, <2>2, <3>1
  <2> HIDE DEF c
  <2>4. c.node = {The(c.node)}
    <3>1. c.node \in Option(Node[d]) /\ c.node # {}
      BY <2>1, <2>2
    <3>2. PICK x : c.node = {x}
      BY <3>1, OptionCases, Zenon
    <3>3. The({x}) = x
      BY TheOne, Zenon
    <3> QED BY <3>2, <3>3, Zenon
  <2>5. c.node \subseteq Node[d]
    BY <2>1 DEF Option
  <2> QED BY <2>1, <2>3, <2>4, <2>5 DEF c
<1>8. kids.nodes \in [1..n -> Node[d]]
  <2>1. DOMAIN order = 1..n
    BY <1>5
  <2>2. \A k \in 1..n : The(merged[ids[order[k]]].node) \in Node[d]
    <3> HIDE DEF merged, ids, kept, order, n, kids
    <3> QED BY <1>1, <1>6, <1>7
  <2> HIDE DEF merged, ids, kept, n, kids
  <2> QED BY <1>4, <2>1, <2>2
<1>9. kids.conflicts = Total([id \in ToSet(ids) |-> Child(d, from, local, remote, id).conflicts])
  <2>1. [id \in ToSet(ids) |-> merged[id].conflicts]
          = [id \in ToSet(ids) |-> Child(d, from, local, remote, id).conflicts]
    <3> HIDE DEF merged, ids
    <3> QED BY <1>1
  <2> QED BY <1>4, <2>1, Zenon
<1> HIDE DEF merged, ids, kept, order, n, kids
<1>10. \A k \in 1..n :
         /\ kids.nodes[k].id = ids[order[k]]
         /\ Child(d, from, local, remote, ids[order[k]]).node = {kids.nodes[k]}
  BY <1>7
<1> QED BY <1>8, <1>9, <1>10 DEF ids, kept, order, n, kids, MergedInOrder

(* The merge of a folder has in each place the merge of what is there, and *)
(* reports no conflict only if there is none in any place.                 *)
MergedByPlace(d, from, local, remote) ==
  LET kids == MergeChildren(MergeAt[d], from, local, remote)
  IN  /\ kids.nodes \in Siblings(Node[d])
      /\ kids.conflicts \in Nat
      /\ \A id : Lookup(kids.nodes, id) = Child(d, from, local, remote, id).node
      /\ kids.conflicts = 0 => \A id : Child(d, from, local, remote, id).conflicts = 0

(* A merged folder has, under each id, the merge of what the three have there. *)
LEMMA MergeOfChildren ==
  ASSUME NEW d \in Nat, MergeTyped(d),
         NEW from \in Siblings(Node[d]), NEW local \in Siblings(Node[d]),
         NEW remote \in Siblings(Node[d])
  PROVE  MergedByPlace(d, from, local, remote)
<1> DEFINE ids   == SiblingIds(from, local, remote)
           kept  == Kept(d, from, local, remote)
           order == Ascending(kept)
           kids  == MergeChildren(MergeAt[d], from, local, remote)
           child(id) == Child(d, from, local, remote, id)
           n     == Cardinality(kept)
<1>0. /\ kept \in SUBSET Nat /\ kept \subseteq DOMAIN ids /\ IsFiniteSet(kept)
      /\ \A i, j \in kept : ids[i] = ids[j] => i = j
      /\ \A id \in ToSet(ids) : child(id).node # {} => \E i \in kept : ids[i] = id
  <2>1. KeptOnce(d, from, local, remote)
    BY KeptType, Zenon
  <2> QED BY <2>1, Zenon DEF KeptOnce
<1>1. /\ n \in Nat
      /\ order \in [1..n -> kept]
      /\ \A k, m \in 1..n : order[k] = order[m] => k = m
      /\ \A i \in kept : \E k \in 1..n : order[k] = i
  <2> HIDE DEF kept, ids, child
  <2> QED BY <1>0, AscendingType
<1>2. /\ kids.nodes \in [1..n -> Node[d]]
      /\ \A k \in 1..n : kids.nodes[k].id = ids[order[k]] /\ child(ids[order[k]]).node = {kids.nodes[k]}
      /\ kids.conflicts = Total([id \in ToSet(ids) |-> child(id).conflicts])
  <2>1. MergedInOrder(d, from, local, remote)
    BY MergeChildrenType, Zenon
  <2> QED BY <2>1, Zenon DEF MergedInOrder
<1>3. ASSUME NEW id, id \notin ToSet(ids) PROVE child(id) = [node |-> {}, conflicts |-> 0]
  <2>1. ToSet(ids) = {i \in Id : \/ Lookup(from, i) # {} \/ Lookup(local, i) # {}
                                 \/ Lookup(remote, i) # {}}
    <3>1. IdsAreRead(from, local, remote)
      BY SiblingIdsType, Zenon
    <3> QED BY <3>1, Zenon DEF IdsAreRead
  <2>2. \A nodes \in Siblings(Node[d]) : Lookup(nodes, id) # {} => id \in Id
    <3>1. ASSUME NEW nodes \in Siblings(Node[d]), Lookup(nodes, id) # {} PROVE id \in Id
      <4>1. IdsOf(nodes) \in Seq(Id)
        BY IdsType
      <4>2. id \in ToSet(IdsOf(nodes))
        BY <3>1, LookupOfIds
      <4> QED BY <4>1, <4>2 DEF ToSet
    <3> QED BY <3>1
  <2>3. Lookup(from, id) = {} /\ Lookup(local, id) = {} /\ Lookup(remote, id) = {}
    BY <1>3, <2>1, <2>2
  <2> QED BY <2>3, MergeOfNothing DEF Child
<1>4. \A id : child(id).conflicts \in Nat
  BY ChildType, Zenon
<1>5. IsFiniteSet(ToSet(ids))
  BY SiblingIdsType DEF IdsAreRead
<1> HIDE DEF ids, kept, order, kids, child, n
<1>6. kids.nodes \in Siblings(Node[d])
  <2>1. kids.nodes \in Seq(Node[d]) /\ DOMAIN kids.nodes = 1..n
    BY <1>1, <1>2
  <2>2. \A k, m \in 1..n : kids.nodes[k].id = kids.nodes[m].id => k = m
    <3>1. SUFFICES ASSUME NEW k \in 1..n, NEW m \in 1..n, kids.nodes[k].id = kids.nodes[m].id
                   PROVE  k = m
      OBVIOUS
    <3>2. ids[order[k]] = ids[order[m]] /\ order[k] \in kept /\ order[m] \in kept
      BY <1>1, <1>2, <3>1
    <3> QED BY <1>0, <1>1, <3>2
  <2> QED BY <2>1, <2>2 DEF Siblings
<1>7. ASSUME NEW id PROVE Lookup(kids.nodes, id) = child(id).node
  <2>0. DOMAIN kids.nodes = 1..n
    BY <1>2
  <2>1. CASE \E k \in 1..n : ids[order[k]] = id
    <3>1. PICK k \in 1..n : ids[order[k]] = id
      BY <2>1
    <3>2. Lookup(kids.nodes, id) = {kids.nodes[k]}
      <4>1. kids.nodes[k].id = id
        BY <1>2, <3>1
      <4>2. \A i \in DOMAIN kids.nodes : Lookup(kids.nodes, kids.nodes[i].id) = {kids.nodes[i]}
        BY <1>6, LookupAt, Zenon
      <4> QED BY <2>0, <4>1, <4>2
    <3> QED BY <1>2, <3>1, <3>2
  <2>2. CASE ~\E k \in 1..n : ids[order[k]] = id
    <3>1. Lookup(kids.nodes, id) = {}
      <4>1. \A k \in DOMAIN kids.nodes : kids.nodes[k].id # id
        BY <1>2, <2>0, <2>2
      <4> QED BY <1>6, <4>1, LookupNone, Zenon
    <3>2. child(id).node = {}
      <4>1. CASE id \in ToSet(ids)
        <5>1. ~\E i \in kept : ids[i] = id
          BY <1>1, <2>2
        <5> QED BY <1>0, <4>1, <5>1
      <4>2. CASE id \notin ToSet(ids)
        BY <1>3, <4>2
      <4> QED BY <4>1, <4>2
    <3> QED BY <3>1, <3>2
  <2> QED BY <2>1, <2>2
<1>8. kids.conflicts \in Nat /\ (kids.conflicts = 0 => \A id : child(id).conflicts = 0)
  <2> DEFINE f == [id \in ToSet(ids) |-> child(id).conflicts]
  <2>1. f \in [ToSet(ids) -> Nat]
    BY <1>4
  <2>2. Total(f) \in Nat /\ (Total(f) = 0 => \A id \in ToSet(ids) : f[id] = 0)
    <3> HIDE DEF f
    <3> QED BY <1>5, <2>1, TotalType
  <2> QED BY <1>2, <1>3, <2>2
<1> QED BY <1>6, <1>7, <1>8 DEF kids, child, MergedByPlace

(* Where every place of remote, and no other, ends as remote has it,       *)
(* merge_children returns the children of remote, in their order.          *)
LEMMA MergeTakesRemote ==
  ASSUME NEW d \in Nat, MergeTyped(d),
         NEW from \in Siblings(Node[d]), NEW local \in Siblings(Node[d]),
         NEW remote \in Siblings(Node[d]),
         \A id : Child(d, from, local, remote, id).node = Lookup(remote, id)
  PROVE  MergeChildren(MergeAt[d], from, local, remote).nodes = remote
<1> DEFINE ids   == SiblingIds(from, local, remote)
           kept  == Kept(d, from, local, remote)
           kids  == MergeChildren(MergeAt[d], from, local, remote)
           n     == Len(remote)
<1>1. /\ remote \in Seq(Node[d]) /\ n \in Nat /\ DOMAIN remote = 1..n
      /\ \A i, j \in 1..n : remote[i].id = remote[j].id => i = j
  BY DEF Siblings
<1>2. /\ ids \in Seq(Id) /\ Len(ids) = n + Len(local) + Len(from)
      /\ \A i \in 1..n : ids[i] = remote[i].id
  BY SiblingIdsType DEF IdsAreRead
<1>3. Len(local) \in Nat /\ Len(from) \in Nat
  BY DEF Siblings
<1>4. kept = {i \in DOMAIN ids : /\ \A j \in 1..(i - 1) : ids[j] # ids[i]
                                 /\ Lookup(remote, ids[i]) # {}}
  BY DEF Kept
<1>5. \A i \in 1..n : Lookup(remote, remote[i].id) = {remote[i]}
  BY <1>1, LookupType
<1>6. \A id : Lookup(remote, id) # {} => \E j \in 1..n : remote[j].id = id
  BY <1>1, LookupType
<1>7. /\ \A k \in 1..Cardinality(kept) :
           Child(d, from, local, remote, ids[Ascending(kept)[k]]).node = {kids.nodes[k]}
      /\ kids.nodes \in [1..Cardinality(kept) -> Node[d]]
  <2>1. MergedInOrder(d, from, local, remote)
    BY MergeChildrenType, Zenon
  <2> QED BY <2>1, Zenon DEF MergedInOrder
<1> HIDE DEF ids, kept, kids, n
<1>8. DOMAIN ids = 1..(n + Len(local) + Len(from))
  BY <1>1, <1>2, <1>3
<1>9. kept = 1..n
  <2>1. ASSUME NEW i \in 1..n PROVE i \in kept
    <3>1. i \in DOMAIN ids /\ \A j \in 1..(i - 1) : j \in 1..n /\ j # i
      BY <1>1, <1>3, <1>8
    <3>2. \A j \in 1..(i - 1) : ids[j] # ids[i]
      BY <1>1, <1>2, <3>1
    <3>3. Lookup(remote, ids[i]) # {}
      BY <1>2, <1>5
    <3> QED BY <1>4, <3>1, <3>2, <3>3
  <2>2. ASSUME NEW i \in kept PROVE i \in 1..n
    <3>1. i \in DOMAIN ids /\ Lookup(remote, ids[i]) # {} /\ \A j \in 1..(i - 1) : ids[j] # ids[i]
      BY <1>4
    <3>2. PICK j \in 1..n : ids[j] = ids[i]
      BY <1>2, <1>6, <3>1
    <3>3. ~(j < i)
      <4>1. SUFFICES ASSUME j < i PROVE FALSE
        OBVIOUS
      <4>2. j \in 1..(i - 1)
        BY <1>1, <1>3, <1>8, <3>1, <4>1
      <4> QED BY <3>1, <3>2, <4>2
    <3> QED BY <1>1, <1>3, <1>8, <3>1, <3>3
  <2> QED BY <2>1, <2>2
<1>10. Cardinality(kept) = n
  BY <1>1, <1>9, FS_Interval
<1>11. \A k \in 1..n : Ascending(kept)[k] = k
  BY <1>1, <1>9, AscendingInterval
<1>12. \A k \in 1..n : kids.nodes[k] = remote[k]
  <2>1. ASSUME NEW k \in 1..n PROVE kids.nodes[k] = remote[k]
    <3>1. Child(d, from, local, remote, ids[k]).node = {kids.nodes[k]}
      BY <1>7, <1>10, <1>11
    <3>2. Lookup(remote, ids[k]) = {remote[k]}
      BY <1>2, <1>5
    <3> QED BY <3>1, <3>2
  <2> QED BY <2>1
<1>13. kids.nodes = remote
  BY <1>1, <1>7, <1>10, <1>12
<1> QED BY <1>13 DEF kids

-----------------------------------------------------------------------------
(* The merge of two nodes                                                  *)

(* The record of a node, and its children. *)
LEMMA NodeFields ==
  ASSUME NEW d \in Nat
  PROVE  /\ Node[d + 1] = [id : Id, kind : Kind, name : Name, url : Url \cup {NoUrl},
                           children : Siblings(Node[d])]
         /\ \A n \in Node[d + 1] :
              /\ n = [id |-> n.id, kind |-> n.kind, name |-> n.name, url |-> n.url,
                      children |-> n.children]
              /\ n.children \in Siblings(Node[d])
<1>1. Node[d + 1] = [id : Id, kind : Kind, name : Name, url : Url \cup {NoUrl},
                     children : Siblings(Node[d])]
  BY NodeOfNodes, Zenon
<1> QED BY <1>1

(* What merge_node reads of the base: a field, in a set of at most one,    *)
(* and the list of children.                                               *)
BaseField(b, l, f) == {n[f] : n \in {x \in b : x.id = l.id /\ x.kind = l.kind}}

BaseChildren(b, l) ==
  IF BaseField(b, l, "children") = {} THEN <<>> ELSE The(BaseField(b, l, "children"))

Kids(d, b, l, r) == MergeChildren(MergeAt[d], BaseChildren(b, l), l.children, r.children)

MergedNode(d, b, l, r) ==
  [id |-> l.id, kind |-> l.kind,
   name |-> MergeValue(BaseField(b, l, "name"), l.name, r.name),
   url |-> MergeValue(BaseField(b, l, "url"), l.url, r.url),
   children |-> Kids(d, b, l, r).nodes]

FieldConflicts(b, l, r) == {f \in Scalars : ValueConflict(BaseField(b, l, f), l[f], r[f])}

SameNode(x, y) == x.id = y.id /\ x.kind = y.kind

(* A node of the base that is the same node is read, another one is not. *)
LEMMA BaseOfOption ==
  ASSUME NEW d \in Nat, NEW b \in Option(Node[d + 1]), NEW l
  PROVE  /\ BaseChildren(b, l) \in Siblings(Node[d])
         /\ \A x : b = {x} /\ SameNode(x, l) =>
              BaseChildren(b, l) = x.children /\ \A f : BaseField(b, l, f) = {x[f]}
         /\ (\A x \in b : ~SameNode(x, l)) =>
              BaseChildren(b, l) = <<>> /\ \A f : BaseField(b, l, f) = {}
<1>1. ASSUME NEW x, b = {x}, SameNode(x, l)
      PROVE  BaseChildren(b, l) = x.children /\ \A f : BaseField(b, l, f) = {x[f]}
  <2>1. \A f : BaseField(b, l, f) = {x[f]}
    BY <1>1 DEF BaseField, SameNode
  <2>2. The({x.children}) = x.children
    BY TheOne, Zenon
  <2> QED BY <2>1, <2>2 DEF BaseChildren
<1>2. ASSUME \A x \in b : ~SameNode(x, l)
      PROVE  BaseChildren(b, l) = <<>> /\ \A f : BaseField(b, l, f) = {}
  <2>1. \A f : BaseField(b, l, f) = {}
    BY <1>2 DEF BaseField, SameNode
  <2> QED BY <2>1 DEF BaseChildren
<1>3. BaseChildren(b, l) \in Siblings(Node[d])
  <2>1. CASE \E x \in b : SameNode(x, l)
    <3>1. PICK x \in b : SameNode(x, l)
      BY <2>1
    <3>2. b = {x} /\ x \in Node[d + 1]
      BY DEF Option
    <3>3. x.children \in Siblings(Node[d])
      BY <3>2, NodeFields
    <3> QED BY <1>1, <3>1, <3>2, <3>3
  <2>2. CASE \A x \in b : ~SameNode(x, l)
    BY <1>2, <2>2, NoSiblings
  <2> QED BY <2>1, <2>2
<1> QED BY <1>1, <1>2, <1>3

(* MergePresent of two versions of one node. *)
LEMMA MergeOfSameNode ==
  ASSUME NEW d \in Nat, NEW b, NEW l \in Node[d + 1], NEW r \in Node[d + 1], SameNode(l, r)
  PROVE  MergePresent(MergeAt[d], b, l, r)
           = [node |-> {MergedNode(d, b, l, r)},
              conflicts |-> Kids(d, b, l, r).conflicts + Cardinality(FieldConflicts(b, l, r))]
<1>1. l = [id |-> l.id, kind |-> l.kind, name |-> l.name, url |-> l.url, children |-> l.children]
  BY NodeFields
<1>2. PICK kids : kids = Kids(d, b, l, r)
  OBVIOUS
<1>3. MergePresent(MergeAt[d], b, l, r)
        = [node |-> {[l EXCEPT !.name = MergeValue(BaseField(b, l, "name"), @, r.name),
                               !.url = MergeValue(BaseField(b, l, "url"), @, r.url),
                               !.children = kids.nodes]},
           conflicts |-> kids.conflicts + Cardinality(FieldConflicts(b, l, r))]
  BY <1>2, Zenon DEF MergePresent, SameNode, Kids, BaseChildren, BaseField, FieldConflicts
<1>4. [l EXCEPT !.name = MergeValue(BaseField(b, l, "name"), @, r.name),
                !.url = MergeValue(BaseField(b, l, "url"), @, r.url),
                !.children = kids.nodes] = MergedNode(d, b, l, r)
  <2>1. PICK name : name = MergeValue(BaseField(b, l, "name"), l.name, r.name)
    OBVIOUS
  <2>2. PICK url : url = MergeValue(BaseField(b, l, "url"), l.url, r.url)
    OBVIOUS
  <2>3. PICK nodes : nodes = kids.nodes
    OBVIOUS
  <2>4. [l EXCEPT !.name = name, !.url = url, !.children = nodes]
          = [id |-> l.id, kind |-> l.kind, name |-> name, url |-> url, children |-> nodes]
    <3>1. PICK m : m = [l EXCEPT !.name = name]
      OBVIOUS
    <3>2. PICK n : n = [m EXCEPT !.url = url]
      OBVIOUS
    <3>3. m = [id |-> l.id, kind |-> l.kind, name |-> name, url |-> l.url, children |-> l.children]
      BY ONLY <1>1, <3>1
    <3>4. n = [id |-> l.id, kind |-> l.kind, name |-> name, url |-> url, children |-> l.children]
      BY ONLY <3>2, <3>3
    <3>5. [n EXCEPT !.children = nodes]
            = [id |-> l.id, kind |-> l.kind, name |-> name, url |-> url, children |-> nodes]
      BY ONLY <3>4
    <3> QED BY ONLY <3>1, <3>2, <3>5, Zenon
  <2> QED BY <1>2, <2>1, <2>2, <2>3, <2>4, Zenon DEF MergedNode
<1> QED BY <1>2, <1>3, <1>4, Zenon

(* A count of fields in conflict, 0 only if none is. *)
LEMMA FieldConflictsType ==
  ASSUME NEW b, NEW l, NEW r
  PROVE  /\ Cardinality(FieldConflicts(b, l, r)) \in Nat
         /\ Cardinality(FieldConflicts(b, l, r)) = 0 =>
              \A f \in Scalars : ~ValueConflict(BaseField(b, l, f), l[f], r[f])
<1> DEFINE C == FieldConflicts(b, l, r)
<1>1. IsFiniteSet(Scalars)
  <2>1. Scalars = {"name"} \cup {"url"}
    BY DEF Scalars
  <2> QED BY <2>1, FS_Singleton, FS_Union
<1>2. C \subseteq Scalars
  BY DEF FieldConflicts
<1>3. IsFiniteSet(C)
  BY <1>1, <1>2, FS_Subset
<1>4. Cardinality(C) \in Nat /\ (Cardinality(C) = 0 => C = {})
  BY <1>3, FS_CardinalityType, FS_EmptySet
<1> QED BY <1>4 DEF FieldConflicts

(* The cases of MergeOptional: one side is as it was or both are the same, *)
(* one side has nothing, the two have different nodes, or one node both.   *)
MergedAs(d, b, l, r) ==
  LET m == MergeAt[d + 1][<<b, l, r>>]
  IN  \/ (l = r \/ r = b) /\ m = [node |-> l, conflicts |-> 0]
      \/ l = b /\ l # r /\ m = [node |-> r, conflicts |-> 0]
      \/ /\ l # r /\ l # b /\ r # b
         /\ l = {} \/ r = {}
         /\ m = [node |-> l \cup r, conflicts |-> 1]
      \/ /\ l # r /\ l # b /\ r # b
         /\ \E x, y \in Node[d + 1] :
              /\ l = {x} /\ r = {y}
              /\ \/ ~SameNode(x, y) /\ m = [node |-> {y}, conflicts |-> 1]
                 \/ /\ SameNode(x, y)
                    /\ m = [node |-> {MergedNode(d, b, x, y)},
                            conflicts |-> Kids(d, b, x, y).conflicts
                                            + Cardinality(FieldConflicts(b, x, y))]

(* merge_optional_node has these outcomes and no other.                    *)
LEMMA MergeCases ==
  ASSUME NEW d \in Nat, NEW b \in Option(Node[d + 1]), NEW l \in Option(Node[d + 1]),
         NEW r \in Option(Node[d + 1])
  PROVE  MergedAs(d, b, l, r)
<1> DEFINE m == MergeAt[d + 1][<<b, l, r>>]
<1>1. m = MergeOptional(MergeAt[d], b, l, r)
  <2>1. <<b, l, r>> \in Versions(d + 1)
    BY DEF Versions
  <2>2. MergeAt[d + 1][<<b, l, r>>]
          = MergeOptional(MergeAt[d], <<b, l, r>>[1], <<b, l, r>>[2], <<b, l, r>>[3])
    BY <2>1, MergeOfVersions, Zenon
  <2> QED BY <2>2
<1> HIDE DEF m
<1>2. CASE l = r \/ r = b
  <2>1. m = [node |-> l, conflicts |-> 0]
    BY <1>1, <1>2 DEF MergeOptional
  <2> QED BY <1>2, <2>1 DEF MergedAs, m
<1>3. CASE l = b /\ l # r
  <2>1. m = [node |-> r, conflicts |-> 0]
    BY <1>1, <1>3 DEF MergeOptional
  <2> QED BY <1>3, <2>1 DEF MergedAs, m
<1>4. CASE l # r /\ l # b /\ r # b /\ (l = {} \/ r = {})
  <2>1. m = [node |-> l \cup r, conflicts |-> 1]
    BY <1>1, <1>4 DEF MergeOptional, KeepChanged
  <2> QED BY <1>4, <2>1 DEF MergedAs, m
<1>5. CASE l # r /\ l # b /\ r # b /\ l # {} /\ r # {}
  <2>1. PICK x \in Node[d + 1] : l = {x}
    BY <1>5, OptionCases, ZenonT(30)
  <2>2. PICK y \in Node[d + 1] : r = {y}
    BY <1>5, OptionCases, Zenon
  <2>3. m = MergePresent(MergeAt[d], b, The(l), The(r))
    BY <1>1, <1>5 DEF MergeOptional
  <2>4. The(l) = x /\ The(r) = y
    BY <2>1, <2>2, TheOne
  <2>5. m = MergePresent(MergeAt[d], b, x, y)
    BY <2>3, <2>4
  <2>6. CASE SameNode(x, y)
    <3>1. m = [node |-> {MergedNode(d, b, x, y)},
               conflicts |-> Kids(d, b, x, y).conflicts + Cardinality(FieldConflicts(b, x, y))]
      BY <2>5, <2>6, MergeOfSameNode, Zenon
    <3> QED BY <1>5, <2>1, <2>2, <2>6, <3>1, Zenon DEF MergedAs, m
  <2>7. CASE ~SameNode(x, y)
    <3>1. m = [node |-> {y}, conflicts |-> 1]
      BY <2>5, <2>7, Zenon DEF MergePresent, SameNode
    <3> QED BY <1>5, <2>1, <2>2, <2>7, <3>1, Zenon DEF MergedAs, m
  <2> QED BY <2>6, <2>7
<1> QED BY <1>2, <1>3, <1>4, <1>5

(* Two edits of one node are merged field by field. *)
LEMMA MergeOfTwoEdits ==
  ASSUME NEW d \in Nat, NEW b \in Option(Node[d + 1]), NEW x \in Node[d + 1], NEW y \in Node[d + 1],
         {x} # b, {y} # b, x # y, SameNode(x, y)
  PROVE  MergeAt[d + 1][<<b, {x}, {y}>>]
           = [node |-> {MergedNode(d, b, x, y)},
              conflicts |-> Kids(d, b, x, y).conflicts + Cardinality(FieldConflicts(b, x, y))]
<1>1. <<b, {x}, {y}>> \in Versions(d + 1)
  BY OptionOfOne DEF Versions
<1>2. MergeAt[d + 1][<<b, {x}, {y}>>]
        = MergeOptional(MergeAt[d], <<b, {x}, {y}>>[1], <<b, {x}, {y}>>[2], <<b, {x}, {y}>>[3])
  BY <1>1, MergeOfVersions, Zenon
<1>3. MergeAt[d + 1][<<b, {x}, {y}>>] = MergeOptional(MergeAt[d], b, {x}, {y})
  BY <1>2
<1>4. {x} # {y} /\ {x} # {} /\ {y} # {} /\ The({x}) = x /\ The({y}) = y
  <2>1. The({x}) = x /\ The({y}) = y
    BY TheOne, Zenon
  <2> QED BY <2>1
<1>5. MergeOptional(MergeAt[d], b, {x}, {y}) = MergePresent(MergeAt[d], b, x, y)
  BY <1>4 DEF MergeOptional
<1> QED BY <1>3, <1>5, MergeOfSameNode, Zenon

(* The merge of two versions is one of them, or a node merged of both. *)
EitherOrBoth(d, b, l, r) ==
  LET m == MergeAt[d + 1][<<b, l, r>>].node
  IN  \/ m = l
      \/ m = r
      \/ /\ l # r /\ l # b /\ r # b
         /\ \E x, y \in Node[d + 1] : /\ l = {x} /\ r = {y} /\ SameNode(x, y)
                                     /\ m = {MergedNode(d, b, x, y)}

(* A merged node is the local one, the remote one or made of both.         *)
LEMMA MergeOfEitherOrBoth ==
  ASSUME NEW d \in Nat, NEW b \in Option(Node[d + 1]), NEW l \in Option(Node[d + 1]),
         NEW r \in Option(Node[d + 1])
  PROVE  EitherOrBoth(d, b, l, r)
<1>1. PICK m : m = MergeAt[d + 1][<<b, l, r>>]
  OBVIOUS
<1>2. MergedAs(d, b, l, r)
  BY MergeCases, Zenon
<1>3. CASE m = [node |-> l, conflicts |-> 0] \/ m = [node |-> r, conflicts |-> 0]
  <2>1. m.node = l \/ m.node = r
    BY <1>3
  <2> QED BY <1>1, <2>1 DEF EitherOrBoth
<1>4. CASE (l = {} \/ r = {}) /\ m = [node |-> l \cup r, conflicts |-> 1]
  <2>1. m.node = l \cup r
    BY <1>4
  <2>2. l \cup r = l \/ l \cup r = r
    BY <1>4
  <2> QED BY <1>1, <2>1, <2>2 DEF EitherOrBoth
<1>5. ASSUME NEW x \in Node[d + 1], NEW y \in Node[d + 1], l = {x}, r = {y},
             m = [node |-> {y}, conflicts |-> 1]
      PROVE  EitherOrBoth(d, b, l, r)
  <2>1. m.node = r
    BY <1>5
  <2> QED BY <1>1, <2>1 DEF EitherOrBoth
<1>6. ASSUME NEW x \in Node[d + 1], NEW y \in Node[d + 1], l = {x}, r = {y},
             l # r, l # b, r # b, SameNode(x, y), NEW c,
             m = [node |-> {MergedNode(d, b, x, y)}, conflicts |-> c]
      PROVE  EitherOrBoth(d, b, l, r)
  <2>1. PICK n : n = MergedNode(d, b, x, y)
    OBVIOUS
  <2>2. m.node = {n}
    BY <1>6, <2>1
  <2> QED BY <1>1, <1>6, <2>1, <2>2, Zenon DEF EitherOrBoth
<1> QED BY <1>1, <1>2, <1>3, <1>4, <1>5, <1>6, Zenon DEF MergedAs

(* The merge of two versions of a node is a node with their id. *)
LEMMA MergedNodeType ==
  ASSUME NEW d \in Nat, MergeTyped(d), NEW b \in Option(Node[d + 1]),
         NEW x \in Node[d + 1], NEW y \in Node[d + 1], SameNode(x, y)
  PROVE  /\ MergedNode(d, b, x, y) \in Node[d + 1]
         /\ MergedNode(d, b, x, y).id = x.id /\ MergedNode(d, b, x, y).kind = x.kind
         /\ MergedByPlace(d, BaseChildren(b, x), x.children, y.children)
<1>1. BaseChildren(b, x) \in Siblings(Node[d])
  BY BaseOfOption
<1>2. x.children \in Siblings(Node[d]) /\ y.children \in Siblings(Node[d])
  BY NodeFields
<1>3. MergedByPlace(d, BaseChildren(b, x), x.children, y.children)
  BY <1>1, <1>2, MergeOfChildren, Zenon
<1>4. Kids(d, b, x, y).nodes \in Siblings(Node[d])
  BY <1>3, Zenon DEF MergedByPlace, Kids
<1>5. /\ x.id \in Id /\ x.kind \in Kind /\ x.name \in Name /\ x.url \in Url \cup {NoUrl}
      /\ y.name \in Name /\ y.url \in Url \cup {NoUrl}
  <2>1. Node[d + 1] = [id : Id, kind : Kind, name : Name, url : Url \cup {NoUrl},
                       children : Siblings(Node[d])]
    BY NodeFields
  <2> QED BY <2>1
<1>6. /\ MergeValue(BaseField(b, x, "name"), x.name, y.name) \in Name
      /\ MergeValue(BaseField(b, x, "url"), x.url, y.url) \in Url \cup {NoUrl}
  BY <1>5, Zenon DEF MergeValue
<1>7. PICK name \in Name : name = MergeValue(BaseField(b, x, "name"), x.name, y.name)
  BY <1>6
<1>8. PICK url \in Url \cup {NoUrl} : url = MergeValue(BaseField(b, x, "url"), x.url, y.url)
  BY <1>6
<1>9. PICK nodes \in Siblings(Node[d]) : nodes = Kids(d, b, x, y).nodes
  BY <1>4
<1>10. MergedNode(d, b, x, y)
         = [id |-> x.id, kind |-> x.kind, name |-> name, url |-> url, children |-> nodes]
  BY <1>7, <1>8, <1>9, Zenon DEF MergedNode
<1>11. Node[d + 1] = [id : Id, kind : Kind, name : Name, url : Url \cup {NoUrl},
                      children : Siblings(Node[d])]
  BY NodeFields
<1> QED BY <1>3, <1>5, <1>10, <1>11

(* Merges of trees are typed at every depth. *)
LEMMA MergeIsTyped ==
  ASSUME NEW d \in Nat
  PROVE  MergeTyped(d)
<1> DEFINE S == {e \in Nat : MergeTyped(e)}
<1>1. 0 \in S
  <2>1. SUFFICES ASSUME NEW v \in Versions(0)
                 PROVE  /\ MergeAt[0][v].node \in Option(Node[0])
                        /\ MergeAt[0][v].conflicts \in Nat
                        /\ \A n \in MergeAt[0][v].node : \E m \in v[2] \cup v[3] : m.id = n.id
    BY DEF MergeTyped
  <2>2. MergeAt[0] = MergesOver(0, MergeAt[0 - 1])
    BY MergeEquation, Zenon
  <2>3. MergeAt[0] = [w \in Versions(0) |-> [node |-> {}, conflicts |-> 0]]
    BY <2>2 DEF MergesOver
  <2> QED BY <2>3 DEF Option
<1>2. ASSUME NEW e \in Nat, e \in S PROVE e + 1 \in S
  <2>0. MergeTyped(e)
    BY <1>2
  <2>1. SUFFICES ASSUME NEW b \in Option(Node[e + 1]), NEW l \in Option(Node[e + 1]),
                        NEW r \in Option(Node[e + 1])
                 PROVE  /\ MergeAt[e + 1][<<b, l, r>>].node \in Option(Node[e + 1])
                        /\ MergeAt[e + 1][<<b, l, r>>].conflicts \in Nat
                        /\ \A n \in MergeAt[e + 1][<<b, l, r>>].node : \E m \in l \cup r : m.id = n.id
    BY DEF MergeTyped, Versions
  <2>2. PICK m : m = MergeAt[e + 1][<<b, l, r>>]
    OBVIOUS
  <2>3. MergedAs(e, b, l, r)
    BY MergeCases, Zenon
  <2>4. CASE m = [node |-> l, conflicts |-> 0] \/ m = [node |-> r, conflicts |-> 0]
    BY <2>2, <2>4
  <2>5. CASE (l = {} \/ r = {}) /\ m = [node |-> l \cup r, conflicts |-> 1]
    <3>1. l \cup r = l \/ l \cup r = r
      BY <2>5
    <3> QED BY <2>2, <2>5, <3>1
  <2>6. ASSUME NEW x \in Node[e + 1], NEW y \in Node[e + 1], l = {x}, r = {y},
               ~SameNode(x, y), m = [node |-> {y}, conflicts |-> 1]
        PROVE  /\ m.node \in Option(Node[e + 1]) /\ m.conflicts \in Nat
               /\ \A n \in m.node : \E o \in l \cup r : o.id = n.id
    BY <2>6
  <2>7. ASSUME NEW x \in Node[e + 1], NEW y \in Node[e + 1], l = {x}, r = {y}, SameNode(x, y),
               m = [node |-> {MergedNode(e, b, x, y)},
                    conflicts |-> Kids(e, b, x, y).conflicts + Cardinality(FieldConflicts(b, x, y))]
        PROVE  /\ m.node \in Option(Node[e + 1]) /\ m.conflicts \in Nat
               /\ \A n \in m.node : \E o \in l \cup r : o.id = n.id
    <3>1. /\ MergedNode(e, b, x, y) \in Node[e + 1]
          /\ MergedNode(e, b, x, y).id = x.id
          /\ MergedByPlace(e, BaseChildren(b, x), x.children, y.children)
      BY <2>0, <2>7, MergedNodeType
    <3>2. Kids(e, b, x, y).conflicts \in Nat
      BY <3>1, Zenon DEF MergedByPlace, Kids
    <3>3. Cardinality(FieldConflicts(b, x, y)) \in Nat
      BY FieldConflictsType
    <3>4. Kids(e, b, x, y).conflicts + Cardinality(FieldConflicts(b, x, y)) \in Nat
      BY <3>2, <3>3
    <3>5. {MergedNode(e, b, x, y)} \in Option(Node[e + 1])
      BY <3>1, OptionOfOne, Zenon
    <3> QED BY <2>7, <3>1, <3>4, <3>5
  <2> QED BY <2>2, <2>3, <2>4, <2>5, <2>6, <2>7 DEF MergedAs
<1> HIDE DEF S
<1>3. \A e \in Nat : e \in S
  BY <1>1, <1>2, NatSetInduction
<1> QED BY <1>3 DEF S

-----------------------------------------------------------------------------
(* What a merge never does                                                 *)

(* An edit of one side only, or the same one of both, is the result.       *)
OneEditWins(d, b, l, r) ==
  /\ l = b => MergeAt[d][<<b, l, r>>] = [node |-> r, conflicts |-> 0]
  /\ r = b => MergeAt[d][<<b, l, r>>] = [node |-> l, conflicts |-> 0]
  /\ l = r => MergeAt[d][<<b, l, r>>] = [node |-> l, conflicts |-> 0]

(* What one side alone changed is taken, and counts no conflict.           *)
LEMMA MergeOfOneEdit ==
  ASSUME NEW d \in Nat, NEW b \in Option(Node[d]), NEW l \in Option(Node[d]),
         NEW r \in Option(Node[d])
  PROVE  OneEditWins(d, b, l, r)
<1> USE DEF OneEditWins
<1>1. CASE d = 0
  <2>1. b = {} /\ l = {} /\ r = {}
    BY <1>1, NoNode DEF Option
  <2>2. MergeAt[d][<<{}, {}, {}>>] = [node |-> {}, conflicts |-> 0]
    BY MergeOfNothing, Zenon
  <2> QED BY <2>1, <2>2
<1>2. CASE d # 0
  <2>1. d - 1 \in Nat /\ (d - 1) + 1 = d
    BY <1>2
  <2>2. PICK e \in Nat : e + 1 = d
    BY <2>1
  <2>3. b \in Option(Node[e + 1]) /\ l \in Option(Node[e + 1]) /\ r \in Option(Node[e + 1])
    BY <2>2
  <2>4. MergedAs(e, b, l, r)
    BY <2>3, MergeCases, Zenon
  <2>5. PICK m : m = MergeAt[e + 1][<<b, l, r>>]
    OBVIOUS
  <2>6. CASE l = r \/ r = b
    <3>1. m = [node |-> l, conflicts |-> 0]
      BY <2>4, <2>5, <2>6 DEF MergedAs
    <3> QED BY <2>2, <2>5, <2>6, <3>1
  <2>7. CASE l = b /\ l # r
    <3>1. m = [node |-> r, conflicts |-> 0]
      BY <2>4, <2>5, <2>7 DEF MergedAs
    <3> QED BY <2>2, <2>5, <2>7, <3>1
  <2>8. CASE l # b /\ r # b /\ l # r
    BY <2>8
  <2> QED BY <2>6, <2>7, <2>8
<1> QED BY <1>1, <1>2

(* The three versions of the children with one id, and their merge.        *)
LEMMA ChildVersions ==
  ASSUME NEW d \in Nat, NEW from \in Siblings(Node[d]), NEW local \in Siblings(Node[d]),
         NEW remote \in Siblings(Node[d])
  PROVE  /\ \A id : /\ Lookup(from, id) \in Option(Node[d])
                    /\ Lookup(local, id) \in Option(Node[d])
                    /\ Lookup(remote, id) \in Option(Node[d])
         /\ MergedByPlace(d, from, local, remote)
<1>1. MergedByPlace(d, from, local, remote)
  BY MergeIsTyped, MergeOfChildren, Zenon
<1> QED BY <1>1, LookupType

(* The children of the merge of a node are the merges of its children.     *)
MergedBelow(d, b, x, y) ==
  LET m == MergedNode(d, b, x, y)
  IN  /\ m \in Node[d + 1]
      /\ SameNode(m, x)
      /\ BaseChildren(b, x) \in Siblings(Node[d])
      /\ x.children \in Siblings(Node[d]) /\ y.children \in Siblings(Node[d])
      /\ m.children \in Siblings(Node[d])
      /\ m.children = Kids(d, b, x, y).nodes
      /\ MergedByPlace(d, BaseChildren(b, x), x.children, y.children)
      /\ \A id : Lookup(m.children, id)
                   = Child(d, BaseChildren(b, x), x.children, y.children, id).node

(* The children of a node made of both sides are merged in turn.           *)
LEMMA MergedChildren ==
  ASSUME NEW d \in Nat, NEW b \in Option(Node[d + 1]),
         NEW x \in Node[d + 1], NEW y \in Node[d + 1], SameNode(x, y)
  PROVE  MergedBelow(d, b, x, y)
<1>1. MergeTyped(d)
  BY MergeIsTyped
<1>2. /\ MergedNode(d, b, x, y) \in Node[d + 1]
      /\ MergedNode(d, b, x, y).id = x.id /\ MergedNode(d, b, x, y).kind = x.kind
      /\ MergedByPlace(d, BaseChildren(b, x), x.children, y.children)
  BY <1>1, MergedNodeType
<1>3. MergedNode(d, b, x, y).children = Kids(d, b, x, y).nodes
  BY DEF MergedNode
<1>4. \A id : Lookup(Kids(d, b, x, y).nodes, id)
                = Child(d, BaseChildren(b, x), x.children, y.children, id).node
  BY <1>2, Zenon DEF MergedByPlace, Kids
<1>5. BaseChildren(b, x) \in Siblings(Node[d])
  BY BaseOfOption
<1>6. x.children \in Siblings(Node[d]) /\ y.children \in Siblings(Node[d])
      /\ MergedNode(d, b, x, y).children \in Siblings(Node[d])
  BY <1>2, NodeFields
<1>7. SameNode(MergedNode(d, b, x, y), x)
  BY <1>2, Zenon DEF SameNode
<1> QED BY <1>2, <1>3, <1>4, <1>5, <1>6, <1>7, Zenon DEF MergedBelow

(* What both sides changed is never as it was in the base.                 *)
Progresses(d) ==
  \A b, l, r \in Option(Node[d]) :
    l # b /\ r # b => MergeAt[d][<<b, l, r>>].node # b

(* What both sides changed does not come out as it was in the base.        *)
LEMMA MergeProgresses ==
  ASSUME NEW d \in Nat
  PROVE  Progresses(d)
<1> DEFINE S == {e \in Nat : Progresses(e)}
<1>1. 0 \in S
  BY NoNode DEF Progresses, Option
<1>2. ASSUME NEW e \in Nat, e \in S PROVE e + 1 \in S
  <2>0. Progresses(e)
    BY <1>2
  <2>1. SUFFICES ASSUME NEW b \in Option(Node[e + 1]), NEW l \in Option(Node[e + 1]),
                        NEW r \in Option(Node[e + 1]), l # b, r # b
                 PROVE  MergeAt[e + 1][<<b, l, r>>].node # b
    BY DEF Progresses
  <2>2. EitherOrBoth(e, b, l, r)
    BY MergeOfEitherOrBoth, Zenon
  <2>6. ASSUME NEW x \in Node[e + 1], NEW y \in Node[e + 1], l = {x}, r = {y}, SameNode(x, y),
               b = {MergedNode(e, b, x, y)}
        PROVE  FALSE
    <3>1. PICK n : n = MergedNode(e, b, x, y)
      OBVIOUS
    <3>2. PICK B : B = BaseChildren(b, x)
      OBVIOUS
    <3>3. /\ n \in Node[e + 1] /\ SameNode(n, x)
          /\ B \in Siblings(Node[e])
          /\ x.children \in Siblings(Node[e]) /\ y.children \in Siblings(Node[e])
          /\ \A id : Lookup(n.children, id) = Child(e, B, x.children, y.children, id).node
          /\ n.children = MergeChildren(MergeAt[e], B, x.children, y.children).nodes
      <4>1. n.children = MergeChildren(MergeAt[e], B, x.children, y.children).nodes
        BY <3>1, <3>2 DEF MergedNode, Kids
      <4>2. MergedBelow(e, b, x, y)
        BY <2>6, MergedChildren, Zenon
      <4> QED BY <3>1, <3>2, <4>1, <4>2, Zenon DEF MergedBelow
    <3>4. B = n.children /\ \A f : BaseField(b, x, f) = {n[f]}
      BY <2>6, <3>1, <3>2, <3>3, BaseOfOption
    <3>5. n.name = y.name /\ n.url = y.url
      <4>1. n.name = MergeValue({n.name}, x.name, y.name) /\ n.url = MergeValue({n.url}, x.url, y.url)
        <5>1. n.name = MergeValue(BaseField(b, x, "name"), x.name, y.name)
              /\ n.url = MergeValue(BaseField(b, x, "url"), x.url, y.url)
          BY <3>1 DEF MergedNode
        <5> QED BY <3>4, <5>1
      <4> QED BY <4>1 DEF MergeValue
    <3>6. ASSUME NEW id
          PROVE  Child(e, B, x.children, y.children, id).node = Lookup(y.children, id)
      <4>1. PICK bc, lc, rc : bc = Lookup(B, id) /\ lc = Lookup(x.children, id) /\ rc = Lookup(y.children, id)
        OBVIOUS
      <4>2. bc \in Option(Node[e]) /\ lc \in Option(Node[e]) /\ rc \in Option(Node[e])
        BY <3>3, <4>1, LookupType
      <4>3. MergeAt[e][<<bc, lc, rc>>].node = bc
        BY <3>3, <3>4, <4>1 DEF Child
      <4>4. lc = bc \/ rc = bc
        BY <2>0, <4>2, <4>3 DEF Progresses
      <4>5. /\ lc = bc => MergeAt[e][<<bc, lc, rc>>].node = rc
            /\ rc = bc => MergeAt[e][<<bc, lc, rc>>].node = lc
        <5>1. /\ lc = bc => MergeAt[e][<<bc, lc, rc>>] = [node |-> rc, conflicts |-> 0]
              /\ rc = bc => MergeAt[e][<<bc, lc, rc>>] = [node |-> lc, conflicts |-> 0]
          <6>1. OneEditWins(e, bc, lc, rc)
            BY <4>2, MergeOfOneEdit, Zenon
          <6> QED BY <6>1, Zenon DEF OneEditWins
        <5> QED BY <5>1
      <4>6. MergeAt[e][<<bc, lc, rc>>].node = rc
        BY <4>3, <4>4, <4>5
      <4> QED BY <4>1, <4>6 DEF Child
    <3>7. n.children = y.children
      <4>1. MergeTyped(e)
        BY MergeIsTyped
      <4>2. MergeChildren(MergeAt[e], B, x.children, y.children).nodes = y.children
        <5>1. PICK L, R : L = x.children /\ R = y.children
          OBVIOUS
        <5>2. MergeChildren(MergeAt[e], B, L, R).nodes = R
          BY <3>3, <3>6, <4>1, <5>1, MergeTakesRemote
        <5> QED BY <5>1, <5>2
      <4> QED BY <3>3, <4>2
    <3>8. n = y
      <4>1. n.id = y.id /\ n.kind = y.kind
        BY <2>6, <3>3 DEF SameNode
      <4>2. /\ n = [id |-> n.id, kind |-> n.kind, name |-> n.name, url |-> n.url, children |-> n.children]
            /\ y = [id |-> y.id, kind |-> y.kind, name |-> y.name, url |-> y.url, children |-> y.children]
        BY <3>3, NodeFields
      <4> QED BY <3>5, <3>7, <4>1, <4>2, Zenon
    <3> QED BY <2>1, <2>6, <3>1, <3>8
  <2> QED BY <2>1, <2>2, <2>6, Zenon DEF EitherOrBoth
<1> HIDE DEF S
<1>3. \A e \in Nat : e \in S
  BY <1>1, <1>2, NatSetInduction
<1> QED BY <1>3 DEF S

(* To merge once more what a merge returned changes nothing.               *)
Stable(d) ==
  \A b, l, r \in Option(Node[d]) :
    LET m == MergeAt[d][<<b, l, r>>].node IN MergeAt[d][<<b, l, m>>].node = m

(* Then the same holds of a folder.                                        *)
LEMMA StableChildren ==
  ASSUME NEW d \in Nat, Stable(d),
         NEW from \in Siblings(Node[d]), NEW local \in Siblings(Node[d]),
         NEW remote \in Siblings(Node[d])
  PROVE  LET merged == MergeChildren(MergeAt[d], from, local, remote).nodes
         IN  MergeChildren(MergeAt[d], from, local, merged).nodes = merged
<1>1. PICK merged : merged = MergeChildren(MergeAt[d], from, local, remote).nodes
  OBVIOUS
<1>2. MergedByPlace(d, from, local, remote)
  BY ChildVersions
<1>3. /\ merged \in Siblings(Node[d])
      /\ \A id : Lookup(merged, id) = Child(d, from, local, remote, id).node
  BY <1>1, <1>2, Zenon DEF MergedByPlace
<1>4. ASSUME NEW id PROVE Child(d, from, local, merged, id).node = Lookup(merged, id)
  <2>1. PICK b, l, r : b = Lookup(from, id) /\ l = Lookup(local, id) /\ r = Lookup(remote, id)
    OBVIOUS
  <2>2. b \in Option(Node[d]) /\ l \in Option(Node[d]) /\ r \in Option(Node[d])
    BY <2>1, LookupType
  <2>3. PICK m : m = MergeAt[d][<<b, l, r>>].node
    OBVIOUS
  <2>4. MergeAt[d][<<b, l, m>>].node = m
    BY <2>2, <2>3, Zenon DEF Stable
  <2>5. Lookup(merged, id) = m
    BY <1>3, <2>1, <2>3 DEF Child
  <2> QED BY <2>1, <2>4, <2>5 DEF Child
<1>5. MergeTyped(d)
  BY MergeIsTyped
<1>6. MergeChildren(MergeAt[d], from, local, merged).nodes = merged
  BY <1>3, <1>4, <1>5, MergeTakesRemote
<1> QED BY <1>1, <1>6, Zenon

(* Merging the result with the same local side again changes nothing.      *)
LEMMA MergeIsStable ==
  ASSUME NEW d \in Nat
  PROVE  Stable(d)
<1> DEFINE S == {e \in Nat : Stable(e)}
<1>1. 0 \in S
  <2>1. ASSUME NEW b \in Option(Node[0]), NEW l \in Option(Node[0]), NEW r \in Option(Node[0])
        PROVE  MergeAt[0][<<b, l, MergeAt[0][<<b, l, r>>].node>>].node = MergeAt[0][<<b, l, r>>].node
    <3>1. b = {} /\ l = {} /\ r = {}
      BY NoNode DEF Option
    <3>2. MergeAt[0][<<{}, {}, {}>>] = [node |-> {}, conflicts |-> 0]
      BY MergeOfNothing, Zenon
    <3>3. MergeAt[0][<<{}, {}, {}>>].node = {}
      BY <3>2
    <3> QED BY <3>1, <3>3
  <2> QED BY <2>1 DEF Stable
<1>2. ASSUME NEW e \in Nat, e \in S PROVE e + 1 \in S
  <2>0. Stable(e)
    BY <1>2
  <2>1. SUFFICES ASSUME NEW b \in Option(Node[e + 1]), NEW l \in Option(Node[e + 1]),
                        NEW r \in Option(Node[e + 1]), NEW m, m = MergeAt[e + 1][<<b, l, r>>].node
                 PROVE  MergeAt[e + 1][<<b, l, m>>].node = m
    BY DEF Stable
  <2>2. EitherOrBoth(e, b, l, r)
    BY MergeOfEitherOrBoth, Zenon
  <2>3. CASE m = r
    BY <2>1, <2>3, Zenon
  <2>4. CASE m = l
    <3>1. OneEditWins(e + 1, b, l, l)
      BY MergeOfOneEdit
    <3>2. MergeAt[e + 1][<<b, l, l>>] = [node |-> l, conflicts |-> 0]
      BY <3>1, Zenon DEF OneEditWins
    <3>3. MergeAt[e + 1][<<b, l, l>>].node = l
      BY <3>2
    <3> QED BY <2>4, <3>3
  <2>5. ASSUME l # b, r # b, NEW x \in Node[e + 1], NEW y \in Node[e + 1],
               l = {x}, r = {y}, SameNode(x, y), m = {MergedNode(e, b, x, y)}
        PROVE  MergeAt[e + 1][<<b, l, m>>].node = m
    <3>1. PICK n : n = MergedNode(e, b, x, y)
      OBVIOUS
    <3>2. MergedBelow(e, b, x, y)
      BY <2>5, MergedChildren, Zenon
    <3>3. n \in Node[e + 1] /\ SameNode(n, x) /\ BaseChildren(b, x) \in Siblings(Node[e])
          /\ x.children \in Siblings(Node[e]) /\ y.children \in Siblings(Node[e])
          /\ n.children = Kids(e, b, x, y).nodes
      BY <3>1, <3>2, Zenon DEF MergedBelow
    <3>4. SameNode(x, n)
      BY <3>3, Zenon DEF SameNode
    <3>5. m \in Option(Node[e + 1]) /\ m # b
      <4>1. Progresses(e + 1)
        BY MergeProgresses
      <4>2. m # b
        BY <2>1, <2>5, <4>1, Zenon DEF Progresses
      <4>3. m \in Option(Node[e + 1])
        BY <2>5, <3>1, <3>3, OptionOfOne, Zenon
      <4> QED BY <4>2, <4>3
    <3>6. MergedNode(e, b, x, n) = n
      <4>1. n = [id |-> x.id, kind |-> x.kind,
                 name |-> MergeValue(BaseField(b, x, "name"), x.name, y.name),
                 url |-> MergeValue(BaseField(b, x, "url"), x.url, y.url),
                 children |-> Kids(e, b, x, y).nodes]
        BY <3>1, Zenon DEF MergedNode
      <4>3. /\ n.name = MergeValue(BaseField(b, x, "name"), x.name, y.name)
            /\ n.url = MergeValue(BaseField(b, x, "url"), x.url, y.url)
        BY <4>1
      <4>4. /\ MergeValue(BaseField(b, x, "name"), x.name, n.name) = n.name
            /\ MergeValue(BaseField(b, x, "url"), x.url, n.url) = n.url
        <5>1. MergeValue(BaseField(b, x, "name"), x.name, n.name) = n.name
          BY <4>3 DEF MergeValue
        <5>2. MergeValue(BaseField(b, x, "url"), x.url, n.url) = n.url
          BY <4>3 DEF MergeValue
        <5> QED BY <5>1, <5>2, Zenon
      <4>5. Kids(e, b, x, n).nodes = n.children
        <5>1. PICK B, L, R : B = BaseChildren(b, x) /\ L = x.children /\ R = y.children
          OBVIOUS
        <5>2. B \in Siblings(Node[e]) /\ L \in Siblings(Node[e]) /\ R \in Siblings(Node[e])
          BY <3>3, <5>1, Zenon
        <5>3. PICK K : K = MergeChildren(MergeAt[e], B, L, R).nodes
          OBVIOUS
        <5>4. MergeChildren(MergeAt[e], B, L, K).nodes = K
          BY <2>0, <5>2, <5>3, StableChildren
        <5>5. n.children = K
          BY <3>3, <5>1, <5>3, Zenon DEF Kids
        <5> QED BY <5>1, <5>4, <5>5, Zenon DEF Kids
      <4>6. MergedNode(e, b, x, n)
              = [id |-> x.id, kind |-> x.kind, name |-> n.name, url |-> n.url, children |-> n.children]
        BY <4>4, <4>5, Zenon DEF MergedNode
      <4>7. n = [id |-> n.id, kind |-> n.kind, name |-> n.name, url |-> n.url, children |-> n.children]
        BY <3>3, NodeFields
      <4> QED BY <3>3, <4>6, <4>7, Zenon DEF SameNode
    <3>7. CASE x = n
      BY <2>4, <2>5, <3>1, <3>7
    <3>8. CASE x # n
      <4>1. {x} # b /\ {n} # b
        BY <2>5, <3>1, <3>5
      <4>2. MergeAt[e + 1][<<b, {x}, {n}>>]
              = [node |-> {n}, conflicts |-> Kids(e, b, x, n).conflicts
                                               + Cardinality(FieldConflicts(b, x, n))]
        BY <3>3, <3>4, <3>6, <3>8, <4>1, MergeOfTwoEdits
      <4>3. MergeAt[e + 1][<<b, {x}, {n}>>].node = {n}
        BY <4>2
      <4> QED BY <2>5, <3>1, <4>3
    <3> QED BY <3>7, <3>8
  <2> QED BY <2>1, <2>2, <2>3, <2>4, <2>5, Zenon DEF EitherOrBoth
<1> HIDE DEF S
<1>3. \A e \in Nat : e \in S
  BY <1>1, <1>2, NatSetInduction
<1> QED BY <1>3 DEF S

(* The same conflicts are counted whichever side is which.                 *)
CountsAlike(d) ==
  \A b, l, r \in Option(Node[d]) : MergeAt[d][<<b, l, r>>].conflicts = MergeAt[d][<<b, r, l>>].conflicts

(* Then the same holds of a folder.                                        *)
LEMMA ChildrenCountAlike ==
  ASSUME NEW d \in Nat, CountsAlike(d),
         NEW from \in Siblings(Node[d]), NEW local \in Siblings(Node[d]),
         NEW remote \in Siblings(Node[d])
  PROVE  MergeChildren(MergeAt[d], from, local, remote).conflicts
           = MergeChildren(MergeAt[d], from, remote, local).conflicts
<1>1. IdsAreRead(from, local, remote) /\ IdsAreRead(from, remote, local)
  BY SiblingIdsType, Zenon
<1>2. PICK I : I = ToSet(SiblingIds(from, local, remote))
  OBVIOUS
<1>3. I = ToSet(SiblingIds(from, remote, local))
  <2>1. I = {id \in Id : Lookup(from, id) # {} \/ Lookup(local, id) # {} \/ Lookup(remote, id) # {}}
    BY <1>1, <1>2, Zenon DEF IdsAreRead
  <2>2. ToSet(SiblingIds(from, remote, local))
          = {id \in Id : Lookup(from, id) # {} \/ Lookup(remote, id) # {} \/ Lookup(local, id) # {}}
    BY <1>1, Zenon DEF IdsAreRead
  <2> QED BY <2>1, <2>2
<1>4. MergedInOrder(d, from, local, remote) /\ MergedInOrder(d, from, remote, local)
  BY MergeIsTyped, MergeChildrenType
<1>5. ASSUME NEW id
      PROVE  Child(d, from, local, remote, id).conflicts = Child(d, from, remote, local, id).conflicts
  <2>1. /\ Lookup(from, id) \in Option(Node[d])
        /\ Lookup(local, id) \in Option(Node[d])
        /\ Lookup(remote, id) \in Option(Node[d])
    BY LookupType
  <2> QED BY <2>1, Zenon DEF CountsAlike, Child
<1>6. [id \in I |-> Child(d, from, local, remote, id).conflicts]
        = [id \in I |-> Child(d, from, remote, local, id).conflicts]
  BY <1>5
<1>7. MergeChildren(MergeAt[d], from, local, remote).conflicts
        = Total([id \in I |-> Child(d, from, local, remote, id).conflicts])
  BY <1>2, <1>4, Zenon DEF MergedInOrder
<1>8. MergeChildren(MergeAt[d], from, remote, local).conflicts
        = Total([id \in I |-> Child(d, from, remote, local, id).conflicts])
  BY <1>3, <1>4, Zenon DEF MergedInOrder
<1> QED BY <1>6, <1>7, <1>8, Zenon

(* Local and remote exchanged, the same conflicts are counted.             *)
LEMMA MergeCountsAlike ==
  ASSUME NEW d \in Nat
  PROVE  CountsAlike(d)
<1> DEFINE S == {e \in Nat : CountsAlike(e)}
<1>1. 0 \in S
  BY NoNode DEF CountsAlike, Option
<1>2. ASSUME NEW e \in Nat, e \in S PROVE e + 1 \in S
  <2>0. CountsAlike(e)
    BY <1>2
  <2>1. SUFFICES ASSUME NEW b \in Option(Node[e + 1]), NEW l \in Option(Node[e + 1]),
                        NEW r \in Option(Node[e + 1])
                 PROVE  MergeAt[e + 1][<<b, l, r>>].conflicts = MergeAt[e + 1][<<b, r, l>>].conflicts
    BY DEF CountsAlike
  <2>2. PICK m : m = MergeAt[e + 1][<<b, l, r>>]
    OBVIOUS
  <2>3. PICK w : w = MergeAt[e + 1][<<b, r, l>>]
    OBVIOUS
  <2>4. CASE l = r \/ l = b \/ r = b
    <3>1. OneEditWins(e + 1, b, l, r) /\ OneEditWins(e + 1, b, r, l)
      BY MergeOfOneEdit
    <3>2. m = [node |-> l, conflicts |-> 0] \/ m = [node |-> r, conflicts |-> 0]
      BY <2>2, <2>4, <3>1, Zenon DEF OneEditWins
    <3>3. w = [node |-> l, conflicts |-> 0] \/ w = [node |-> r, conflicts |-> 0]
      BY <2>3, <2>4, <3>1, Zenon DEF OneEditWins
    <3>4. m.conflicts = 0 /\ w.conflicts = 0
      BY <3>2, <3>3
    <3> QED BY <2>2, <2>3, <3>4
  <2>5. CASE l # r /\ l # b /\ r # b /\ \E x, y \in Node[e + 1] : l = {x} /\ r = {y} /\ SameNode(x, y)
    <3>1. PICK x \in Node[e + 1], y \in Node[e + 1] : l = {x} /\ r = {y} /\ SameNode(x, y)
      BY <2>5
    <3>2. SameNode(y, x)
      BY <3>1, Zenon DEF SameNode
    <3>3. x # y /\ {x} # b /\ {y} # b
      BY <2>5, <3>1
    <3>4. MergeAt[e + 1][<<b, {x}, {y}>>]
            = [node |-> {MergedNode(e, b, x, y)},
               conflicts |-> Kids(e, b, x, y).conflicts + Cardinality(FieldConflicts(b, x, y))]
      BY <3>1, <3>3, MergeOfTwoEdits
    <3>5. MergeAt[e + 1][<<b, {y}, {x}>>]
            = [node |-> {MergedNode(e, b, y, x)},
               conflicts |-> Kids(e, b, y, x).conflicts + Cardinality(FieldConflicts(b, y, x))]
      BY <3>2, <3>3, MergeOfTwoEdits
    <3>6. \A f : BaseField(b, x, f) = BaseField(b, y, f)
      BY <3>1, Zenon DEF BaseField, SameNode
    <3>7. FieldConflicts(b, x, y) = FieldConflicts(b, y, x)
      <4>1. \A f \in Scalars : ValueConflict(BaseField(b, x, f), x[f], y[f])
                                 <=> ValueConflict(BaseField(b, y, f), y[f], x[f])
        BY <3>6 DEF ValueConflict
      <4> QED BY <4>1 DEF FieldConflicts
    <3>8. Kids(e, b, x, y).conflicts = Kids(e, b, y, x).conflicts
      <4>1. PICK B, L, R : B = BaseChildren(b, x) /\ L = x.children /\ R = y.children
        OBVIOUS
      <4>2. BaseChildren(b, y) = B
        <5>1. PICK old, new : old = BaseField(b, x, "children") /\ new = BaseField(b, y, "children")
          OBVIOUS
        <5>2. old = new
          BY <3>6, <5>1, Zenon
        <5> QED BY <4>1, <5>1, <5>2, Zenon DEF BaseChildren
      <4>3. B \in Siblings(Node[e]) /\ L \in Siblings(Node[e]) /\ R \in Siblings(Node[e])
        BY <4>1, BaseOfOption, NodeFields
      <4>4. MergeChildren(MergeAt[e], B, L, R).conflicts = MergeChildren(MergeAt[e], B, R, L).conflicts
        BY <2>0, <4>3, ChildrenCountAlike, Zenon
      <4> QED BY <4>1, <4>2, <4>4, Zenon DEF Kids
    <3>9. PICK c : c = Kids(e, b, x, y).conflicts + Cardinality(FieldConflicts(b, x, y))
      OBVIOUS
    <3>10. c = Kids(e, b, y, x).conflicts + Cardinality(FieldConflicts(b, y, x))
      BY <3>7, <3>8, <3>9, Zenon
    <3>11. m = [node |-> {MergedNode(e, b, x, y)}, conflicts |-> c]
      BY <2>2, <3>1, <3>4, <3>9, Zenon
    <3>12. w = [node |-> {MergedNode(e, b, y, x)}, conflicts |-> c]
      BY <2>3, <3>1, <3>5, <3>10, Zenon
    <3>13. m.conflicts = c /\ w.conflicts = c
      BY <3>11, <3>12
    <3> QED BY <2>2, <2>3, <3>13
  <2>6. CASE l # r /\ l # b /\ r # b /\ ~\E x, y \in Node[e + 1] : l = {x} /\ r = {y} /\ SameNode(x, y)
    <3>1. ~\E x, y \in Node[e + 1] : r = {x} /\ l = {y} /\ SameNode(x, y)
      BY <2>6 DEF SameNode
    <3>2. MergedAs(e, b, l, r) /\ MergedAs(e, b, r, l)
      BY MergeCases, Zenon
    <3>3. \E n : m = [node |-> n, conflicts |-> 1]
      BY <2>2, <2>6, <3>2, Zenon DEF MergedAs
    <3>4. \E n : w = [node |-> n, conflicts |-> 1]
      BY <2>3, <2>6, <3>1, <3>2, Zenon DEF MergedAs
    <3>5. m.conflicts = 1 /\ w.conflicts = 1
      BY <3>3, <3>4
    <3> QED BY <2>2, <2>3, <3>5
  <2> QED BY <2>4, <2>5, <2>6
<1> HIDE DEF S
<1>3. \A e \in Nat : e \in S
  BY <1>1, <1>2, NatSetInduction
<1> QED BY <1>3 DEF S

-----------------------------------------------------------------------------
(* The profiles                                                            *)

(* A slice of a sequence, and one sequence after another. *)
IsSlice(S, s, m, n, u) ==
  /\ u \in Seq(S)
  /\ Len(u) = n - m + 1
  /\ \A i \in 1..(n - m + 1) : u[i] = s[m + i - 1]

(* The elements of SubSeq.                                                 *)
LEMMA SliceType ==
  ASSUME NEW S, NEW s \in Seq(S), NEW m \in Nat, NEW n \in Nat, 1 <= m, m <= n + 1, n <= Len(s),
         NEW u, u = SubSeq(s, m, n)
  PROVE  IsSlice(S, s, m, n, u)
<1>1. u \in Seq(S) /\ Len(u) = n - m + 1
  OBVIOUS
<1>2. \A i \in 1..(n - m + 1) : u[i] = s[m + i - 1]
  OBVIOUS
<1> QED BY <1>1, <1>2 DEF IsSlice

IsConcat(S, u, v, w) ==
  /\ w \in Seq(S)
  /\ Len(w) = Len(u) + Len(v)
  /\ \A i \in 1..Len(u) : w[i] = u[i]
  /\ \A i \in 1..Len(v) : w[i + Len(u)] = v[i]

(* The elements of a concatenation.                                        *)
LEMMA ConcatType ==
  ASSUME NEW S, NEW u \in Seq(S), NEW v \in Seq(S), NEW w, w = u \o v
  PROVE  IsConcat(S, u, v, w)
  BY DEF IsConcat

(* A sequence without the element at one position. *)
IsRemoval(S, s, c, w) ==
  /\ w \in Seq(S) /\ Len(w) = Len(s) - 1
  /\ \A i \in 1..(Len(s) - 1) : w[i] = IF i < c THEN s[i] ELSE s[i + 1]

(* The elements of RemoveAt.                                               *)
LEMMA RemoveAtType ==
  ASSUME NEW S, NEW s \in Seq(S), NEW c \in 1..Len(s), NEW w, w = RemoveAt(s, c)
  PROVE  IsRemoval(S, s, c, w)
<1>1. PICK u, v : u = SubSeq(s, 1, c - 1) /\ v = SubSeq(s, c + 1, Len(s))
  OBVIOUS
<1>2. w = u \o v
  BY <1>1, Zenon DEF RemoveAt
<1>3. Len(s) \in Nat
  OBVIOUS
<1>4. c - 1 \in Nat /\ c + 1 \in Nat /\ 1 \in Nat /\ 1 <= 1 /\ 1 <= (c - 1) + 1 /\ c - 1 <= Len(s)
      /\ 1 <= c + 1 /\ c + 1 <= Len(s) + 1 /\ Len(s) <= Len(s)
  BY <1>3
<1>5. /\ u \in Seq(S) /\ Len(u) = (c - 1) - 1 + 1
      /\ \A i \in 1..((c - 1) - 1 + 1) : u[i] = s[1 + i - 1]
  <2>1. PICK k \in Nat : k = c - 1
    BY <1>4
  <2>2. IsSlice(S, s, 1, k, u)
    BY <1>1, <1>4, <2>1, SliceType
  <2> QED BY <2>1, <2>2, Zenon DEF IsSlice
<1>6. /\ v \in Seq(S) /\ Len(v) = Len(s) - (c + 1) + 1
      /\ \A i \in 1..(Len(s) - (c + 1) + 1) : v[i] = s[(c + 1) + i - 1]
  <2>1. PICK k \in Nat : k = c + 1
    BY <1>4
  <2>2. IsSlice(S, s, k, Len(s), v)
    BY <1>1, <1>3, <1>4, <2>1, SliceType
  <2> QED BY <2>1, <2>2, Zenon DEF IsSlice
<1>7. Len(u) = c - 1 /\ \A i \in 1..(c - 1) : u[i] = s[i]
  <2>1. (c - 1) - 1 + 1 = c - 1 /\ \A i \in 1..(c - 1) : 1 + i - 1 = i
    BY <1>3
  <2> QED BY ONLY <1>5, <2>1, Zenon
<1>8. Len(v) = Len(s) - c /\ \A i \in 1..(Len(s) - c) : v[i] = s[i + c]
  <2>1. Len(s) - (c + 1) + 1 = Len(s) - c /\ \A i \in 1..(Len(s) - c) : (c + 1) + i - 1 = i + c
    BY <1>3
  <2> QED BY ONLY <1>6, <2>1, Zenon
<1>9. /\ w \in Seq(S) /\ Len(w) = Len(u) + Len(v)
      /\ \A i \in 1..Len(u) : w[i] = u[i]
      /\ \A i \in 1..Len(v) : w[i + Len(u)] = v[i]
  <2>1. IsConcat(S, u, v, w)
    BY <1>2, <1>5, <1>6, ConcatType
  <2> QED BY <2>1, Zenon DEF IsConcat
<1>10. Len(w) = Len(s) - 1
  BY <1>3, <1>7, <1>8, <1>9
<1>11. ASSUME NEW i \in 1..(Len(s) - 1), i < c PROVE w[i] = s[i]
  <2>1. i \in 1..(c - 1)
    BY <1>3, <1>11
  <2> QED BY <1>7, <1>9, <2>1
<1>12. ASSUME NEW i \in 1..(Len(s) - 1), ~(i < c) PROVE w[i] = s[i + 1]
  <2>1. i - (c - 1) \in 1..(Len(s) - c) /\ (i - (c - 1)) + c = i + 1 /\ (i - (c - 1)) + (c - 1) = i
    BY <1>3, <1>12
  <2>2. w[(i - (c - 1)) + Len(u)] = v[i - (c - 1)]
    BY <1>8, <1>9, <2>1
  <2>3. v[i - (c - 1)] = s[(i - (c - 1)) + c]
    BY <1>8, <2>1
  <2> QED BY <1>7, <2>1, <2>2, <2>3
<1> QED BY <1>9, <1>10, <1>11, <1>12 DEF IsRemoval

(* A list without one of its elements. *)
Thinned(S, s, id) ==
  LET w == Without(s, id)
  IN  /\ w \in Seq(S \ {id})
      /\ \E m \in [DOMAIN w -> DOMAIN s] :
           /\ \A i, j \in DOMAIN w : m[i] = m[j] => i = j
           /\ \A i \in DOMAIN w : w[i] = s[m[i]]

(* Without leaves the other ids of a list, each in one place.              *)
LEMMA WithoutType ==
  ASSUME NEW S, NEW s \in Seq(S), \A i, j \in DOMAIN s : s[i] = s[j] => i = j, NEW id
  PROVE  Thinned(S, s, id)
<1>1. Len(s) \in Nat /\ DOMAIN s = 1..Len(s) /\ \A i \in 1..Len(s) : s[i] \in S
  OBVIOUS
<1>2. CASE Contains(s, id)
  <2>1. \E i \in DOMAIN s : s[i] = id
    BY <1>1, <1>2 DEF Contains
  <2>2. PICK c : c = CHOOSE i \in DOMAIN s : s[i] = id
    OBVIOUS
  <2>3. c \in 1..Len(s) /\ s[c] = id
    BY <1>1, <2>1, <2>2
  <2>4. PICK w : w = RemoveAt(s, c)
    OBVIOUS
  <2>5. w = Without(s, id)
    <3>1. Without(s, id) = RemoveAt(s, CHOOSE i \in DOMAIN s : s[i] = id)
      BY <1>2, Zenon DEF Without
    <3> QED BY <2>2, <2>4, <3>1, Zenon
  <2>6. /\ w \in Seq(S) /\ Len(w) = Len(s) - 1
        /\ \A i \in 1..(Len(s) - 1) : w[i] = IF i < c THEN s[i] ELSE s[i + 1]
    <3>1. IsRemoval(S, s, c, w)
      BY <2>3, <2>4, RemoveAtType
    <3> QED BY <3>1, Zenon DEF IsRemoval
  <2>7. DOMAIN w = 1..(Len(s) - 1)
    BY <1>1, <2>6
  <2> DEFINE m == [i \in DOMAIN w |-> IF i < c THEN i ELSE i + 1]
  <2>8. m \in [DOMAIN w -> DOMAIN s]
    BY <1>1, <2>3, <2>7
  <2>9. \A i, j \in DOMAIN w : m[i] = m[j] => i = j
    BY <1>1, <2>3, <2>7
  <2>10. \A i \in DOMAIN w : w[i] = s[m[i]]
    BY <2>6, <2>7
  <2>11. \A i \in DOMAIN w : m[i] # c
    BY <1>1, <2>3, <2>7
  <2> HIDE DEF m
  <2>12. \A i \in DOMAIN w : w[i] # id
    BY <1>1, <2>3, <2>8, <2>10, <2>11
  <2>13. w \in Seq(S \ {id})
    BY <2>6, <2>7, <2>12
  <2> QED BY <2>5, <2>8, <2>9, <2>10, <2>13 DEF Thinned
<1>3. CASE ~Contains(s, id)
  <2>1. \A i \in 1..Len(s) : s[i] # id
    BY <1>3 DEF Contains
  <2>2. s = Without(s, id)
    BY <1>3 DEF Without
  <2>3. s \in Seq(S \ {id})
    BY <1>1, <2>1
  <2> DEFINE m == [i \in DOMAIN s |-> i]
  <2>4. m \in [DOMAIN s -> DOMAIN s] /\ \A i \in DOMAIN s : m[i] = i
    OBVIOUS
  <2> HIDE DEF m
  <2>5. Thinned(S, s, id) <=>
          /\ s \in Seq(S \ {id})
          /\ \E f \in [DOMAIN s -> DOMAIN s] : /\ \A i, j \in DOMAIN s : f[i] = f[j] => i = j
                                               /\ \A i \in DOMAIN s : s[i] = s[f[i]]
    BY <2>2 DEF Thinned
  <2> QED BY <2>3, <2>4, <2>5
<1> QED BY <1>2, <1>3

(* A node is in one place. *)
LEMMA PlacedOnce ==
  ASSUME NEW N, NEW kids, Placed(N, kids), NEW f \in N, NEW g \in N,
         NEW i \in DOMAIN kids[f], NEW j \in DOMAIN kids[g], kids[f][i] = kids[g][j]
  PROVE  f = g /\ i = j
<1>1. \A k \in DOMAIN kids[f], n \in DOMAIN kids[g] : kids[f][k] = kids[g][n] => f = g /\ k = n
  BY DEF Placed
<1> QED BY <1>1

(* Detach takes a node from its folder, and nothing else. *)
Detached(N, kids, id, D) ==
  /\ Placed(N, D)
  /\ \A f \in N : \A i \in DOMAIN D[f] :
       D[f][i] # id /\ \E j \in DOMAIN kids[f] : D[f][i] = kids[f][j]

(* A node taken from its folder leaves the others where they are.          *)
LEMMA DetachPlaced ==
  ASSUME NEW p, Placed(DOMAIN p.node, p.kids), NEW id
  PROVE  Detached(DOMAIN p.node, p.kids, id, Detach(p, id))
<1>1. PICK N, kids, q : N = DOMAIN p.node /\ kids = p.kids /\ q = Detach(p, id)
  OBVIOUS
<1>2. /\ kids \in [N -> Seq(N \ {Root})]
      /\ \A f, g \in N : \A i \in DOMAIN kids[f], j \in DOMAIN kids[g] :
           kids[f][i] = kids[g][j] => f = g /\ i = j
  <2>1. Placed(N, kids)
    BY <1>1, Zenon
  <2> QED BY <2>1, Zenon DEF Placed
<1>3. DOMAIN q = N /\ \A f \in N : q[f] = Without(kids[f], id)
  BY <1>1, <1>2 DEF Detach
<1>4. ASSUME NEW f \in N PROVE Thinned(N \ {Root}, kids[f], id)
  <2>1. PICK s : s = kids[f]
    OBVIOUS
  <2>2. s \in Seq(N \ {Root})
    BY <1>2, <2>1
  <2>3. \A i, j \in DOMAIN s : s[i] = s[j] => i = j
    BY <1>2, <2>1, Zenon
  <2> QED BY <2>1, <2>2, <2>3, WithoutType, Zenon
<1>5. ASSUME NEW f \in N
      PROVE  /\ q[f] \in Seq((N \ {Root}) \ {id})
             /\ \E m \in [DOMAIN q[f] -> DOMAIN kids[f]] :
                  /\ \A i, j \in DOMAIN q[f] : m[i] = m[j] => i = j
                  /\ \A i \in DOMAIN q[f] : q[f][i] = kids[f][m[i]]
  <2>1. Thinned(N \ {Root}, kids[f], id)
    BY <1>4, Zenon
  <2>2. PICK w : w = Without(kids[f], id)
    OBVIOUS
  <2>3. /\ w \in Seq((N \ {Root}) \ {id})
        /\ \E m \in [DOMAIN w -> DOMAIN kids[f]] :
             /\ \A i, j \in DOMAIN w : m[i] = m[j] => i = j
             /\ \A i \in DOMAIN w : w[i] = kids[f][m[i]]
    BY <2>1, <2>2, Zenon DEF Thinned
  <2>4. q[f] = w
    BY <1>3, <2>2
  <2> QED BY <2>3, <2>4, Zenon
<1>6. ASSUME NEW f \in N
      PROVE  /\ q[f] \in Seq(N \ {Root})
             /\ \A i \in DOMAIN q[f] : q[f][i] # id /\ \E j \in DOMAIN kids[f] : q[f][i] = kids[f][j]
  <2>1. PICK s : s = q[f]
    OBVIOUS
  <2>2. s \in Seq((N \ {Root}) \ {id})
    BY <1>5, <2>1
  <2>3. s \in Seq(N \ {Root}) /\ \A i \in DOMAIN s : s[i] # id
    BY <2>2
  <2>4. \A i \in DOMAIN s : \E j \in DOMAIN kids[f] : s[i] = kids[f][j]
    BY <1>5, <2>1
  <2> QED BY <2>1, <2>3, <2>4
<1>7. q \in [N -> Seq(N \ {Root})]
  <2>1. q = [f \in N |-> Without(kids[f], id)]
    BY <1>1, <1>2 DEF Detach
  <2> QED BY <1>3, <1>6, <2>1
<1>8. ASSUME NEW f \in N, NEW g \in N, NEW i \in DOMAIN q[f], NEW j \in DOMAIN q[g], q[f][i] = q[g][j]
      PROVE  f = g /\ i = j
  <2>1. PICK m \in [DOMAIN q[f] -> DOMAIN kids[f]] :
          /\ \A k, n \in DOMAIN q[f] : m[k] = m[n] => k = n
          /\ \A k \in DOMAIN q[f] : q[f][k] = kids[f][m[k]]
    BY <1>5, Zenon
  <2>2. PICK n \in DOMAIN kids[g] : q[g][j] = kids[g][n]
    BY <1>6, Zenon
  <2>3. m[i] \in DOMAIN kids[f] /\ kids[f][m[i]] = kids[g][n]
    BY <1>8, <2>1, <2>2
  <2>4. f = g
    BY <1>2, <2>2, <2>3, Zenon
  <2>5. j \in DOMAIN q[f] /\ m[j] \in DOMAIN kids[f] /\ kids[f][m[j]] = kids[f][m[i]]
    BY <1>8, <2>1, <2>4
  <2>6. m[i] = m[j]
    BY <1>2, <2>3, <2>5, ZenonT(30)
  <2> QED BY <2>1, <2>4, <2>5, <2>6, Zenon
<1>9. Placed(N, q)
  BY <1>7, <1>8, Zenon DEF Placed
<1>10. Detached(N, kids, id, q)
  BY <1>6, <1>9, Zenon DEF Detached
<1> QED BY <1>1, <1>10, Zenon

(* A node that is in no folder is put into one. *)
Absent(N, q, id) == \A f \in N : \A i \in DOMAIN q[f] : q[f][i] # id

Attached(N, q, folder, id) == [f \in N |-> IF f = folder THEN Append(q[f], id) ELSE q[f]]

(* A node put at the end of a folder is there and nowhere else.            *)
LEMMA AttachPlaced ==
  ASSUME NEW N, NEW q, Placed(N, q), NEW folder \in N, NEW id \in N \ {Root}, Absent(N, q, id)
  PROVE  Placed(N, Attached(N, q, folder, id))
<1>1. PICK s : s = Append(q[folder], id)
  OBVIOUS
<1>0. \A f \in N : \A i \in DOMAIN q[f] : q[f][i] # id
  BY DEF Absent
<1>2. PICK a : a = [f \in N |-> IF f = folder THEN Append(q[f], id) ELSE q[f]]
  OBVIOUS
<1>3. q \in [N -> Seq(N \ {Root})]
  BY DEF Placed
<1>4. q[folder] \in Seq(N \ {Root})
  BY <1>3
<1>5. PICK o : o = q[folder]
  OBVIOUS
<1>6. /\ s \in Seq(N \ {Root}) /\ Len(o) \in Nat
      /\ DOMAIN s = 1..(Len(o) + 1) /\ DOMAIN o = 1..Len(o)
      /\ s[Len(o) + 1] = id
      /\ \A i \in 1..Len(o) : s[i] = o[i]
  BY <1>1, <1>4, <1>5
<1>7. /\ DOMAIN a = N /\ a[folder] = s
      /\ \A f \in N : f # folder => a[f] = q[f]
  BY <1>1, <1>2
<1>8. a \in [N -> Seq(N \ {Root})]
  <2>1. \A f \in N : a[f] \in Seq(N \ {Root})
    BY <1>3, <1>6, <1>7
  <2>2. a = [f \in N |-> a[f]]
    BY <1>2
  <2> QED BY <2>1, <2>2
<1>9. ASSUME NEW f \in N, NEW i \in DOMAIN a[f]
      PROVE  \/ a[f][i] = id /\ f = folder /\ i = Len(o) + 1
             \/ i \in DOMAIN q[f] /\ a[f][i] = q[f][i] /\ a[f][i] # id
  <2>1. CASE f = folder
    <3>1. CASE i = Len(o) + 1
      BY <1>6, <1>7, <2>1, <3>1
    <3>2. CASE i # Len(o) + 1
      <4>1. i \in 1..Len(o)
        BY <1>6, <1>7, <2>1, <3>2
      <4> QED BY <1>0, <1>5, <1>6, <1>7, <2>1, <4>1
    <3> QED BY <3>1, <3>2
  <2>2. CASE f # folder
    BY <1>0, <1>7, <2>2
  <2> QED BY <2>1, <2>2
<1>10. ASSUME NEW f \in N, NEW g \in N, NEW i \in DOMAIN a[f], NEW j \in DOMAIN a[g], a[f][i] = a[g][j]
       PROVE  f = g /\ i = j
  <2>1. \A x, y \in N : \A k \in DOMAIN q[x], n \in DOMAIN q[y] : q[x][k] = q[y][n] => x = y /\ k = n
    BY DEF Placed
  <2>2. CASE a[f][i] = id
    <3>1. a[g][j] = id
      BY <1>10, <2>2
    <3> QED BY <1>9, <2>2, <3>1
  <2>3. CASE a[f][i] # id
    <3>1. a[g][j] # id
      BY <1>10, <2>3
    <3>2. i \in DOMAIN q[f] /\ a[f][i] = q[f][i] /\ j \in DOMAIN q[g] /\ a[g][j] = q[g][j]
      BY <1>9, <2>3, <3>1
    <3>3. q[f][i] = q[g][j]
      BY <1>10, <3>2
    <3>4. \A k \in DOMAIN q[f], n \in DOMAIN q[g] : q[f][k] = q[g][n] => f = g /\ k = n
      BY <2>1
    <3>5. f = g
      BY <3>2, <3>3, <3>4
    <3>6. i = j
      BY <3>2, <3>3, <3>4
    <3> QED BY <3>5, <3>6
  <2> QED BY <2>2, <2>3
<1>11. Placed(N, a)
  BY <1>8, <1>10, Zenon DEF Placed
<1> QED BY <1>2, <1>11, Zenon DEF Attached

(* What IsProfile says, part by part.                                      *)
LEMMA ProfileParts ==
  ASSUME NEW p, IsProfile(p)
  PROVE  /\ p = [node |-> p.node, kids |-> p.kids]
         /\ DOMAIN p.node \subseteq Id
         /\ p.node \in [DOMAIN p.node -> Value]
         /\ Placed(DOMAIN p.node, p.kids)
         /\ DOMAIN p.kids = DOMAIN p.node
         /\ \A f \in DOMAIN p.node : p.kids[f] \in Seq(DOMAIN p.node \ {Root})
         /\ Root \in DOMAIN p.node
<1>1. Placed(DOMAIN p.node, p.kids)
  BY Zenon DEF IsProfile
<1>2. p.kids \in [DOMAIN p.node -> Seq(DOMAIN p.node \ {Root})]
  BY <1>1, Zenon DEF Placed
<1>3. DOMAIN p.kids = DOMAIN p.node /\ \A f \in DOMAIN p.node : p.kids[f] \in Seq(DOMAIN p.node \ {Root})
  BY <1>2
<1>4. /\ p = [node |-> p.node, kids |-> p.kids]
      /\ DOMAIN p.node \subseteq Id
      /\ p.node \in [DOMAIN p.node -> Value]
      /\ Root \in DOMAIN p.node
  BY DEF IsProfile
<1> QED BY <1>1, <1>3, <1>4, Zenon

(* What makes a profile.                                                   *)
LEMMA ProfileOfParts ==
  ASSUME NEW N, N \subseteq Id, Root \in N, NEW node \in [N -> Value], NEW kids, Placed(N, kids),
         NEW p, p = [node |-> node, kids |-> kids]
  PROVE  IsProfile(p)
<1>1. p.node = node /\ p.kids = kids /\ DOMAIN p.node = N
  OBVIOUS
<1>2. /\ p = [node |-> p.node, kids |-> p.kids]
      /\ DOMAIN p.node \subseteq Id
      /\ p.node \in [DOMAIN p.node -> Value]
      /\ Root \in DOMAIN p.node
  BY <1>1
<1>3. Placed(DOMAIN p.node, p.kids)
  BY <1>1, Zenon
<1> QED BY <1>2, <1>3, Zenon DEF IsProfile

(* A subtree holds its node, never the root, and is left by no list but    *)
(* the one its node is in.                                                 *)
LEMMA SubtreeAlone ==
  ASSUME NEW p, IsProfile(p), NEW id \in DOMAIN p.node \ {Root}
  PROVE  /\ id \in Subtree(p, id)
         /\ Root \notin Subtree(p, id)
         /\ \A f \in DOMAIN p.node \ Subtree(p, id) : \A i \in DOMAIN p.kids[f] :
              p.kids[f][i] # id => p.kids[f][i] \notin Subtree(p, id)
<1>1. PICK N, kids, T : N = DOMAIN p.node /\ kids = p.kids /\ T = Subtree(p, id)
  OBVIOUS
<1>2. /\ \A f \in N : kids[f] \in Seq(N \ {Root})
      /\ \A f, g \in N : \A i \in DOMAIN kids[f], j \in DOMAIN kids[g] :
           kids[f][i] = kids[g][j] => f = g /\ i = j
      /\ Root \in N
  <2>1. Placed(N, kids)
    BY <1>1, ProfileParts, Zenon
  <2>2. \A f, g \in N : \A i \in DOMAIN kids[f], j \in DOMAIN kids[g] :
          kids[f][i] = kids[g][j] => f = g /\ i = j
    BY <2>1, Zenon DEF Placed
  <2> QED BY <1>1, <2>2, ProfileParts, Zenon
<1> DEFINE Closed(S) == \A f \in S : ToSet(kids[f]) \subseteq S
<1>3. \A n : n \in T <=> n \in N /\ \A S \in SUBSET N : id \in S /\ Closed(S) => n \in S
  BY <1>1 DEF Subtree
<1>4. \A f \in N : \A i \in DOMAIN kids[f] : kids[f][i] \in N \ {Root} /\ kids[f][i] \in ToSet(kids[f])
  <2>1. ASSUME NEW f \in N, NEW i \in DOMAIN kids[f]
        PROVE  kids[f][i] \in N \ {Root} /\ kids[f][i] \in ToSet(kids[f])
    <3>1. kids[f] \in Seq(N \ {Root})
      BY <1>2
    <3>2. kids[f][i] \in N \ {Root}
      BY <3>1
    <3> QED BY <3>2, Zenon DEF ToSet
  <2> QED BY <2>1
<1>5. \A f \in N : \A c \in ToSet(kids[f]) : \E i \in DOMAIN kids[f] : kids[f][i] = c
  BY DEF ToSet
<1>6. id \in T /\ id \in N /\ id # Root
  <2> HIDE DEF Closed
  <2> QED BY <1>1, <1>3
<1>7. T \in SUBSET N /\ Closed(T)
  <2>1. ASSUME NEW f \in T, NEW c \in ToSet(kids[f]) PROVE c \in T
    <3>1. f \in N
      BY <1>3
    <3>2. c \in N
      BY <1>4, <1>5, <3>1
    <3>3. ASSUME NEW S \in SUBSET N, id \in S, Closed(S) PROVE c \in S
      <4>1. f \in S
        BY <1>3, <3>3
      <4> QED BY <3>3, <4>1
    <3> QED BY <1>3, <3>2, <3>3
  <2> QED BY <1>3, <2>1
<1>8. ASSUME NEW c \in T, c # id PROVE \E f \in T : c \in ToSet(kids[f])
  <2>1. SUFFICES ASSUME \A f \in T : c \notin ToSet(kids[f]) PROVE FALSE
    OBVIOUS
  <2>2. Closed(T \ {c}) /\ T \ {c} \in SUBSET N /\ id \in T \ {c}
    BY <1>6, <1>7, <1>8, <2>1
  <2> HIDE DEF Closed
  <2>3. c \in T \ {c}
    BY <1>3, <2>2
  <2> QED BY <2>3
<1>9. Root \notin T
  <2>1. SUFFICES ASSUME Root \in T PROVE FALSE
    OBVIOUS
  <2>2. PICK f \in T : Root \in ToSet(kids[f])
    BY <1>6, <1>8, <2>1
  <2>3. f \in N
    BY <1>7
  <2> QED BY <1>4, <1>5, <2>2, <2>3
<1>10. ASSUME NEW f \in N \ T, NEW i \in DOMAIN kids[f], kids[f][i] # id PROVE kids[f][i] \notin T
  <2>1. SUFFICES ASSUME kids[f][i] \in T PROVE FALSE
    OBVIOUS
  <2>2. PICK g \in T : kids[f][i] \in ToSet(kids[g])
    BY <1>8, <1>10, <2>1
  <2>3. g \in N
    BY <1>7
  <2>4. PICK j \in DOMAIN kids[g] : kids[g][j] = kids[f][i]
    BY <1>5, <2>2, <2>3
  <2>5. f \in N
    BY <1>10
  <2>6. f = g
    BY <1>2, <2>3, <2>4, <2>5, Zenon
  <2> QED BY <1>10, <2>2, <2>6
<1> QED BY <1>1, <1>6, <1>9, <1>10, Zenon

(* A node of the profile the edits start from keeps its kind; a node made  *)
(* since has another id.                                                   *)
KindsKept(p) ==
  \A id \in DOMAIN p.node \cap DOMAIN Seed.node : p.node[id].kind = Seed.node[id].kind

IsEdited(p) == IsProfile(p) /\ KindsKept(p)

(* The profile after AddNode. *)
Added(p, id, folder, value) ==
  LET nodes == DOMAIN p.node \cup {id}
  IN  [node |-> [n \in nodes |-> IF n = id THEN value ELSE p.node[n]],
       kids |-> [n \in nodes |-> CASE n = id     -> <<>>
                                   [] n = folder -> Append(p.kids[n], id)
                                   [] OTHER      -> p.kids[n]]]

(* A new node gets an id its profile does not have, and the place of it.   *)
LEMMA AddKeepsProfile ==
  ASSUME NEW p, IsEdited(p), NEW id \in NewId \ DOMAIN p.node, NEW folder \in Folders(p),
         NEW value \in NewValue
  PROVE  IsEdited(Added(p, id, folder, value))
<1>1. PICK N : N = DOMAIN p.node
  OBVIOUS
<1>a. PICK nodes : nodes = DOMAIN p.node \cup {id}
  OBVIOUS
<1>b. PICK q : q = Added(p, id, folder, value)
  OBVIOUS
<1>2. /\ N \subseteq Id /\ p.node \in [N -> Value] /\ Placed(N, p.kids) /\ Root \in N
      /\ DOMAIN p.kids = N /\ \A f \in N : p.kids[f] \in Seq(N \ {Root})
  BY <1>1, ProfileParts DEF IsEdited
<1>3. id \in Id /\ id \notin N /\ id \notin DOMAIN Seed.node /\ folder \in N /\ nodes = N \cup {id}
  BY <1>1, <1>a DEF NewId, Folders
<1>4. PICK kids : kids = [n \in nodes |-> IF n = id THEN <<>> ELSE p.kids[n]]
  OBVIOUS
<1>5. PICK node : node = [n \in nodes |-> IF n = id THEN value ELSE p.node[n]]
  OBVIOUS
<1>6. node \in [nodes -> Value]
  BY <1>2, <1>3, <1>5, NewValueAssumption
<1>7. DOMAIN kids = nodes /\ kids[id] = <<>> /\ \A f \in N : f # id /\ kids[f] = p.kids[f]
  BY <1>3, <1>4
<1>8. \A f \in N : \A i \in DOMAIN p.kids[f] : p.kids[f][i] \in N
  <2>1. ASSUME NEW f \in N, NEW i \in DOMAIN p.kids[f] PROVE p.kids[f][i] \in N
    <3>1. p.kids[f] \in Seq(N \ {Root})
      BY <1>2
    <3> QED BY <3>1
  <2> QED BY <2>1
<1>9. Placed(nodes, kids)
  <2>1. ASSUME NEW f \in nodes PROVE kids[f] \in Seq(nodes \ {Root})
    <3>1. CASE f = id
      BY <1>7, <3>1
    <3>2. CASE f # id
      <4>1. PICK s : s = p.kids[f]
        OBVIOUS
      <4>2. f \in N /\ s = kids[f] /\ s \in Seq(N \ {Root}) /\ N \ {Root} \subseteq nodes \ {Root}
        BY <1>2, <1>3, <1>7, <3>2, <4>1
      <4>3. s \in Seq(nodes \ {Root})
        BY <4>2
      <4> QED BY <4>2, <4>3
    <3> QED BY <3>1, <3>2
  <2>2. kids \in [nodes -> Seq(nodes \ {Root})]
    BY <1>4, <2>1
  <2>3. ASSUME NEW f \in nodes, NEW g \in nodes, NEW i \in DOMAIN kids[f], NEW j \in DOMAIN kids[g],
               kids[f][i] = kids[g][j]
        PROVE  f = g /\ i = j
    <3>1. DOMAIN <<>> = {}
      OBVIOUS
    <3>2. f \in N /\ g \in N
      BY <1>3, <1>7, <3>1
    <3>3. i \in DOMAIN p.kids[f] /\ j \in DOMAIN p.kids[g] /\ p.kids[f][i] = p.kids[g][j]
      BY <1>7, <2>3, <3>2
    <3>4. PICK k : k = p.kids
      OBVIOUS
    <3>5. Placed(N, k) /\ i \in DOMAIN k[f] /\ j \in DOMAIN k[g] /\ k[f][i] = k[g][j]
      BY <1>2, <3>3, <3>4
    <3> QED BY <3>2, <3>5, PlacedOnce
  <2> QED BY <2>2, <2>3, Zenon DEF Placed
<1>10. \A f \in nodes : \A i \in DOMAIN kids[f] : kids[f][i] # id
  <2>1. DOMAIN <<>> = {}
    OBVIOUS
  <2> QED BY <1>3, <1>7, <1>8, <2>1
<1>11. id \in nodes \ {Root} /\ folder \in nodes /\ Root \in nodes /\ nodes \subseteq Id
  BY <1>2, <1>3
<1>12. PICK new : new = [f \in nodes |-> IF f = folder THEN Append(kids[f], id) ELSE kids[f]]
  OBVIOUS
<1>13. Placed(nodes, new)
  <2>1. new = Attached(nodes, kids, folder, id)
    BY <1>12, Zenon DEF Attached
  <2>2. Absent(nodes, kids, id)
    BY <1>10, Zenon DEF Absent
  <2> QED BY <1>9, <1>11, <2>1, <2>2, AttachPlaced
<1>14. new = [n \in nodes |-> CASE n = id     -> <<>>
                                [] n = folder -> Append(p.kids[n], id)
                                [] OTHER      -> p.kids[n]]
  BY <1>3, <1>7, <1>12
<1>15. q = [node |-> node, kids |-> new]
  BY <1>5, <1>14, <1>a, <1>b, Zenon DEF Added
<1>16. IsProfile(q)
  BY <1>6, <1>11, <1>13, <1>15, ProfileOfParts
<1>17. KindsKept(q)
  <2>1. q.node = node /\ DOMAIN node = nodes
    BY <1>5, <1>15
  <2>2. KindsKept(p)
    BY DEF IsEdited
  <2>3. \A n \in nodes \cap DOMAIN Seed.node : n \in DOMAIN p.node /\ node[n] = p.node[n]
    BY <1>1, <1>3, <1>5
  <2> QED BY <2>1, <2>2, <2>3 DEF KindsKept
<1>18. IsEdited(q)
  BY <1>16, <1>17 DEF IsEdited
<1> QED BY <1>b, <1>18, Zenon

(* A node is deleted with all that is in it (DeleteNode).                  *)
LEMMA DeleteKeepsProfile ==
  ASSUME NEW p, IsEdited(p), NEW id \in DOMAIN p.node \ {Root},
         NEW left, left = DOMAIN p.node \ Subtree(p, id), NEW q,
         q = [node |-> [n \in left |-> p.node[n]], kids |-> [n \in left |-> Detach(p, id)[n]]]
  PROVE  IsEdited(q)
<1>1. PICK N, D, T : N = DOMAIN p.node /\ D = Detach(p, id) /\ T = Subtree(p, id)
  OBVIOUS
<1>2. IsProfile(p) /\ KindsKept(p)
  BY DEF IsEdited
<1>3. N \subseteq Id /\ p.node \in [N -> Value] /\ Placed(N, p.kids) /\ Root \in N
  BY <1>1, <1>2, ProfileParts
<1>4. /\ id \in T /\ Root \notin T
      /\ \A f \in N \ T : \A i \in DOMAIN p.kids[f] : p.kids[f][i] # id => p.kids[f][i] \notin T
  BY <1>1, <1>2, SubtreeAlone, Zenon
<1>5. /\ Placed(N, D)
      /\ \A f \in N : \A i \in DOMAIN D[f] :
           D[f][i] # id /\ \E j \in DOMAIN p.kids[f] : D[f][i] = p.kids[f][j]
  <2>1. Detached(N, p.kids, id, D)
    BY <1>1, <1>3, DetachPlaced, Zenon
  <2> QED BY <2>1, Zenon DEF Detached
<1>6. left = N \ T /\ Root \in left /\ left \subseteq Id
  BY <1>1, <1>3, <1>4
<1>7. PICK node, kids : node = [n \in left |-> p.node[n]] /\ kids = [n \in left |-> D[n]]
  OBVIOUS
<1>8. node \in [left -> Value]
  BY <1>3, <1>6, <1>7
<1>9. D \in [N -> Seq(N \ {Root})]
  BY <1>5, Zenon DEF Placed
<1>10. ASSUME NEW f \in left PROVE kids[f] \in Seq(left \ {Root})
  <2>1. PICK s : s = D[f]
    OBVIOUS
  <2>2. s \in Seq(N \ {Root}) /\ s = kids[f]
    BY <1>6, <1>7, <1>9, <2>1
  <2>3. \A i \in DOMAIN s : s[i] \notin T
    BY <1>4, <1>5, <1>6, <2>1
  <2>4. \A i \in DOMAIN s : s[i] \in left \ {Root}
    BY <1>6, <2>2, <2>3
  <2>5. s \in Seq(left \ {Root})
    BY <2>2, <2>4
  <2> QED BY <2>2, <2>5
<1>11. Placed(left, kids)
  <2>1. kids \in [left -> Seq(left \ {Root})]
    BY <1>7, <1>10
  <2>2. ASSUME NEW f \in left, NEW g \in left, NEW i \in DOMAIN kids[f], NEW j \in DOMAIN kids[g],
               kids[f][i] = kids[g][j]
        PROVE  f = g /\ i = j
    <3>1. f \in N /\ g \in N /\ kids[f] = D[f] /\ kids[g] = D[g]
      BY <1>6, <1>7
    <3>2. i \in DOMAIN D[f] /\ j \in DOMAIN D[g] /\ D[f][i] = D[g][j]
      BY <2>2, <3>1
    <3> QED BY <1>5, <3>1, <3>2, PlacedOnce
  <2> QED BY <2>1, <2>2, Zenon DEF Placed
<1>12. q = [node |-> node, kids |-> kids]
  BY <1>1, <1>7, Zenon
<1>13. IsProfile(q)
  BY <1>6, <1>8, <1>11, <1>12, ProfileOfParts
<1>14. KindsKept(q)
  <2>1. q.node = node /\ DOMAIN node = left /\ \A n \in left : n \in DOMAIN p.node /\ node[n] = p.node[n]
    BY <1>1, <1>6, <1>7, <1>12
  <2> QED BY <1>2, <2>1 DEF KindsKept
<1> QED BY <1>13, <1>14 DEF IsEdited

(* A change of the values of nodes, their kinds apart. *)
LEMMA ValuesKeepProfile ==
  ASSUME NEW p, IsEdited(p), NEW node \in [DOMAIN p.node -> Value],
         \A n \in DOMAIN p.node : node[n].kind = p.node[n].kind,
         NEW q, q = [node |-> node, kids |-> p.kids]
  PROVE  IsEdited(q)
<1>1. PICK N, kids : N = DOMAIN p.node /\ kids = p.kids
  OBVIOUS
<1>2. N \subseteq Id /\ Placed(N, kids) /\ Root \in N
  BY <1>1, ProfileParts DEF IsEdited
<1>3. node \in [N -> Value] /\ q = [node |-> node, kids |-> kids]
  BY <1>1
<1>4. IsProfile(q)
  BY <1>2, <1>3, ProfileOfParts
<1>5. KindsKept(q)
  <2>1. q.node = node /\ DOMAIN node = DOMAIN p.node
    BY <1>3
  <2> QED BY <2>1 DEF IsEdited, KindsKept
<1> QED BY <1>4, <1>5 DEF IsEdited

(* RenameNode and ChangeUrl. *)
LEMMA FieldKeepsProfile ==
  ASSUME NEW p, IsEdited(p), NEW id \in DOMAIN p.node
  PROVE  /\ \A name \in Name : IsEdited([p EXCEPT !.node[id].name = name])
         /\ \A url \in Url : IsEdited([p EXCEPT !.node[id].url = url])
<1>1. p = [node |-> p.node, kids |-> p.kids] /\ p.node \in [DOMAIN p.node -> Value]
  BY ProfileParts DEF IsEdited
<1>2. ASSUME NEW name \in Name PROVE IsEdited([p EXCEPT !.node[id].name = name])
  <2>1. PICK node : node = [p.node EXCEPT ![id].name = name]
    OBVIOUS
  <2>2. node \in [DOMAIN p.node -> Value] /\ \A n \in DOMAIN p.node : node[n].kind = p.node[n].kind
    BY <1>1, <2>1 DEF Value
  <2>3. [p EXCEPT !.node[id].name = name] = [node |-> node, kids |-> p.kids]
    BY <1>1, <2>1
  <2> QED BY <2>2, <2>3, ValuesKeepProfile
<1>3. ASSUME NEW url \in Url PROVE IsEdited([p EXCEPT !.node[id].url = url])
  <2>1. PICK node : node = [p.node EXCEPT ![id].url = url]
    OBVIOUS
  <2>2. node \in [DOMAIN p.node -> Value] /\ \A n \in DOMAIN p.node : node[n].kind = p.node[n].kind
    BY <1>1, <2>1 DEF Value
  <2>3. [p EXCEPT !.node[id].url = url] = [node |-> node, kids |-> p.kids]
    BY <1>1, <2>1
  <2> QED BY <2>2, <2>3, ValuesKeepProfile
<1> QED BY <1>2, <1>3

(* A node is moved to the end of another folder (MoveNode).                *)
LEMMA MoveKeepsProfile ==
  ASSUME NEW p, IsEdited(p), NEW id \in DOMAIN p.node \ {Root}, NEW folder \in Folders(p),
         NEW moved, moved = [Detach(p, id) EXCEPT ![folder] = Append(@, id)]
  PROVE  IsEdited([p EXCEPT !.kids = moved])
<1>1. PICK N, D : N = DOMAIN p.node /\ D = Detach(p, id)
  OBVIOUS
<1>2. /\ N \subseteq Id /\ p.node \in [N -> Value] /\ Placed(N, p.kids) /\ Root \in N
      /\ p = [node |-> p.node, kids |-> p.kids]
  BY <1>1, ProfileParts DEF IsEdited
<1>3. Placed(N, D) /\ Absent(N, D, id)
  <2>1. Detached(N, p.kids, id, D)
    BY <1>1, <1>2, DetachPlaced, Zenon
  <2> QED BY <2>1, Zenon DEF Detached, Absent
<1>4. folder \in N /\ id \in N \ {Root}
  BY <1>1 DEF Folders
<1>5. moved = Attached(N, D, folder, id)
  <2>1. D \in [N -> Seq(N \ {Root})]
    BY <1>3, Zenon DEF Placed
  <2>2. moved = [D EXCEPT ![folder] = Append(D[folder], id)]
    BY <1>1
  <2>3. moved = [f \in N |-> IF f = folder THEN Append(D[f], id) ELSE D[f]]
    BY <1>4, <2>1, <2>2
  <2> QED BY <2>3, Zenon DEF Attached
<1>6. Placed(N, moved)
  <2>1. Placed(N, Attached(N, D, folder, id))
    BY <1>3, <1>4, AttachPlaced
  <2> QED BY <1>5, <2>1, Zenon
<1>7. PICK q : q = [p EXCEPT !.kids = moved]
  OBVIOUS
<1>8. q = [node |-> p.node, kids |-> moved]
  BY <1>2, <1>7
<1>9. IsProfile(q)
  BY <1>2, <1>6, <1>8, ProfileOfParts
<1>10. KindsKept(q)
  BY <1>8 DEF IsEdited, KindsKept
<1>11. IsEdited(q)
  BY <1>9, <1>10 DEF IsEdited
<1> QED BY <1>7, <1>11, Zenon

(***************************************************************************)
(* The base is the snapshot the edits started from, if there is one, and   *)
(* each side has a profile in which every node of that snapshot has the    *)
(* kind it had there.                                                      *)
(***************************************************************************)
MergeInv ==
  /\ base \in {{}, {Snapshot(Seed)}}
  /\ DOMAIN profile = Side
  /\ \A side \in Side : IsEdited(profile[side])

(* An edit that leaves a profile whole keeps the invariant (Edit).         *)
LEMMA EditKeepsInv ==
  ASSUME MergeInv, NEW side \in Side, NEW p, IsEdited(p), Edit(side, p)
  PROVE  MergeInv'
<1>1. base' = base /\ profile' = [profile EXCEPT ![side] = p]
  BY DEF Edit
<1>2. base' \in {{}, {Snapshot(Seed)}}
  BY <1>1 DEF MergeInv
<1>3. DOMAIN profile' = Side /\ profile'[side] = p
      /\ \A other \in Side \ {side} : profile'[other] = profile[other]
  BY <1>1 DEF MergeInv
<1>4. \A other \in Side : IsEdited(profile'[other])
  BY <1>3 DEF MergeInv
<1> QED BY <1>2, <1>3, <1>4 DEF MergeInv

(* Whatever the two users do, both sides have profiles (Edit).             *)
THEOREM ProfilesStayWhole == Spec => []MergeInv
<1>1. Init => MergeInv
  <2>1. IsEdited(Seed)
    BY SeedAssumption DEF IsEdited, KindsKept
  <2> QED BY <2>1 DEF Init, MergeInv
<1>2. MergeInv /\ [Next]_vars => MergeInv'
  <2>1. SUFFICES ASSUME MergeInv, [Next]_vars PROVE MergeInv'
    OBVIOUS
  <2>2. \A side \in Side : IsEdited(profile[side])
    BY <2>1 DEF MergeInv
  <2>3. ASSUME NEW side \in Side, AddNode(side) PROVE MergeInv'
    <3>1. PICK id \in NewId \ DOMAIN profile[side].node, folder \in Folders(profile[side]),
               value \in NewValue : Edit(side, Added(profile[side], id, folder, value))
      BY <2>3, Zenon DEF AddNode, Added
    <3>2. IsEdited(Added(profile[side], id, folder, value))
      <4>1. PICK p : p = profile[side]
        OBVIOUS
      <4>2. IsEdited(p) /\ id \in NewId \ DOMAIN p.node /\ folder \in Folders(p)
        BY <2>2, <3>1, <4>1
      <4>3. IsEdited(Added(p, id, folder, value))
        BY <4>2, AddKeepsProfile
      <4> QED BY <4>1, <4>3, Zenon
    <3> QED BY <2>1, <3>1, <3>2, EditKeepsInv, Zenon
  <2>4. ASSUME NEW side \in Side, DeleteNode(side) PROVE MergeInv'
    <3>1. PICK p : p = profile[side]
      OBVIOUS
    <3>2. PICK id \in DOMAIN p.node \ {Root} :
            \E left, q :
              /\ left = DOMAIN p.node \ Subtree(p, id)
              /\ q = [node |-> [n \in left |-> p.node[n]], kids |-> [n \in left |-> Detach(p, id)[n]]]
              /\ Edit(side, q)
      BY <2>4, <3>1, Zenon DEF DeleteNode
    <3>3. PICK left, q :
            /\ left = DOMAIN p.node \ Subtree(p, id)
            /\ q = [node |-> [n \in left |-> p.node[n]], kids |-> [n \in left |-> Detach(p, id)[n]]]
            /\ Edit(side, q)
      BY <3>2, Zenon
    <3>4. IsEdited(q)
      BY <2>2, <3>1, <3>3, DeleteKeepsProfile
    <3> QED BY <2>1, <3>3, <3>4, EditKeepsInv, Zenon
  <2>5. ASSUME NEW side \in Side, RenameNode(side) PROVE MergeInv'
    <3>1. PICK p : p = profile[side]
      OBVIOUS
    <3>2. PICK id \in DOMAIN p.node \ {Root}, name \in Name : Edit(side, [p EXCEPT !.node[id].name = name])
      BY <2>5, <3>1, Zenon DEF RenameNode
    <3>3. IsEdited([p EXCEPT !.node[id].name = name])
      BY <2>2, <3>1, FieldKeepsProfile
    <3> QED BY <2>1, <3>2, <3>3, EditKeepsInv, Zenon
  <2>6. ASSUME NEW side \in Side, ChangeUrl(side) PROVE MergeInv'
    <3>1. PICK p : p = profile[side]
      OBVIOUS
    <3>2. PICK id \in DOMAIN p.node \ Folders(p), url \in Url : Edit(side, [p EXCEPT !.node[id].url = url])
      BY <2>6, <3>1, Zenon DEF ChangeUrl
    <3>3. IsEdited([p EXCEPT !.node[id].url = url])
      BY <2>2, <3>1, FieldKeepsProfile
    <3> QED BY <2>1, <3>2, <3>3, EditKeepsInv, Zenon
  <2>7. ASSUME NEW side \in Side, MoveNode(side) PROVE MergeInv'
    <3>1. PICK p : p = profile[side]
      OBVIOUS
    <3>2. PICK id \in DOMAIN p.node \ {Root} :
            \E folder \in Folders(p) \ Subtree(p, id) :
              Edit(side, [p EXCEPT !.kids = [Detach(p, id) EXCEPT ![folder] = Append(@, id)]])
      BY <2>7, <3>1, Zenon DEF MoveNode
    <3>3. PICK folder \in Folders(p) \ Subtree(p, id) :
            Edit(side, [p EXCEPT !.kids = [Detach(p, id) EXCEPT ![folder] = Append(@, id)]])
      BY <3>2, Zenon
    <3>4. PICK moved : moved = [Detach(p, id) EXCEPT ![folder] = Append(@, id)]
      OBVIOUS
    <3>5. IsEdited([p EXCEPT !.kids = moved])
      BY <2>2, <3>1, <3>3, <3>4, MoveKeepsProfile
    <3>6. Edit(side, [p EXCEPT !.kids = moved])
      BY <3>3, <3>4, Zenon
    <3> QED BY <2>1, <3>5, <3>6, EditKeepsInv, Zenon
  <2>8. CASE UNCHANGED vars
    BY <2>1, <2>8 DEF vars, MergeInv
  <2> QED BY <2>1, <2>3, <2>4, <2>5, <2>6, <2>7, <2>8 DEF Next
<1> QED BY <1>1, <1>2, PTL DEF Spec

-----------------------------------------------------------------------------
(***************************************************************************)
(* Snapshots.  The tree under a node of a profile has the node's id and    *)
(* kind, and its children are the trees under the node's children.         *)
(***************************************************************************)
TreeOf(p, d, id, t) ==
  /\ t \in Node[d + 1]
  /\ t.id = id /\ t.kind = p.node[id].kind
  /\ \A i \in DOMAIN t.children :
       \E e \in Nat, c \in DOMAIN p.node : t.children[i] = Trees(p)[e][c]

TreesTyped(p, d) == \A id \in DOMAIN p.node : TreeOf(p, d, id, Trees(p)[d][id])

(* A tree is a node with children that are trees of the depth before.      *)
LEMMA TreeAtRoot ==
  ASSUME NEW p, NEW d \in Nat, NEW id \in DOMAIN p.node, NEW kids,
         kids = IF d = 0 THEN <<>>
                ELSE [i \in DOMAIN p.kids[id] |-> Trees(p)[d - 1][p.kids[id][i]]]
  PROVE  Trees(p)[d][id] = [id |-> id, kind |-> p.node[id].kind, name |-> p.node[id].name,
                            url |-> p.node[id].url, children |-> kids]
<1>1. PICK T : T = Trees(p)
  OBVIOUS
<1>2. T = [e \in Nat |-> TreesOver(p, e, T[e - 1])]
  BY <1>1, TreesEquation
<1>3. T[d] = TreesOver(p, d, T[d - 1])
  BY <1>2, Zenon
<1>4. T[d][id] = [id |-> id, kind |-> p.node[id].kind, name |-> p.node[id].name,
                  url |-> p.node[id].url,
                  children |-> IF d = 0 THEN <<>>
                               ELSE [i \in DOMAIN p.kids[id] |-> T[d - 1][p.kids[id][i]]]]
  BY <1>3, Zenon DEF TreesOver
<1> QED BY <1>1, <1>4, Zenon

(* A node with typed children is a tree. *)
LEMMA TreeOfChildren ==
  ASSUME NEW p, IsProfile(p), NEW d \in Nat, NEW id \in DOMAIN p.node,
         NEW kids \in Siblings(Node[d]),
         Trees(p)[d][id] = [id |-> id, kind |-> p.node[id].kind, name |-> p.node[id].name,
                            url |-> p.node[id].url, children |-> kids],
         \A i \in DOMAIN kids : \E e \in Nat, c \in DOMAIN p.node : kids[i] = Trees(p)[e][c]
  PROVE  TreeOf(p, d, id, Trees(p)[d][id])
<1>1. PICK t, v : t = Trees(p)[d][id] /\ v = p.node[id]
  OBVIOUS
<1>2. v \in Value /\ id \in Id
  BY <1>1, ProfileParts
<1>3. t = [id |-> id, kind |-> v.kind, name |-> v.name, url |-> v.url, children |-> kids]
  BY <1>1, Zenon
<1>4. /\ Node[d + 1] = [id : Id, kind : Kind, name : Name, url : Url \cup {NoUrl},
                        children : Siblings(Node[d])]
  BY NodeOfNodes
<1>5. t \in Node[d + 1]
  BY <1>2, <1>3, <1>4 DEF Value
<1>6. t.id = id /\ t.kind = v.kind /\ t.children = kids
  BY <1>3
<1>7. \A i \in DOMAIN t.children : \E e \in Nat, c \in DOMAIN p.node : t.children[i] = Trees(p)[e][c]
  BY <1>6, Zenon
<1> QED BY <1>1, <1>5, <1>6, <1>7, Zenon DEF TreeOf

(* The trees of a profile are nodes of their depth (read_bookmarks).       *)
LEMMA TreesAreTyped ==
  ASSUME NEW p, IsProfile(p), NEW d \in Nat
  PROVE  TreesTyped(p, d)
<1> DEFINE S == {e \in Nat : TreesTyped(p, e)}
<1>1. TreesTyped(p, 0)
  <2>1. ASSUME NEW id \in DOMAIN p.node PROVE TreeOf(p, 0, id, Trees(p)[0][id])
    <3>1. Trees(p)[0][id] = [id |-> id, kind |-> p.node[id].kind, name |-> p.node[id].name,
                             url |-> p.node[id].url, children |-> <<>>]
      BY TreeAtRoot
    <3>2. <<>> \in Siblings(Node[0]) /\ DOMAIN <<>> = {}
      BY NoSiblings
    <3> QED BY <3>1, <3>2, TreeOfChildren
  <2> QED BY <2>1, Zenon DEF TreesTyped
<1>2. ASSUME NEW n \in Nat, TreesTyped(p, n) PROVE TreesTyped(p, n + 1)
  <2>1. ASSUME NEW id \in DOMAIN p.node PROVE TreeOf(p, n + 1, id, Trees(p)[n + 1][id])
    <3>1. PICK T, s : T = Trees(p)[n] /\ s = p.kids[id]
      OBVIOUS
    <3>2. PICK kids : kids = [i \in DOMAIN s |-> T[s[i]]]
      OBVIOUS
    <3>3. Trees(p)[n + 1][id] = [id |-> id, kind |-> p.node[id].kind, name |-> p.node[id].name,
                                 url |-> p.node[id].url, children |-> kids]
      <4>1. (n + 1) - 1 = n /\ n + 1 # 0 /\ n + 1 \in Nat
        OBVIOUS
      <4>2. kids = IF n + 1 = 0 THEN <<>>
                   ELSE [i \in DOMAIN p.kids[id] |-> Trees(p)[(n + 1) - 1][p.kids[id][i]]]
        BY <3>1, <3>2, <4>1, Zenon
      <4> QED BY <4>1, <4>2, TreeAtRoot
    <3>4. s \in Seq(DOMAIN p.node \ {Root})
      BY <3>1, ProfileParts
    <3>5. \A i \in DOMAIN s : s[i] \in DOMAIN p.node
      BY <3>4
    <3>6. \A c \in DOMAIN p.node : T[c] \in Node[n + 1] /\ T[c].id = c
      BY <1>2, <3>1, Zenon DEF TreesTyped, TreeOf
    <3>7. \A i, j \in DOMAIN s : s[i] = s[j] => i = j
      <4>1. PICK k : k = p.kids
        OBVIOUS
      <4>2. Placed(DOMAIN p.node, k)
        BY <4>1, ProfileParts, Zenon
      <4>3. ASSUME NEW i \in DOMAIN k[id], NEW j \in DOMAIN k[id], k[id][i] = k[id][j] PROVE i = j
        BY <4>2, <4>3, PlacedOnce
      <4> QED BY <3>1, <4>1, <4>3
    <3>8. kids \in Siblings(Node[n + 1])
      <4>1. kids \in Seq(Node[n + 1])
        <5>1. s \in Seq(DOMAIN p.node) /\ \A i \in DOMAIN s : T[s[i]] \in Node[n + 1]
          BY <3>4, <3>5, <3>6
        <5>2. PICK X : X = Node[n + 1]
          OBVIOUS
        <5>3. PICK k \in Nat : DOMAIN s = 1..k
          BY <5>1
        <5>4. kids \in [1..k -> X]
          BY <3>2, <5>1, <5>2, <5>3, Zenon
        <5> QED BY <5>2, <5>4
      <4>2. \A i, j \in DOMAIN kids : kids[i].id = kids[j].id => i = j
        BY <3>2, <3>5, <3>6, <3>7
      <4> QED BY <4>1, <4>2, Zenon DEF Siblings
    <3>9. \A i \in DOMAIN kids : \E e \in Nat, c \in DOMAIN p.node : kids[i] = Trees(p)[e][c]
      BY <3>1, <3>2, <3>5
    <3> QED BY <3>3, <3>8, <3>9, TreeOfChildren
  <2> QED BY <2>1, Zenon DEF TreesTyped
<1>3. 0 \in S /\ \A n \in Nat : n \in S => n + 1 \in S
  BY <1>1, <1>2
<1> HIDE DEF S
<1>4. \A e \in Nat : e \in S
  BY <1>3, NatSetInduction
<1> QED BY <1>4 DEF S

(* No profile is without its root, so that there is a tree.                *)
LEMMA DepthPositive == MaxDepth \in Nat /\ MaxDepth - 1 \in Nat /\ (MaxDepth - 1) + 1 = MaxDepth
<1>1. IsFiniteSet(Id) /\ MaxDepth \in Nat /\ Cardinality(Id) <= MaxDepth
  BY DepthAssumption
<1>2. Root \in Id
  BY SeedAssumption, ProfileParts
<1>3. Cardinality(Id) \in Nat /\ Cardinality(Id) # 0
  BY <1>1, <1>2, FS_EmptySet, FS_CardinalityType
<1> QED BY <1>1, <1>3

(* A snapshot of a profile is the tree under its root.                     *)
IsSnapshot(p, nodes) ==
  /\ nodes \in Siblings(Node[MaxDepth])
  /\ \A i \in DOMAIN nodes : \E e \in Nat, c \in DOMAIN p.node : nodes[i] = Trees(p)[e][c]

(* read_bookmarks reads a list of nodes.                                   *)
LEMMA SnapshotType ==
  ASSUME NEW p, IsProfile(p)
  PROVE  IsSnapshot(p, Snapshot(p))
<1>1. PICK d, t : d = MaxDepth - 1 /\ t = Trees(p)[d][Root]
  OBVIOUS
<1>2. d \in Nat /\ d + 1 = MaxDepth
  BY <1>1, DepthPositive
<1>3. Root \in DOMAIN p.node
  BY ProfileParts
<1>4. t \in Node[MaxDepth]
  BY <1>1, <1>2, <1>3, TreesAreTyped DEF TreesTyped, TreeOf
<1>5. <<t>> \in Siblings(Node[MaxDepth])
  <2>1. PICK w : w = <<t>>
    OBVIOUS
  <2>a. PICK X : X = Node[MaxDepth]
    OBVIOUS
  <2>b. w \in Seq(X)
    BY <1>4, <2>1, <2>a
  <2>c. DOMAIN w = 1..1
    BY <2>1
  <2>2. w \in Seq(Node[MaxDepth]) /\ DOMAIN w = 1..1
    BY <2>a, <2>b, <2>c, Zenon
  <2>3. \A i, j \in DOMAIN w : i = j
    BY <2>2
  <2> QED BY <2>1, <2>2, <2>3, Zenon DEF Siblings
<1>6. Snapshot(p) = <<t>>
  BY <1>1 DEF Snapshot
<1>7. \A i \in DOMAIN <<t>> : \E e \in Nat, c \in DOMAIN p.node : <<t>>[i] = Trees(p)[e][c]
  BY <1>1, <1>2, <1>3
<1> QED BY <1>5, <1>6, <1>7, ZenonT(30) DEF IsSnapshot

(* The trees of a state: those of the two profiles, and of the profile the *)
(* edits started from or of none.                                          *)
LEMMA TreesOfState ==
  ASSUME MergeInv
  PROVE  /\ Base \in Siblings(Node[MaxDepth])
         /\ Local \in Siblings(Node[MaxDepth])
         /\ Remote \in Siblings(Node[MaxDepth])
         /\ \A x, y : Merge(base, x, y) = MergeChildren(MergeAt[MaxDepth], Base, x, y)
         /\ IsSnapshot(Seed, Base)
         /\ IsSnapshot(profile["local"], Local) /\ IsSnapshot(profile["remote"], Remote)
<1>1. IsProfile(Seed) /\ IsProfile(profile["local"]) /\ IsProfile(profile["remote"])
  BY SeedAssumption DEF MergeInv, IsEdited, Side
<1>2. IsSnapshot(Seed, Snapshot(Seed))
  BY <1>1, SnapshotType, Zenon
<1>3. IsSnapshot(profile["local"], Local) /\ IsSnapshot(profile["remote"], Remote)
  BY <1>1, SnapshotType, Zenon DEF Local, Remote
<1>4. IsSnapshot(Seed, <<>>)
  <2>1. PICK e : e = <<>>
    OBVIOUS
  <2>2. e \in Siblings(Node[MaxDepth]) /\ DOMAIN e = {}
    BY <2>1, NoSiblings
  <2>3. IsSnapshot(Seed, e)
    BY <2>2, Zenon DEF IsSnapshot
  <2> QED BY <2>1, <2>3, Zenon
<1>5. Base = <<>> \/ Base = Snapshot(Seed)
  <2>1. CASE base = {}
    BY <2>1 DEF Base
  <2>2. CASE base # {}
    <3>1. base = {Snapshot(Seed)}
      BY <2>2 DEF MergeInv
    <3>2. The(base) = Snapshot(Seed)
      BY <3>1, TheOne
    <3> QED BY <2>2, <3>2 DEF Base
  <2> QED BY <2>1, <2>2
<1>6. IsSnapshot(Seed, Base)
  BY <1>2, <1>4, <1>5, Zenon
<1>7. \A x, y : Merge(base, x, y) = MergeChildren(MergeAt[MaxDepth], Base, x, y)
  BY Zenon DEF Merge, Base
<1>8. /\ Base \in Siblings(Node[MaxDepth])
      /\ Local \in Siblings(Node[MaxDepth])
      /\ Remote \in Siblings(Node[MaxDepth])
  BY <1>3, <1>6, Zenon DEF IsSnapshot
<1> QED BY <1>3, <1>6, <1>7, <1>8, Zenon

(* A resumed sync merges what it uploaded with the same profile, and gets  *)
(* what it uploaded (main.rs:1240-1265).                                   *)
THEOREM ResumedMergeStable == Spec => []ResumedMergeIsStable
<1>1. ASSUME MergeInv PROVE ResumedMergeIsStable
  <2>1. PICK d : d = MaxDepth
    OBVIOUS
  <2>2. d \in Nat /\ Stable(d)
    BY <2>1, DepthPositive, MergeIsStable
  <2>3. PICK F, L, R : F = Base /\ L = Local /\ R = Remote
    OBVIOUS
  <2>4. F \in Siblings(Node[d]) /\ L \in Siblings(Node[d]) /\ R \in Siblings(Node[d])
    BY <1>1, <2>1, <2>3, TreesOfState, Zenon
  <2>5. PICK merged : merged = MergeChildren(MergeAt[d], F, L, R).nodes
    OBVIOUS
  <2>6. MergeChildren(MergeAt[d], F, L, merged).nodes = merged
    BY <2>2, <2>4, <2>5, StableChildren, Zenon
  <2>7. \A x, y : Merge(base, x, y) = MergeChildren(MergeAt[d], F, x, y)
    BY <1>1, <2>1, <2>3, TreesOfState, Zenon
  <2>8. Merged.nodes = merged
    BY <2>3, <2>5, <2>7, Zenon DEF Merged
  <2>9. Merge(base, Local, merged).nodes = merged
    BY <2>3, <2>6, <2>7, Zenon
  <2> QED BY <2>8, <2>9, Zenon DEF ResumedMergeIsStable
<1> QED BY <1>1, ProfilesStayWhole, PTL

-----------------------------------------------------------------------------
(***************************************************************************)
(* Places.  Walk(nodes, path, k) is the node at the first k ids of a path, *)
(* in a set of at most one; at k = 0 that is the folder of the roots.      *)
(***************************************************************************)
Walk(nodes, path, k) == {e[2] : e \in {e \in Levels(nodes)[k] : e[1] = SubSeq(path, 1, k)}}

\* The children of the node, none if there is none
Under(option) == IF option = {} THEN <<>> ELSE The(option).children

\* What the start of a path is
IsStart(path, k, s) == s \in Seq(Id) /\ Len(s) = k /\ \A i \in 1..k : s[i] = path[i]

(* The first ids of a path. *)
LEMMA StartType ==
  ASSUME NEW path \in Seq(Id), NEW k \in 0..Len(path)
  PROVE  IsStart(path, k, SubSeq(path, 1, k))
<1>1. PICK u : u = SubSeq(path, 1, k)
  OBVIOUS
<1>2. k \in Nat /\ 1 <= k + 1 /\ k <= Len(path) /\ 1 \in Nat /\ 1 <= 1
  OBVIOUS
<1>3. IsSlice(Id, path, 1, k, u)
  BY <1>1, <1>2, SliceType, Zenon
<1>4. u \in Seq(Id) /\ Len(u) = k - 1 + 1 /\ \A i \in 1..(k - 1 + 1) : u[i] = path[1 + i - 1]
  BY <1>3, Zenon DEF IsSlice
<1>5. k - 1 + 1 = k /\ \A i \in 1..k : 1 + i - 1 = i
  BY <1>2
<1>6. u \in Seq(Id) /\ Len(u) = k /\ \A i \in 1..k : u[i] = path[i]
  BY <1>4, <1>5
<1> QED BY <1>1, <1>6, Zenon DEF IsStart

(* Two sequences of one length with the same elements. *)
LEMMA SameSequence ==
  ASSUME NEW S, NEW s \in Seq(S), NEW t \in Seq(S), Len(s) = Len(t),
         \A i \in 1..Len(s) : s[i] = t[i]
  PROVE  s = t
OBVIOUS

(* A start and the id after it are a start, and of no other sequence.      *)
LEMMA StartAppended ==
  ASSUME NEW path \in Seq(Id), NEW k \in Nat, k < Len(path), NEW s \in Seq(Id), Len(s) = k, NEW id \in Id
  PROVE  Append(s, id) = SubSeq(path, 1, k + 1) <=> s = SubSeq(path, 1, k) /\ id = path[k + 1]
<1>1. PICK a, u, v : a = Append(s, id) /\ u = SubSeq(path, 1, k) /\ v = SubSeq(path, 1, k + 1)
  OBVIOUS
<1>2. IsStart(path, k, u) /\ IsStart(path, k + 1, v)
  BY <1>1, StartType
<1>3. /\ u \in Seq(Id) /\ Len(u) = k /\ \A i \in 1..k : u[i] = path[i]
      /\ v \in Seq(Id) /\ Len(v) = k + 1 /\ \A i \in 1..(k + 1) : v[i] = path[i]
  BY <1>2, Zenon DEF IsStart
<1>4. a \in Seq(Id) /\ Len(a) = k + 1 /\ a[k + 1] = id /\ \A i \in 1..k : a[i] = s[i]
  BY <1>1
<1>5. ASSUME a = v PROVE s = u /\ id = path[k + 1]
  <2>1. \A i \in 1..k : s[i] = u[i]
    BY <1>3, <1>4, <1>5
  <2>2. s = u
    BY <1>3, <2>1, SameSequence
  <2> QED BY <1>3, <1>4, <1>5, <2>2
<1>6. ASSUME s = u, id = path[k + 1] PROVE a = v
  <2>1. \A i \in 1..(k + 1) : a[i] = v[i]
    BY <1>3, <1>4, <1>6
  <2> QED BY <1>3, <1>4, <2>1, SameSequence
<1> QED BY <1>1, <1>5, <1>6, Zenon

(* The places of a level are the children of those above. *)
LEMMA LevelStep ==
  ASSUME NEW nodes, NEW k \in Nat
  PROVE  /\ Levels(nodes)[0] = {<<<<>>, [children |-> nodes]>>}
         /\ Levels(nodes)[k + 1] = UNION {{<<Append(e[1], n.id), n>> : n \in ToSet(e[2].children)}
                                            : e \in Levels(nodes)[k]}
<1>1. PICK V : V = Levels(nodes)
  OBVIOUS
<1>2. V = [d \in Nat |-> LevelUnder(nodes, d, V[d - 1])]
  BY <1>1, LevelEquation
<1>3. 0 \in Nat /\ k + 1 \in Nat /\ k + 1 # 0 /\ (k + 1) - 1 = k
  OBVIOUS
<1>4. V[0] = LevelUnder(nodes, 0, V[0 - 1]) /\ V[k + 1] = LevelUnder(nodes, k + 1, V[k])
  BY <1>2, <1>3, Zenon
<1>5. V[0] = {<<<<>>, [children |-> nodes]>>}
  BY <1>4, Zenon DEF LevelUnder
<1>6. V[k + 1] = UNION {{<<Append(e[1], n.id), n>> : n \in ToSet(e[2].children)} : e \in V[k]}
  BY <1>3, <1>4, Zenon DEF LevelUnder
<1> QED BY <1>1, <1>5, <1>6, Zenon

(* A place k levels down has a path of k ids and a node with children of   *)
(* the depth that is left.                                                 *)
IsPlace(k, e) ==
  /\ e = <<e[1], e[2]>>
  /\ e[1] \in Seq(Id) /\ Len(e[1]) = k
  /\ e[2].children \in Siblings(Node[MaxDepth - k])

LevelTyped(nodes, k) == \A e \in Levels(nodes)[k] : IsPlace(k, e)

(* The nodes of a folder, in its list and in the set of its nodes.         *)
LEMMA SiblingsSet ==
  ASSUME NEW d \in Nat, NEW nodes \in Siblings(Node[d]), NEW n \in ToSet(nodes)
  PROVE  n \in Node[d] /\ n.id \in Id
<1>1. PICK X : X = Node[d]
  OBVIOUS
<1>2. nodes \in Seq(X)
  BY <1>1 DEF Siblings
<1>3. n \in X
  BY <1>2 DEF ToSet
<1>4. d # 0
  BY <1>1, <1>3, NoNode
<1>5. PICK e \in Nat : e + 1 = d
  <2>1. d - 1 \in Nat /\ (d - 1) + 1 = d
    BY <1>4
  <2> QED BY <2>1
<1>6. n \in Node[e + 1]
  BY <1>1, <1>3, <1>5
<1>7. n.id \in Id
  <2>1. Node[e + 1] = [id : Id, kind : Kind, name : Name, url : Url \cup {NoUrl},
                       children : Siblings(Node[e])]
    BY NodeOfNodes
  <2>2. PICK C : C = Siblings(Node[e])
    OBVIOUS
  <2>3. n \in [id : Id, kind : Kind, name : Name, url : Url \cup {NoUrl}, children : C]
    BY <1>6, <2>1, <2>2, Zenon
  <2> QED BY <2>3
<1> QED BY <1>1, <1>3, <1>7

(* Every place of a level has as many ids as the level.                    *)
LEMMA LevelsAreTyped ==
  ASSUME NEW nodes \in Siblings(Node[MaxDepth]), NEW k \in Nat, k <= MaxDepth
  PROVE  LevelTyped(nodes, k)
<1> DEFINE S == {j \in Nat : j <= MaxDepth => LevelTyped(nodes, j)}
<1>0. MaxDepth \in Nat
  BY DepthPositive
<1>1. LevelTyped(nodes, 0)
  <2>1. ASSUME NEW e \in Levels(nodes)[0] PROVE IsPlace(0, e)
    <3>1. e = <<<<>>, [children |-> nodes]>>
      BY <2>1, LevelStep
    <3>2. PICK x, y : x = <<>> /\ y = [children |-> nodes] /\ e = <<x, y>>
      BY <3>1
    <3>3. x \in Seq(Id) /\ Len(x) = 0 /\ y.children = nodes
      BY <3>2
    <3>4. e[1] = x /\ e[2] = y
      BY <3>2
    <3>5. MaxDepth - 0 = MaxDepth
      BY <1>0
    <3> QED BY <3>2, <3>3, <3>4, <3>5, Zenon DEF IsPlace
  <2> QED BY <2>1, Zenon DEF LevelTyped
<1>2. ASSUME NEW j \in Nat, j + 1 <= MaxDepth, LevelTyped(nodes, j) PROVE LevelTyped(nodes, j + 1)
  <2>1. ASSUME NEW e \in Levels(nodes)[j + 1] PROVE IsPlace(j + 1, e)
    <3>0. PICK a \in Levels(nodes)[j] : \E n \in ToSet(a[2].children) : e = <<Append(a[1], n.id), n>>
      <4>1. Levels(nodes)[j + 1] = UNION {{<<Append(a[1], n.id), n>> : n \in ToSet(a[2].children)}
                                            : a \in Levels(nodes)[j]}
        BY LevelStep, Zenon
      <4> QED BY <2>1, <4>1, Zenon
    <3>1. PICK n \in ToSet(a[2].children) : e = <<Append(a[1], n.id), n>>
      BY <3>0
    <3>2. IsPlace(j, a)
      BY <1>2, Zenon DEF LevelTyped
    <3>3. PICK c : c = a[2].children
      OBVIOUS
    <3>4. a[1] \in Seq(Id) /\ Len(a[1]) = j /\ c \in Siblings(Node[MaxDepth - j])
      BY <3>2, <3>3, Zenon DEF IsPlace
    <3>5. PICK d \in Nat : d = MaxDepth - (j + 1) /\ d + 1 = MaxDepth - j
      <4>1. MaxDepth - (j + 1) \in Nat /\ (MaxDepth - (j + 1)) + 1 = MaxDepth - j
        BY <1>0, <1>2
      <4> QED BY <4>1
    <3>6. n \in Node[d + 1] /\ n.id \in Id
      <4>1. c \in Siblings(Node[d + 1]) /\ n \in ToSet(c) /\ d + 1 \in Nat
        BY <3>1, <3>3, <3>4, <3>5
      <4> QED BY <4>1, SiblingsSet
    <3>7. n.children \in Siblings(Node[MaxDepth - (j + 1)])
      BY <3>5, <3>6, NodeFields
    <3>8. PICK s : s = Append(a[1], n.id)
      OBVIOUS
    <3>9. s \in Seq(Id) /\ Len(s) = j + 1
      BY <3>4, <3>6, <3>8
    <3>10. e = <<s, n>> /\ e[1] = s /\ e[2] = n
      BY <3>1, <3>8
    <3> QED BY <3>7, <3>9, <3>10, Zenon DEF IsPlace
  <2> QED BY <2>1, Zenon DEF LevelTyped
<1>3. 0 \in S /\ \A n \in Nat : n \in S => n + 1 \in S
  <2>1. ASSUME NEW n \in Nat, n \in S, n + 1 <= MaxDepth PROVE LevelTyped(nodes, n + 1)
    <3>1. n <= MaxDepth
      BY <1>0, <2>1
    <3> QED BY <1>2, <2>1, <3>1
  <2> QED BY <1>1, <2>1
<1> HIDE DEF S
<1>4. \A n \in Nat : n \in S
  BY <1>3, NatSetInduction
<1> QED BY <1>4 DEF S

(* One step down a path. *)
LEMMA WalkStep ==
  ASSUME NEW nodes \in Siblings(Node[MaxDepth]), NEW path \in Seq(Id), NEW k \in Nat,
         k < Len(path), k < MaxDepth
  PROVE  \A n : n \in Walk(nodes, path, k + 1)
                  <=> \E x \in Walk(nodes, path, k) : n \in Lookup(x.children, path[k + 1])
<1>0. MaxDepth \in Nat
  BY DepthPositive
<1>1. PICK V, W, s, t, c : /\ V = Levels(nodes)[k] /\ W = Levels(nodes)[k + 1]
                           /\ s = SubSeq(path, 1, k) /\ t = SubSeq(path, 1, k + 1)
                           /\ c = path[k + 1]
  OBVIOUS
<1>2. W = UNION {{<<Append(e[1], n.id), n>> : n \in ToSet(e[2].children)} : e \in V}
  BY <1>1, LevelStep, Zenon
<1>3. \A n : n \in Walk(nodes, path, k) <=> \E e \in V : e[1] = s /\ n = e[2]
  BY <1>1 DEF Walk
<1>4. \A n : n \in Walk(nodes, path, k + 1) <=> \E e \in W : e[1] = t /\ n = e[2]
  BY <1>1 DEF Walk
<1>5. ASSUME NEW e \in V, NEW n \in ToSet(e[2].children)
      PROVE  Append(e[1], n.id) = t <=> e[1] = s /\ n.id = c
  <2>1. IsPlace(k, e)
    BY <1>0, <1>1, <1>5, LevelsAreTyped DEF LevelTyped
  <2>2. PICK C, u : C = e[2].children /\ u = e[1]
    OBVIOUS
  <2>3. u \in Seq(Id) /\ Len(u) = k /\ C \in Siblings(Node[MaxDepth - k])
    BY <2>1, <2>2, Zenon DEF IsPlace
  <2>4. MaxDepth - k \in Nat
    BY <1>0
  <2>5. n.id \in Id
    BY <1>5, <2>2, <2>3, <2>4, SiblingsSet
  <2>6. Append(u, n.id) = t <=> u = s /\ n.id = c
    BY <1>1, <2>3, <2>5, StartAppended
  <2> QED BY <2>2, <2>6, Zenon
<1>6. ASSUME NEW n, NEW e \in W, e[1] = t, n = e[2]
      PROVE  \E x \in Walk(nodes, path, k) : n \in Lookup(x.children, c)
  <2>1. PICK a \in V : \E m \in ToSet(a[2].children) : e = <<Append(a[1], m.id), m>>
    BY <1>2, <1>6, Zenon
  <2>2. PICK m \in ToSet(a[2].children) : e = <<Append(a[1], m.id), m>>
    BY <2>1
  <2>3. m = n /\ Append(a[1], m.id) = t
    BY <1>6, <2>2
  <2>4. a[1] = s /\ m.id = c
    BY <1>5, <2>3
  <2>5. a[2] \in Walk(nodes, path, k)
    BY <1>3, <2>4
  <2>6. n \in Lookup(a[2].children, c)
    BY <2>3, <2>4 DEF Lookup
  <2> QED BY <2>5, <2>6
<1>7. ASSUME NEW n, NEW x \in Walk(nodes, path, k), n \in Lookup(x.children, c)
      PROVE  n \in Walk(nodes, path, k + 1)
  <2>1. PICK e \in V : e[1] = s /\ x = e[2]
    BY <1>3, <1>7
  <2>2. n \in ToSet(e[2].children) /\ n.id = c
    BY <1>7, <2>1 DEF Lookup
  <2>3. Append(e[1], n.id) = t
    BY <1>5, <2>1, <2>2
  <2>4. PICK w : w = <<Append(e[1], n.id), n>>
    OBVIOUS
  <2>5. w \in W
    <3>1. w \in {<<Append(e[1], m.id), m>> : m \in ToSet(e[2].children)}
      BY <2>2, <2>4, Zenon
    <3>2. {<<Append(e[1], m.id), m>> : m \in ToSet(e[2].children)}
            \in {{<<Append(a[1], m.id), m>> : m \in ToSet(a[2].children)} : a \in V}
      BY Zenon
    <3> QED BY <1>2, <3>1, <3>2, Zenon
  <2>6. w[1] = t /\ w[2] = n
    BY <2>3, <2>4
  <2> QED BY <1>4, <2>5, <2>6
<1> QED BY <1>1, <1>4, <1>6, <1>7, Zenon

(* There is one node at a path, or none, and its children are of the depth *)
(* that is left.                                                           *)
WalkTyped(nodes, path, k) ==
  /\ Walk(nodes, path, k) = {} \/ \E x : Walk(nodes, path, k) = {x}
  /\ Under(Walk(nodes, path, k)) \in Siblings(Node[MaxDepth - k])

\* ... and the node below is one of these children
Descends(nodes, path, k) ==
  /\ Walk(nodes, path, k + 1) = Lookup(Under(Walk(nodes, path, k)), path[k + 1])
  /\ Walk(nodes, path, k + 1) \in Option(Node[MaxDepth - k])
  /\ \A n \in Walk(nodes, path, k + 1) : n.id = path[k + 1]

(* Under of nothing and of one node. *)
LEMMA UnderCases == Under({}) = <<>> /\ \A x : Under({x}) = x.children
<1>1. Under({}) = <<>>
  BY DEF Under
<1>2. ASSUME NEW x PROVE Under({x}) = x.children
  BY TheOne DEF Under
<1> QED BY <1>1, <1>2

(* The node below is one of the children of the node.                      *)
LEMMA WalkDescends ==
  ASSUME NEW nodes \in Siblings(Node[MaxDepth]), NEW path \in Seq(Id), NEW k \in Nat,
         k < Len(path), k < MaxDepth, WalkTyped(nodes, path, k)
  PROVE  Descends(nodes, path, k)
<1>1. PICK W, o, c, N : /\ W = Walk(nodes, path, k + 1) /\ o = Walk(nodes, path, k) /\ c = path[k + 1]
                        /\ N = Node[MaxDepth - k]
  OBVIOUS
<1>2. \A n : n \in W <=> \E x \in o : n \in Lookup(x.children, c)
  BY <1>1, WalkStep
<1>3. (o = {} \/ \E x : o = {x}) /\ Under(o) \in Siblings(N)
  BY <1>1, Zenon DEF WalkTyped
<1>4. W = Lookup(Under(o), c)
  <2>1. CASE o = {}
    <3>1. W = {}
      BY <1>2, <2>1
    <3> QED BY <2>1, <3>1, UnderCases, LookupEmpty
  <2>2. ASSUME NEW x, o = {x} PROVE W = Lookup(Under(o), c)
    <3>1. Under(o) = x.children
      BY <2>2, UnderCases
    <3>2. W = Lookup(x.children, c)
      BY <1>2, <2>2
    <3> QED BY <3>1, <3>2
  <2> QED BY <1>3, <2>1, <2>2
<1>5. W \in Option(N) /\ \A n \in W : n.id = c
  BY <1>3, <1>4, LookupType
<1> QED BY <1>1, <1>4, <1>5, Zenon DEF Descends

(* A walk starts at the roots. *)
LEMMA WalkStart ==
  ASSUME NEW nodes, NEW path \in Seq(Id)
  PROVE  \E r : Walk(nodes, path, 0) = {r} /\ Under({r}) = nodes
<1>1. PICK s : s = SubSeq(path, 1, 0)
  OBVIOUS
<1>2. s = <<>>
  <2>1. IsStart(path, 0, s)
    BY <1>1, StartType
  <2>2. s \in Seq(Id) /\ Len(s) = 0
    BY <2>1, Zenon DEF IsStart
  <2> QED BY <2>2
<1>3. PICK r, z, V : r = [children |-> nodes] /\ z = <<s, r>> /\ V = Levels(nodes)[0]
  OBVIOUS
<1>4. Levels(nodes)[0] = {<<<<>>, [children |-> nodes]>>}
  BY LevelStep
<1>5. V = {z}
  BY <1>2, <1>3, <1>4, Zenon
<1>6. z[1] = s /\ z[2] = r /\ r.children = nodes
  BY <1>3
<1>7. {e[2] : e \in {e \in V : e[1] = s}} = {r}
  BY <1>5, <1>6
<1>8. Walk(nodes, path, 0) = {r}
  BY <1>1, <1>3, <1>7, Zenon DEF Walk
<1>9. Under({r}) = nodes
  BY <1>6, UnderCases
<1> QED BY <1>8, <1>9

(* There is at most one node at a path.                                    *)
LEMMA WalksAreTyped ==
  ASSUME NEW nodes \in Siblings(Node[MaxDepth]), NEW path \in Seq(Id), NEW k \in Nat,
         k <= Len(path), k <= MaxDepth
  PROVE  WalkTyped(nodes, path, k)
<1> DEFINE S == {j \in Nat : j <= Len(path) /\ j <= MaxDepth => WalkTyped(nodes, path, j)}
<1>0. MaxDepth \in Nat /\ Len(path) \in Nat
  BY DepthPositive
<1>1. WalkTyped(nodes, path, 0)
  <2>1. PICK r : Walk(nodes, path, 0) = {r} /\ Under({r}) = nodes
    BY WalkStart
  <2>2. MaxDepth - 0 = MaxDepth
    BY <1>0
  <2> QED BY <2>1, <2>2, Zenon DEF WalkTyped
<1>2. ASSUME NEW j \in Nat, j + 1 <= Len(path), j + 1 <= MaxDepth, WalkTyped(nodes, path, j)
      PROVE  WalkTyped(nodes, path, j + 1)
  <2>1. j < Len(path) /\ j < MaxDepth
    BY <1>0, <1>2
  <2>2. Descends(nodes, path, j)
    BY <1>2, <2>1, WalkDescends
  <2>3. PICK W : W = Walk(nodes, path, j + 1)
    OBVIOUS
  <2>4. PICK d \in Nat : d = MaxDepth - (j + 1) /\ d + 1 = MaxDepth - j
    <3>1. MaxDepth - (j + 1) \in Nat /\ (MaxDepth - (j + 1)) + 1 = MaxDepth - j
      BY <1>0, <1>2
    <3> QED BY <3>1
  <2>5. W \in Option(Node[d + 1])
    BY <2>2, <2>3, <2>4, Zenon DEF Descends
  <2>6. W = {} \/ \E x \in Node[d + 1] : W = {x}
    BY <2>5, OptionCases
  <2>7. Under(W) \in Siblings(Node[d])
    <3>1. CASE W = {}
      BY <3>1, UnderCases, NoSiblings
    <3>2. ASSUME NEW x \in Node[d + 1], W = {x} PROVE Under(W) \in Siblings(Node[d])
      <4>1. x.children \in Siblings(Node[d])
        BY <3>2, NodeFields
      <4>2. Under(W) = x.children
        BY <3>2, UnderCases
      <4> QED BY <4>1, <4>2
    <3> QED BY <2>6, <3>1, <3>2
  <2> QED BY <2>3, <2>4, <2>6, <2>7, Zenon DEF WalkTyped
<1>3. 0 \in S /\ \A n \in Nat : n \in S => n + 1 \in S
  <2>1. ASSUME NEW n \in Nat, n \in S, n + 1 <= Len(path), n + 1 <= MaxDepth
        PROVE  WalkTyped(nodes, path, n + 1)
    <3>1. n <= MaxDepth /\ n <= Len(path)
      BY <1>0, <2>1
    <3> QED BY <1>2, <2>1, <3>1
  <2> QED BY <1>1, <2>1
<1> HIDE DEF S
<1>4. \A n \in Nat : n \in S
  BY <1>3, NatSetInduction
<1> QED BY <1>4 DEF S

(* A path of a tree has as many ids as its level. *)
LEMMA PlaceType ==
  ASSUME NEW nodes \in Siblings(Node[MaxDepth]), NEW e \in Places(nodes)
  PROVE  e[1] \in Seq(Id) /\ Len(e[1]) \in 1..MaxDepth /\ e \in Levels(nodes)[Len(e[1])]
<1>0. MaxDepth \in Nat
  BY DepthPositive
<1>1. PICK k \in 1..MaxDepth : e \in Levels(nodes)[k]
  BY DEF Places
<1>2. IsPlace(k, e)
  BY <1>0, <1>1, LevelsAreTyped DEF LevelTyped
<1>3. e[1] \in Seq(Id) /\ Len(e[1]) = k
  BY <1>2, Zenon DEF IsPlace
<1> QED BY <1>1, <1>3, Zenon

(* The nodes at a path and above it are those of the walk down the path.   *)
OnPath(nodes, path) ==
  /\ At(Places(nodes), path) = Walk(nodes, path, Len(path))
  /\ path \in PathsOf(Places(nodes)) <=> Walk(nodes, path, Len(path)) # {}
  /\ \A k \in 1..Len(path) :
       /\ At(Places(nodes), SubSeq(path, 1, k)) = Walk(nodes, path, k)
       /\ SubSeq(path, 1, k) \in PathsOf(Places(nodes)) <=> Walk(nodes, path, k) # {}

(* At gives the node the walk down the path reaches.                       *)
LEMMA PathsAreWalks ==
  ASSUME NEW nodes \in Siblings(Node[MaxDepth]), NEW path \in Seq(Id), Len(path) \in 1..MaxDepth
  PROVE  OnPath(nodes, path)
<1>0. MaxDepth \in Nat /\ Len(path) \in Nat
  BY DepthPositive
<1>1. PICK P : P = Places(nodes)
  OBVIOUS
<1>2. ASSUME NEW k \in 1..Len(path)
      PROVE  /\ At(P, SubSeq(path, 1, k)) = Walk(nodes, path, k)
             /\ SubSeq(path, 1, k) \in PathsOf(P) <=> Walk(nodes, path, k) # {}
  <2>1. PICK s, V : s = SubSeq(path, 1, k) /\ V = Levels(nodes)[k]
    OBVIOUS
  <2>2. IsStart(path, k, s)
    BY <1>0, <2>1, StartType
  <2>3. Len(s) = k
    BY <2>2, Zenon DEF IsStart
  <2>4. V \subseteq P
    BY <1>0, <1>1, <1>2, <2>1 DEF Places
  <2>5. \A e \in P : e[1] = s => e \in V
    BY <1>1, <2>1, <2>3, PlaceType
  <2>6. \A n : n \in At(P, s) <=> \E e \in P : e[1] = s /\ n = e[2]
    BY DEF At
  <2>7. \A n : n \in Walk(nodes, path, k) <=> \E e \in V : e[1] = s /\ n = e[2]
    BY <2>1 DEF Walk
  <2>8. At(P, s) = Walk(nodes, path, k)
    BY <2>4, <2>5, <2>6, <2>7, Zenon
  <2>9. s \in PathsOf(P) <=> At(P, s) # {}
    <3>1. s \in PathsOf(P) <=> \E e \in P : e[1] = s
      BY DEF PathsOf
    <3> QED BY <2>6, <3>1
  <2> QED BY <2>1, <2>8, <2>9, Zenon
<1>3. SubSeq(path, 1, Len(path)) = path
  <2>1. PICK s : s = SubSeq(path, 1, Len(path))
    OBVIOUS
  <2>2. IsStart(path, Len(path), s)
    BY <1>0, <2>1, StartType
  <2>3. s \in Seq(Id) /\ Len(s) = Len(path) /\ \A i \in 1..Len(s) : s[i] = path[i]
    BY <2>2, Zenon DEF IsStart
  <2>4. s = path
    BY <2>3, SameSequence
  <2> QED BY <2>1, <2>4
<1>4. /\ At(P, path) = Walk(nodes, path, Len(path))
      /\ path \in PathsOf(P) <=> Walk(nodes, path, Len(path)) # {}
  <2>1. PICK k : k = Len(path)
    OBVIOUS
  <2>2. k \in 1..Len(path)
    BY <1>0, <2>1
  <2>3. SubSeq(path, 1, k) = path
    BY <1>3, <2>1, Zenon
  <2> QED BY <1>2, <2>1, <2>2, <2>3, Zenon
<1> QED BY <1>1, <1>2, <1>4, Zenon DEF OnPath

(* Every path of a tree is one of these. *)
LEMMA PathType ==
  ASSUME NEW nodes \in Siblings(Node[MaxDepth]), NEW path \in PathsOf(Places(nodes))
  PROVE  path \in Seq(Id) /\ Len(path) \in 1..MaxDepth
BY PlaceType DEF PathsOf

(***************************************************************************)
(* The walks down one path: every step is one to a child, and from where a *)
(* tree has ended on there is nothing.                                     *)
(***************************************************************************)
Walks(nodes, path) ==
  /\ OnPath(nodes, path)
  /\ \A k \in 0..(Len(path) - 1) :
       /\ Walk(nodes, path, k + 1) = Lookup(Under(Walk(nodes, path, k)), path[k + 1])
       /\ Walk(nodes, path, k + 1) \in Option(Node[MaxDepth - k])
       /\ \A n \in Walk(nodes, path, k + 1) : n.id = path[k + 1]
       /\ Under(Walk(nodes, path, k)) \in Siblings(Node[MaxDepth - k])
       /\ Walk(nodes, path, k) = {} => Walk(nodes, path, k + 1) = {}

(* The walks of a tree go from a node to its child.                        *)
LEMMA AllWalks ==
  ASSUME NEW nodes \in Siblings(Node[MaxDepth]), NEW path \in Seq(Id), Len(path) \in 1..MaxDepth
  PROVE  Walks(nodes, path)
<1>0. MaxDepth \in Nat /\ Len(path) \in Nat
  BY DepthPositive
<1>1. ASSUME NEW k \in 0..(Len(path) - 1)
      PROVE  /\ Walk(nodes, path, k + 1) = Lookup(Under(Walk(nodes, path, k)), path[k + 1])
             /\ Walk(nodes, path, k + 1) \in Option(Node[MaxDepth - k])
             /\ \A n \in Walk(nodes, path, k + 1) : n.id = path[k + 1]
             /\ Under(Walk(nodes, path, k)) \in Siblings(Node[MaxDepth - k])
             /\ Walk(nodes, path, k) = {} => Walk(nodes, path, k + 1) = {}
  <2>1. k \in Nat /\ k < Len(path) /\ k < MaxDepth /\ k <= Len(path) /\ k <= MaxDepth
    BY <1>0, <1>1
  <2>2. WalkTyped(nodes, path, k)
    BY <2>1, WalksAreTyped
  <2>3. Descends(nodes, path, k)
    BY <2>1, <2>2, WalkDescends
  <2>4. /\ Walk(nodes, path, k + 1) = Lookup(Under(Walk(nodes, path, k)), path[k + 1])
        /\ Walk(nodes, path, k + 1) \in Option(Node[MaxDepth - k])
        /\ \A n \in Walk(nodes, path, k + 1) : n.id = path[k + 1]
    BY <2>3, Zenon DEF Descends
  <2>5. ASSUME Walk(nodes, path, k) = {} PROVE Walk(nodes, path, k + 1) = {}
    <3>1. Under(Walk(nodes, path, k)) = <<>>
      BY <2>5, UnderCases, Zenon
    <3>2. Lookup(<<>>, path[k + 1]) = {}
      BY LookupEmpty, Zenon
    <3> QED BY <2>4, <3>1, <3>2, Zenon
  <2> QED BY <2>2, <2>4, <2>5, Zenon DEF WalkTyped
<1>2. OnPath(nodes, path)
  BY PathsAreWalks
<1> QED BY <1>1, <1>2, Zenon DEF Walks

(* Nothing below nothing, and the same below the same. *)
LEMMA BelowTheSame ==
  ASSUME NEW nodes, NEW other, NEW path \in Seq(Id), Walks(nodes, path), Walks(other, path),
         NEW j \in 1..Len(path), NEW k \in j..Len(path)
  PROVE  /\ Walk(nodes, path, j) = {} => Walk(nodes, path, k) = {}
         /\ Walk(nodes, path, j) = Walk(other, path, j) => Walk(nodes, path, k) = Walk(other, path, k)
<1> DEFINE Same(n) ==
             /\ Walk(nodes, path, j) = {} => Walk(nodes, path, n) = {}
             /\ Walk(nodes, path, j) = Walk(other, path, j) => Walk(nodes, path, n) = Walk(other, path, n)
           S == {n \in Nat : n \in j..Len(path) => Same(n)}
<1>0. Len(path) \in Nat /\ j \in Nat
  OBVIOUS
<1>1. Same(j)
  OBVIOUS
<1>2. ASSUME NEW n \in Nat, n \in j..(Len(path) - 1), Same(n) PROVE Same(n + 1)
  <2>1. n \in 0..(Len(path) - 1)
    BY <1>0, <1>2
  <2>2. /\ Walk(nodes, path, n + 1) = Lookup(Under(Walk(nodes, path, n)), path[n + 1])
        /\ Walk(other, path, n + 1) = Lookup(Under(Walk(other, path, n)), path[n + 1])
        /\ Walk(nodes, path, n) = {} => Walk(nodes, path, n + 1) = {}
    BY <2>1, Zenon DEF Walks
  <2> QED BY <1>2, <2>2, Zenon
<1>3. 0 \in S
  BY <1>0
<1>4. ASSUME NEW n \in Nat, n \in S PROVE n + 1 \in S
  <2>1. ASSUME n + 1 \in j..Len(path) PROVE Same(n + 1)
    <3>1. CASE n + 1 = j
      BY <1>1, <3>1, Zenon
    <3>2. CASE n + 1 # j
      <4>1. n \in j..(Len(path) - 1) /\ n \in j..Len(path)
        BY <1>0, <2>1, <3>2
      <4>2. Same(n)
        BY <1>4, <4>1
      <4> HIDE DEF Same
      <4> QED BY <1>2, <4>1, <4>2
    <3> QED BY <3>1, <3>2
  <2> HIDE DEF Same
  <2> QED BY <2>1
<1> HIDE DEF S
<1>5. \A n \in Nat : n \in S
  BY <1>3, <1>4, NatSetInduction
<1>6. k \in S /\ k \in j..Len(path)
  BY <1>0, <1>5
<1> QED BY <1>6 DEF S

-----------------------------------------------------------------------------
(***************************************************************************)
(* One node of the merge, where the base agrees with both sides on what it *)
(* is.  A merge that takes both sides, or that counts no conflict, is the  *)
(* merge of the children too.                                              *)
(***************************************************************************)
Agreed(b, l, r) == \A x \in b : (\A y \in l : SameNode(x, y)) /\ (\A y \in r : SameNode(x, y))

NoClash(l, r) == l # {} /\ r # {} /\ \A x \in l, y \in r : SameNode(x, y)

MergedUnder(d, b, l, r, id) == Child(d, Under(b), Under(l), Under(r), id)

MergesBelow(d, b, l, r) ==
  \A id : Lookup(Under(MergeAt[d + 1][<<b, l, r>>].node), id) = MergedUnder(d, b, l, r, id).node

GoesDown(d, b, l, r) ==
  /\ NoClash(l, r) => MergesBelow(d, b, l, r)
  /\ MergeAt[d + 1][<<b, l, r>>].conflicts = 0 =>
       MergesBelow(d, b, l, r) /\ \A id : MergedUnder(d, b, l, r, id).conflicts = 0

(* The children of a node, or of none.                                     *)
LEMMA UnderType ==
  ASSUME NEW d \in Nat, NEW o \in Option(Node[d + 1])
  PROVE  Under(o) \in Siblings(Node[d])
<1>1. CASE o = {}
  BY <1>1, UnderCases, NoSiblings
<1>2. ASSUME NEW x \in Node[d + 1], o = {x} PROVE Under(o) \in Siblings(Node[d])
  <2>1. x.children \in Siblings(Node[d])
    BY <1>2, NodeFields
  <2>2. Under(o) = x.children
    BY <1>2, UnderCases
  <2> QED BY <2>1, <2>2
<1> QED BY <1>1, <1>2, OptionCases

(* Where one side edited nothing the other's children are the merged ones. *)
LEMMA OneEditBelow ==
  ASSUME NEW d \in Nat, NEW b \in Option(Node[d + 1]), NEW l \in Option(Node[d + 1]),
         NEW r \in Option(Node[d + 1]), NEW id
  PROVE  /\ l = b => MergedUnder(d, b, l, r, id) = [node |-> Lookup(Under(r), id), conflicts |-> 0]
         /\ r = b => MergedUnder(d, b, l, r, id) = [node |-> Lookup(Under(l), id), conflicts |-> 0]
         /\ l = r => MergedUnder(d, b, l, r, id) = [node |-> Lookup(Under(l), id), conflicts |-> 0]
<1>1. PICK x, y, z : x = Lookup(Under(b), id) /\ y = Lookup(Under(l), id) /\ z = Lookup(Under(r), id)
  OBVIOUS
<1>2. x \in Option(Node[d]) /\ y \in Option(Node[d]) /\ z \in Option(Node[d])
  <2>1. /\ Under(b) \in Siblings(Node[d]) /\ Under(l) \in Siblings(Node[d])
        /\ Under(r) \in Siblings(Node[d])
    BY UnderType
  <2> QED BY <1>1, <2>1, LookupType
<1>3. OneEditWins(d, x, y, z)
  BY <1>2, MergeOfOneEdit
<1>4. MergedUnder(d, b, l, r, id) = MergeAt[d][<<x, y, z>>]
  BY <1>1, Zenon DEF MergedUnder, Child
<1>5. (l = b => y = x) /\ (r = b => z = x) /\ (l = r => y = z)
  BY <1>1
<1>6. /\ y = x => MergedUnder(d, b, l, r, id) = [node |-> z, conflicts |-> 0]
      /\ z = x => MergedUnder(d, b, l, r, id) = [node |-> y, conflicts |-> 0]
      /\ y = z => MergedUnder(d, b, l, r, id) = [node |-> y, conflicts |-> 0]
  BY <1>3, <1>4, Zenon DEF OneEditWins
<1> QED BY <1>1, <1>5, <1>6, Zenon

(* The cases of MergeCases, of a merge that has a name.                    *)
MergesTo(d, b, l, r, m) ==
  \/ (l = r \/ r = b) /\ m = [node |-> l, conflicts |-> 0]
  \/ l = b /\ l # r /\ m = [node |-> r, conflicts |-> 0]
  \/ /\ l # r /\ l # b /\ r # b
     /\ l = {} \/ r = {}
     /\ m = [node |-> l \cup r, conflicts |-> 1]
  \/ /\ l # r /\ l # b /\ r # b
     /\ \E x, y \in Node[d + 1] :
          /\ l = {x} /\ r = {y}
          /\ \/ ~SameNode(x, y) /\ m = [node |-> {y}, conflicts |-> 1]
             \/ /\ SameNode(x, y)
                /\ m = [node |-> {MergedNode(d, b, x, y)},
                        conflicts |-> Kids(d, b, x, y).conflicts
                                        + Cardinality(FieldConflicts(b, x, y))]

(* The cases of a merge that has a name.                                   *)
LEMMA MergeGoes ==
  ASSUME NEW d \in Nat, NEW b \in Option(Node[d + 1]), NEW l \in Option(Node[d + 1]),
         NEW r \in Option(Node[d + 1]), NEW m, m = MergeAt[d + 1][<<b, l, r>>]
  PROVE  MergesTo(d, b, l, r, m)
<1>1. MergedAs(d, b, l, r)
  BY MergeCases
<1>2. MergesTo(d, b, l, r, MergeAt[d + 1][<<b, l, r>>])
  BY <1>1, Zenon DEF MergedAs, MergesTo
<1> QED BY <1>2, Zenon

(* A merge that takes both sides is the merge of what is under them, and   *)
(* one without a conflict has none there.                                  *)
LEMMA MergeGoesDown ==
  ASSUME NEW d \in Nat, NEW b \in Option(Node[d + 1]), NEW l \in Option(Node[d + 1]),
         NEW r \in Option(Node[d + 1]), Agreed(b, l, r)
  PROVE  GoesDown(d, b, l, r)
<1>1. PICK m : m = MergeAt[d + 1][<<b, l, r>>]
  OBVIOUS
<1>2. /\ MergesBelow(d, b, l, r)
           <=> \A id : Lookup(Under(m.node), id) = MergedUnder(d, b, l, r, id).node
      /\ GoesDown(d, b, l, r)
           <=> /\ NoClash(l, r) => MergesBelow(d, b, l, r)
               /\ m.conflicts = 0 =>
                    MergesBelow(d, b, l, r) /\ \A id : MergedUnder(d, b, l, r, id).conflicts = 0
  BY <1>1, Zenon DEF GoesDown, MergesBelow
<1>3. MergesTo(d, b, l, r, m)
  BY <1>1, MergeGoes
<1>4. \/ (l = r \/ r = b) /\ m = [node |-> l, conflicts |-> 0]
      \/ l = b /\ l # r /\ m = [node |-> r, conflicts |-> 0]
      \/ (l = {} \/ r = {}) /\ m = [node |-> l \cup r, conflicts |-> 1]
      \/ \E x, y \in Node[d + 1] :
           /\ l = {x} /\ r = {y}
           /\ \/ ~SameNode(x, y) /\ m = [node |-> {y}, conflicts |-> 1]
              \/ /\ SameNode(x, y)
                 /\ m = [node |-> {MergedNode(d, b, x, y)},
                         conflicts |-> Kids(d, b, x, y).conflicts
                                         + Cardinality(FieldConflicts(b, x, y))]
  BY <1>3, Zenon DEF MergesTo
<1>5. CASE (l = r \/ r = b) /\ m = [node |-> l, conflicts |-> 0]
  <2>1. ASSUME NEW id
        PROVE  /\ Lookup(Under(m.node), id) = MergedUnder(d, b, l, r, id).node
               /\ MergedUnder(d, b, l, r, id).conflicts = 0
    <3>1. MergedUnder(d, b, l, r, id) = [node |-> Lookup(Under(l), id), conflicts |-> 0]
      BY <1>5, OneEditBelow
    <3>2. m.node = l
      BY <1>5
    <3> QED BY <3>1, <3>2
  <2> QED BY <1>2, <2>1, Zenon
<1>6. CASE l = b /\ l # r /\ m = [node |-> r, conflicts |-> 0]
  <2>1. ASSUME NEW id
        PROVE  /\ Lookup(Under(m.node), id) = MergedUnder(d, b, l, r, id).node
               /\ MergedUnder(d, b, l, r, id).conflicts = 0
    <3>1. MergedUnder(d, b, l, r, id) = [node |-> Lookup(Under(r), id), conflicts |-> 0]
      BY <1>6, OneEditBelow
    <3>2. m.node = r
      BY <1>6
    <3> QED BY <3>1, <3>2
  <2> QED BY <1>2, <2>1, Zenon
<1>7. CASE (l = {} \/ r = {}) /\ m = [node |-> l \cup r, conflicts |-> 1]
  <2>1. ~NoClash(l, r) /\ m.conflicts # 0
    BY <1>7 DEF NoClash
  <2> QED BY <1>2, <2>1, Zenon
<1>8. ASSUME NEW x \in Node[d + 1], NEW y \in Node[d + 1], l = {x}, r = {y}, ~SameNode(x, y),
             m = [node |-> {y}, conflicts |-> 1]
      PROVE  GoesDown(d, b, l, r)
  <2>1. ~NoClash(l, r) /\ m.conflicts # 0
    BY <1>8 DEF NoClash
  <2> QED BY <1>2, <2>1, Zenon
<1>9. ASSUME NEW x \in Node[d + 1], NEW y \in Node[d + 1], l = {x}, r = {y}, SameNode(x, y),
             m = [node |-> {MergedNode(d, b, x, y)},
                  conflicts |-> Kids(d, b, x, y).conflicts + Cardinality(FieldConflicts(b, x, y))]
      PROVE  GoesDown(d, b, l, r)
  <2>1. PICK M, k, c : /\ M = MergedNode(d, b, x, y) /\ k = Kids(d, b, x, y).conflicts
                       /\ c = Cardinality(FieldConflicts(b, x, y))
    OBVIOUS
  <2>2. m.node = {M} /\ m.conflicts = k + c
    BY <1>9, <2>1
  <2>3. Under(m.node) = M.children /\ Under(l) = x.children /\ Under(r) = y.children
    BY <1>9, <2>2, UnderCases, Zenon
  <2>4. BaseChildren(b, x) = Under(b)
    <3>1. CASE b = {}
      BY <3>1, BaseOfOption, UnderCases
    <3>2. ASSUME NEW z, b = {z} PROVE BaseChildren(b, x) = Under(b)
      <4>1. SameNode(z, x)
        BY <1>9, <3>2 DEF Agreed
      <4> QED BY <3>2, <4>1, BaseOfOption, UnderCases
    <3> QED BY <3>1, <3>2, OptionCases
  <2>5. MergedBelow(d, b, x, y)
    BY <1>9, MergedChildren
  <2>6. /\ \A id : Lookup(M.children, id)
                     = Child(d, BaseChildren(b, x), x.children, y.children, id).node
        /\ MergedByPlace(d, BaseChildren(b, x), x.children, y.children)
    BY <2>1, <2>5, Zenon DEF MergedBelow
  <2>7. \A id : MergedUnder(d, b, l, r, id) = Child(d, BaseChildren(b, x), x.children, y.children, id)
    BY <2>3, <2>4, Zenon DEF MergedUnder
  <2>8. \A id : Lookup(Under(m.node), id) = MergedUnder(d, b, l, r, id).node
    BY <2>3, <2>6, <2>7, Zenon
  <2>9. /\ k \in Nat
        /\ k = 0 => \A id : Child(d, BaseChildren(b, x), x.children, y.children, id).conflicts = 0
    BY <2>1, <2>6, Zenon DEF MergedByPlace, Kids
  <2>10. c \in Nat
    BY <2>1, FieldConflictsType
  <2>11. m.conflicts = 0 => k = 0
    BY <2>2, <2>9, <2>10
  <2> QED BY <1>2, <2>7, <2>8, <2>9, <2>11, Zenon
<1> QED BY <1>4, <1>5, <1>6, <1>7, <1>8, <1>9

\* The values of a field, at most one
Values(option, f) == {n[f] : n \in option}

(***************************************************************************)
(* What becomes of the fields of a node: a node one side does not have is  *)
(* gone if the other did not change it; an edit of a field is kept where   *)
(* both sides have the node, the remote one if both edited it, and a merge *)
(* without a conflict keeps all edits and undoes no deletion.              *)
(***************************************************************************)
KeepsEdits(b, l, r, n) ==
  /\ n # {}
  /\ \A f \in Scalars :
       /\ Values(r, f) \notin {{}, Values(b, f)} => Values(n, f) = Values(r, f)
       /\ Values(l, f) \notin {{}, Values(b, f)} /\ Values(r, f) = Values(b, f) =>
            Values(n, f) = Values(l, f)

KeepsAll(b, l, r, n) ==
  /\ b # {} /\ n # {} => l # {} /\ r # {}
  /\ \A f \in Scalars :
       /\ Values(r, f) \notin {{}, Values(b, f)} => Values(n, f) = Values(r, f)
       /\ Values(l, f) \notin {{}, Values(b, f)} => Values(n, f) = Values(l, f)

Keeps(b, l, r, m) ==
  /\ NoClash(l, r) => KeepsEdits(b, l, r, m.node)
  /\ m.conflicts = 0 => KeepsAll(b, l, r, m.node)
  /\ l = {} \/ r = {} => m.node = IF l \cup r = b THEN {} ELSE l \cup r

(* The field of one node.                                                  *)
LEMMA ValuesOfOne == \A x, f : Values({x}, f) = {x[f]} /\ Values({}, f) = {}
BY DEF Values

(* The two fields of a merged node. *)
LEMMA MergedField ==
  ASSUME NEW d, NEW b, NEW x, NEW y, NEW f \in Scalars
  PROVE  MergedNode(d, b, x, y)[f] = MergeValue(BaseField(b, x, f), x[f], y[f])
<1>1. CASE f = "name"
  <2>1. PICK v, u, k : /\ v = MergeValue(BaseField(b, x, "name"), x.name, y.name)
                       /\ u = MergeValue(BaseField(b, x, "url"), x.url, y.url)
                       /\ k = Kids(d, b, x, y).nodes
    OBVIOUS
  <2>2. MergedNode(d, b, x, y) = [id |-> x.id, kind |-> x.kind, name |-> v, url |-> u, children |-> k]
    BY <2>1, Zenon DEF MergedNode
  <2>3. MergedNode(d, b, x, y).name = v
    BY <2>2
  <2> QED BY <1>1, <2>1, <2>3, Zenon
<1>2. CASE f = "url"
  <2>1. PICK v, u, k : /\ v = MergeValue(BaseField(b, x, "name"), x.name, y.name)
                       /\ u = MergeValue(BaseField(b, x, "url"), x.url, y.url)
                       /\ k = Kids(d, b, x, y).nodes
    OBVIOUS
  <2>2. MergedNode(d, b, x, y) = [id |-> x.id, kind |-> x.kind, name |-> v, url |-> u, children |-> k]
    BY <2>1, Zenon DEF MergedNode
  <2>3. MergedNode(d, b, x, y).url = u
    BY <2>2
  <2> QED BY <1>2, <2>1, <2>3, Zenon
<1> QED BY <1>1, <1>2 DEF Scalars

(* The base's values are those of the base's node if it is the same node.  *)
LEMMA BaseValues ==
  ASSUME NEW d \in Nat, NEW b \in Option(Node[d + 1]), NEW x, \A z \in b : SameNode(z, x), NEW f
  PROVE  BaseField(b, x, f) = Values(b, f)
<1>1. CASE b = {}
  <2>1. Values(b, f) = {}
    BY <1>1, ValuesOfOne
  <2>2. BaseField(b, x, f) = {}
    BY <1>1 DEF BaseField
  <2> QED BY <2>1, <2>2
<1>2. ASSUME NEW z, b = {z} PROVE BaseField(b, x, f) = Values(b, f)
  <2>1. SameNode(z, x)
    BY <1>2
  <2>2. BaseField(b, x, f) = {z[f]}
    BY <1>2, <2>1, BaseOfOption
  <2> QED BY <1>2, <2>2, ValuesOfOne
<1> QED BY <1>1, <1>2, OptionCases

(* One merge keeps the edits of its node (merge_present_node, merge_value). *)
LEMMA MergeKeeps ==
  ASSUME NEW d \in Nat, NEW b \in Option(Node[d + 1]), NEW l \in Option(Node[d + 1]),
         NEW r \in Option(Node[d + 1]), Agreed(b, l, r), NEW m, m = MergeAt[d + 1][<<b, l, r>>]
  PROVE  Keeps(b, l, r, m)
<1>1. MergesTo(d, b, l, r, m)
  BY MergeGoes
<1>2. \/ (l = r \/ r = b) /\ m = [node |-> l, conflicts |-> 0]
      \/ l = b /\ l # r /\ m = [node |-> r, conflicts |-> 0]
      \/ /\ l # r /\ l # b /\ r # b
         /\ l = {} \/ r = {}
         /\ m = [node |-> l \cup r, conflicts |-> 1]
      \/ \E x, y \in Node[d + 1] :
           /\ l = {x} /\ r = {y}
           /\ \/ ~SameNode(x, y) /\ m = [node |-> {y}, conflicts |-> 1]
              \/ /\ SameNode(x, y)
                 /\ m = [node |-> {MergedNode(d, b, x, y)},
                         conflicts |-> Kids(d, b, x, y).conflicts
                                         + Cardinality(FieldConflicts(b, x, y))]
  BY <1>1, Zenon DEF MergesTo
<1>3. NoClash(l, r) => l # {} /\ r # {}
  BY DEF NoClash
<1>4. CASE l = r /\ m = [node |-> l, conflicts |-> 0]
  <2>1. m.node = l /\ l = r
    BY <1>4
  <2>2. NoClash(l, r) => KeepsEdits(b, l, r, m.node)
    BY <1>3, <2>1 DEF KeepsEdits
  <2>3. KeepsAll(b, l, r, m.node)
    BY <2>1 DEF KeepsAll
  <2>4. l = {} \/ r = {} => m.node = IF l \cup r = b THEN {} ELSE l \cup r
    BY <2>1
  <2> QED BY <2>2, <2>3, <2>4, Zenon DEF Keeps
<1>5. CASE r = b /\ m = [node |-> l, conflicts |-> 0]
  <2>1. m.node = l /\ \A f : Values(r, f) = Values(b, f)
    BY <1>5
  <2>2. NoClash(l, r) => KeepsEdits(b, l, r, m.node)
    BY <1>3, <2>1 DEF KeepsEdits
  <2>3. KeepsAll(b, l, r, m.node)
    BY <1>5, <2>1 DEF KeepsAll
  <2>4. l = {} \/ r = {} => m.node = IF l \cup r = b THEN {} ELSE l \cup r
    BY <1>5, <2>1
  <2> QED BY <2>2, <2>3, <2>4, Zenon DEF Keeps
<1>6. CASE l = b /\ l # r /\ m = [node |-> r, conflicts |-> 0]
  <2>1. m.node = r /\ \A f : Values(l, f) = Values(b, f)
    BY <1>6
  <2>2. NoClash(l, r) => KeepsEdits(b, l, r, m.node)
    BY <1>3, <2>1 DEF KeepsEdits
  <2>3. KeepsAll(b, l, r, m.node)
    BY <1>6, <2>1 DEF KeepsAll
  <2>4. l = {} \/ r = {} => m.node = IF l \cup r = b THEN {} ELSE l \cup r
    BY <1>6, <2>1
  <2> QED BY <2>2, <2>3, <2>4, Zenon DEF Keeps
<1>7. CASE /\ l # r /\ l # b /\ r # b
           /\ l = {} \/ r = {}
           /\ m = [node |-> l \cup r, conflicts |-> 1]
  <2>1. ~NoClash(l, r) /\ m.conflicts # 0 /\ m.node = l \cup r
    BY <1>3, <1>7
  <2>2. m.node = IF l \cup r = b THEN {} ELSE l \cup r
    BY <1>7, <2>1
  <2> QED BY <2>1, <2>2, Zenon DEF Keeps
<1>8. ASSUME NEW x \in Node[d + 1], NEW y \in Node[d + 1], l = {x}, r = {y}, ~SameNode(x, y),
             m = [node |-> {y}, conflicts |-> 1]
      PROVE  Keeps(b, l, r, m)
  <2>1. ~NoClash(l, r) /\ m.conflicts # 0
    BY <1>8 DEF NoClash
  <2>2. ~(l = {} \/ r = {})
    BY <1>8
  <2> QED BY <2>1, <2>2, Zenon DEF Keeps
<1>9. ASSUME NEW x \in Node[d + 1], NEW y \in Node[d + 1], l = {x}, r = {y}, SameNode(x, y),
             m = [node |-> {MergedNode(d, b, x, y)},
                  conflicts |-> Kids(d, b, x, y).conflicts + Cardinality(FieldConflicts(b, x, y))]
      PROVE  Keeps(b, l, r, m)
  <2>1. PICK M, k, c : /\ M = MergedNode(d, b, x, y) /\ k = Kids(d, b, x, y).conflicts
                       /\ c = Cardinality(FieldConflicts(b, x, y))
    OBVIOUS
  <2>2. m.node = {M} /\ m.conflicts = k + c
    BY <1>9, <2>1
  <2>3. ~(l = {} \/ r = {}) /\ m.node # {}
    BY <1>9, <2>2
  <2>4. \A f : BaseField(b, x, f) = Values(b, f)
    <3>1. \A z \in b : SameNode(z, x)
      BY <1>9 DEF Agreed
    <3> QED BY <3>1, BaseValues
  <2>5. \A f \in Scalars : M[f] = MergeValue(Values(b, f), x[f], y[f])
    BY <2>1, <2>4, MergedField
  <2>6. \A f : Values(m.node, f) = {M[f]} /\ Values(l, f) = {x[f]} /\ Values(r, f) = {y[f]}
    BY <1>9, <2>2, ValuesOfOne
  <2>7. KeepsEdits(b, l, r, m.node)
    <3>1. ASSUME NEW f \in Scalars
          PROVE  /\ Values(r, f) \notin {{}, Values(b, f)} => Values(m.node, f) = Values(r, f)
                 /\ Values(l, f) \notin {{}, Values(b, f)} /\ Values(r, f) = Values(b, f) =>
                      Values(m.node, f) = Values(l, f)
      BY <2>5, <2>6, ZenonT(30) DEF MergeValue
    <3> QED BY <2>3, <3>1, Zenon DEF KeepsEdits
  <2>8. m.conflicts = 0 => KeepsAll(b, l, r, m.node)
    <3>1. SUFFICES ASSUME m.conflicts = 0 PROVE KeepsAll(b, l, r, m.node)
      OBVIOUS
    <3>2. c = 0
      <4>1. c \in Nat
        BY <2>1, FieldConflictsType
      <4>2. MergedBelow(d, b, x, y)
        BY <1>9, MergedChildren
      <4>3. MergedByPlace(d, BaseChildren(b, x), x.children, y.children)
        BY <4>2, Zenon DEF MergedBelow
      <4>4. k \in Nat
        BY <2>1, <4>3, Zenon DEF MergedByPlace, Kids
      <4> QED BY <2>2, <3>1, <4>1, <4>4
    <3>3. \A f \in Scalars : ~ValueConflict(Values(b, f), x[f], y[f])
      BY <2>1, <2>4, <3>2, FieldConflictsType
    <3>4. ASSUME NEW f \in Scalars
          PROVE  /\ Values(r, f) \notin {{}, Values(b, f)} => Values(m.node, f) = Values(r, f)
                 /\ Values(l, f) \notin {{}, Values(b, f)} => Values(m.node, f) = Values(l, f)
      <4>1. PICK u, v, w, g : u = x[f] /\ v = y[f] /\ w = Values(b, f) /\ g = M[f]
        OBVIOUS
      <4>2. g = IF w = {v} THEN u ELSE v
        BY <2>5, <4>1, Zenon DEF MergeValue
      <4>3. ~(u # v /\ w # {u} /\ w # {v})
        BY <3>3, <4>1 DEF ValueConflict
      <4>4. Values(m.node, f) = {g} /\ Values(l, f) = {u} /\ Values(r, f) = {v}
        BY <2>6, <4>1, Zenon
      <4>5. /\ {v} # w => {g} = {v}
            /\ {u} # w => {g} = {u}
        BY <4>2, <4>3
      <4> QED BY <4>1, <4>4, <4>5
    <3>5. l # {} /\ r # {}
      BY <2>3
    <3> QED BY <3>4, <3>5, Zenon DEF KeepsAll
  <2> QED BY <2>3, <2>7, <2>8, Zenon DEF Keeps
<1> QED BY <1>2, <1>4, <1>5, <1>6, <1>7, <1>8, <1>9

-----------------------------------------------------------------------------
(***************************************************************************)
(* The merge along a path.  Result is the merge of what base, local and    *)
(* remote have at the first k ids; the merged tree has it there as long as *)
(* the merges above take both sides, or count no conflict.                 *)
(***************************************************************************)
Result(F, L, R, path, k) ==
  MergeAt[MaxDepth - (k - 1)][<<Walk(F, path, k), Walk(L, path, k), Walk(R, path, k)>>]

\* Trees M merged from F, L and R, with their walks down a path
MergedAlong(F, L, R, M, path) ==
  /\ path \in Seq(Id) /\ Len(path) \in 1..MaxDepth
  /\ Walks(F, path) /\ Walks(L, path) /\ Walks(R, path) /\ Walks(M, path)
  /\ \A k \in 1..Len(path) : Agreed(Walk(F, path, k), Walk(L, path, k), Walk(R, path, k))
  /\ \A id : Lookup(M, id) = Child(MaxDepth, F, L, R, id).node

Joined(F, L, R, M, path, k) == Walk(M, path, k) = Result(F, L, R, path, k).node

(* What there is at the first k ids are options of the depth that is left. *)
LEMMA StepTypes ==
  ASSUME NEW path \in Seq(Id), Len(path) \in 1..MaxDepth, NEW k \in 1..Len(path)
  PROVE  /\ MaxDepth - k \in Nat
         /\ MaxDepth - (k - 1) = (MaxDepth - k) + 1
         /\ \A nodes : Walks(nodes, path) =>
              /\ Walk(nodes, path, k) \in Option(Node[(MaxDepth - k) + 1])
              /\ \A n \in Walk(nodes, path, k) : n.id = path[k]
<1>1. MaxDepth \in Nat /\ Len(path) \in Nat
  BY DepthPositive
<1>2. MaxDepth - k \in Nat /\ MaxDepth - (k - 1) = (MaxDepth - k) + 1
  BY <1>1
<1>3. PICK j : j = k - 1
  OBVIOUS
<1>4. j \in 0..(Len(path) - 1) /\ j + 1 = k /\ MaxDepth - j = (MaxDepth - k) + 1
  BY <1>1, <1>3
<1>5. ASSUME NEW nodes, Walks(nodes, path)
      PROVE  /\ Walk(nodes, path, k) \in Option(Node[(MaxDepth - k) + 1])
             /\ \A n \in Walk(nodes, path, k) : n.id = path[k]
  <2>1. /\ Walk(nodes, path, j + 1) \in Option(Node[MaxDepth - j])
        /\ \A n \in Walk(nodes, path, j + 1) : n.id = path[j + 1]
    BY <1>4, <1>5, Zenon DEF Walks
  <2> QED BY <1>4, <2>1, Zenon
<1> QED BY <1>2, <1>5, Zenon

(* The merge of the roots.                                                 *)
LEMMA JoinedStart ==
  ASSUME NEW F, NEW L, NEW R, NEW M, NEW path, MergedAlong(F, L, R, M, path)
  PROVE  Joined(F, L, R, M, path, 1) /\ Result(F, L, R, path, 1) = Child(MaxDepth, F, L, R, path[1])
<1>1. MaxDepth \in Nat /\ path \in Seq(Id) /\ Len(path) \in 1..MaxDepth
  BY DepthPositive DEF MergedAlong
<1>2. 0 \in 0..(Len(path) - 1) /\ 0 + 1 = 1 /\ MaxDepth - (1 - 1) = MaxDepth
  BY <1>1
<1>3. ASSUME NEW nodes, Walks(nodes, path) PROVE Walk(nodes, path, 1) = Lookup(nodes, path[1])
  <2>1. Walk(nodes, path, 0 + 1) = Lookup(Under(Walk(nodes, path, 0)), path[0 + 1])
    BY <1>2, <1>3, Zenon DEF Walks
  <2>2. Under(Walk(nodes, path, 0)) = nodes
    BY <1>1, WalkStart
  <2> QED BY <1>2, <2>1, <2>2, Zenon
<1>4. /\ Walk(F, path, 1) = Lookup(F, path[1]) /\ Walk(L, path, 1) = Lookup(L, path[1])
      /\ Walk(R, path, 1) = Lookup(R, path[1]) /\ Walk(M, path, 1) = Lookup(M, path[1])
  BY <1>3, Zenon DEF MergedAlong
<1>5. Result(F, L, R, path, 1) = Child(MaxDepth, F, L, R, path[1])
  BY <1>2, <1>4, Zenon DEF Result, Child
<1>6. Lookup(M, path[1]) = Child(MaxDepth, F, L, R, path[1]).node
  BY Zenon DEF MergedAlong
<1> QED BY <1>4, <1>5, <1>6, Zenon DEF Joined

(* From a folder to a node in it.                                          *)
JoinsBelow(F, L, R, M, path, k) ==
  /\ NoClash(Walk(L, path, k), Walk(R, path, k)) => Joined(F, L, R, M, path, k + 1)
  /\ Result(F, L, R, path, k).conflicts = 0 =>
       Joined(F, L, R, M, path, k + 1) /\ Result(F, L, R, path, k + 1).conflicts = 0

(* The merge of a folder goes on in its children.                          *)
LEMMA JoinedStep ==
  ASSUME NEW F, NEW L, NEW R, NEW M, NEW path, MergedAlong(F, L, R, M, path),
         NEW k \in 1..(Len(path) - 1), Joined(F, L, R, M, path, k)
  PROVE  JoinsBelow(F, L, R, M, path, k)
<1>1. MaxDepth \in Nat /\ path \in Seq(Id) /\ Len(path) \in 1..MaxDepth /\ Len(path) \in Nat
  BY DepthPositive DEF MergedAlong
<1>2. PICK d, id : d = MaxDepth - k /\ id = path[k + 1]
  OBVIOUS
<1>3. k \in 1..Len(path) /\ k \in 0..(Len(path) - 1) /\ (k + 1) - 1 = k
  BY <1>1
<1>4. PICK b, l, r : b = Walk(F, path, k) /\ l = Walk(L, path, k) /\ r = Walk(R, path, k)
  OBVIOUS
<1>5. /\ d \in Nat /\ MaxDepth - (k - 1) = d + 1
      /\ b \in Option(Node[d + 1]) /\ l \in Option(Node[d + 1]) /\ r \in Option(Node[d + 1])
  BY <1>1, <1>2, <1>3, <1>4, StepTypes, Zenon DEF MergedAlong
<1>6. Agreed(b, l, r)
  BY <1>3, <1>4, Zenon DEF MergedAlong
<1>7. GoesDown(d, b, l, r)
  BY <1>5, <1>6, MergeGoesDown
<1>8. Result(F, L, R, path, k) = MergeAt[d + 1][<<b, l, r>>]
  BY <1>4, <1>5, Zenon DEF Result
<1>9. /\ Walk(F, path, k + 1) = Lookup(Under(b), id) /\ Walk(L, path, k + 1) = Lookup(Under(l), id)
      /\ Walk(R, path, k + 1) = Lookup(Under(r), id)
      /\ Walk(M, path, k + 1) = Lookup(Under(Walk(M, path, k)), id)
  <2>1. ASSUME NEW nodes, Walks(nodes, path)
        PROVE  Walk(nodes, path, k + 1) = Lookup(Under(Walk(nodes, path, k)), id)
    BY <1>2, <1>3, <2>1, Zenon DEF Walks
  <2> QED BY <1>4, <2>1, Zenon DEF MergedAlong
<1>10. Result(F, L, R, path, k + 1) = MergedUnder(d, b, l, r, id)
  <2>1. MaxDepth - ((k + 1) - 1) = d
    BY <1>1, <1>2
  <2>2. Result(F, L, R, path, k + 1)
          = MergeAt[d][<<Walk(F, path, k + 1), Walk(L, path, k + 1), Walk(R, path, k + 1)>>]
    BY <2>1, Zenon DEF Result
  <2> QED BY <1>9, <2>2, Zenon DEF MergedUnder, Child
<1>11. Walk(M, path, k + 1) = Lookup(Under(MergeAt[d + 1][<<b, l, r>>].node), id)
  BY <1>8, <1>9, Zenon DEF Joined
<1>12. MergesBelow(d, b, l, r) => Joined(F, L, R, M, path, k + 1)
  <2>1. MergesBelow(d, b, l, r) =>
          Lookup(Under(MergeAt[d + 1][<<b, l, r>>].node), id) = MergedUnder(d, b, l, r, id).node
    BY Zenon DEF MergesBelow
  <2> QED BY <1>10, <1>11, <2>1, Zenon DEF Joined
<1>13. /\ NoClash(l, r) => MergesBelow(d, b, l, r)
       /\ Result(F, L, R, path, k).conflicts = 0 =>
            MergesBelow(d, b, l, r) /\ Result(F, L, R, path, k + 1).conflicts = 0
  BY <1>7, <1>8, <1>10, Zenon DEF GoesDown
<1> QED BY <1>4, <1>12, <1>13, Zenon DEF JoinsBelow

(* As long as both sides have a node, and the same one, the merge goes on. *)
BothAbove(L, R, path, k) == \A i \in 1..(k - 1) : NoClash(Walk(L, path, i), Walk(R, path, i))

(* The merged tree has the merge of base, local and remote at such a place. *)
LEMMA JoinedDown ==
  ASSUME NEW F, NEW L, NEW R, NEW M, NEW path, MergedAlong(F, L, R, M, path),
         NEW k \in 1..Len(path), BothAbove(L, R, path, k)
  PROVE  Joined(F, L, R, M, path, k)
<1> DEFINE S == {n \in Nat : n \in 1..k => Joined(F, L, R, M, path, n)}
<1>0. Len(path) \in Nat /\ k \in Nat
  BY DepthPositive DEF MergedAlong
<1>1. 0 \in S
  OBVIOUS
<1>2. ASSUME NEW n \in Nat, n \in S PROVE n + 1 \in S
  <2>1. ASSUME n + 1 \in 1..k PROVE Joined(F, L, R, M, path, n + 1)
    <3>1. CASE n = 0
      <4>1. n + 1 = 1
        BY <3>1
      <4>2. Joined(F, L, R, M, path, 1)
        BY JoinedStart
      <4> QED BY <4>1, <4>2, Zenon
    <3>2. CASE n # 0
      <4>1. n \in 1..(Len(path) - 1) /\ n \in 1..k /\ n \in 1..(k - 1)
        BY <1>0, <2>1, <3>2
      <4>2. Joined(F, L, R, M, path, n)
        BY <1>2, <4>1
      <4>3. NoClash(Walk(L, path, n), Walk(R, path, n))
        BY <4>1, Zenon DEF BothAbove
      <4>4. JoinsBelow(F, L, R, M, path, n)
        BY <4>1, <4>2, JoinedStep
      <4> QED BY <4>3, <4>4, Zenon DEF JoinsBelow
    <3> QED BY <3>1, <3>2
  <2> QED BY <2>1
<1> HIDE DEF S
<1>3. \A n \in Nat : n \in S
  BY <1>1, <1>2, NatSetInduction
<1>4. k \in S /\ k \in 1..k
  BY <1>0, <1>3
<1> QED BY <1>4 DEF S

(* A merge without a conflict goes on everywhere. *)
Quiet(F, L, R, M, path, k) ==
  Joined(F, L, R, M, path, k) /\ Result(F, L, R, path, k).conflicts = 0

(* Then no merge on the path has a conflict.                               *)
LEMMA QuietDown ==
  ASSUME NEW F, NEW L, NEW R, NEW M, NEW path, MergedAlong(F, L, R, M, path),
         Result(F, L, R, path, 1).conflicts = 0, NEW k \in 1..Len(path)
  PROVE  Quiet(F, L, R, M, path, k)
<1> DEFINE S == {n \in Nat : n \in 1..k => Quiet(F, L, R, M, path, n)}
<1>0. Len(path) \in Nat /\ k \in Nat
  BY DepthPositive DEF MergedAlong
<1>1. 0 \in S
  OBVIOUS
<1>2. ASSUME NEW n \in Nat, n \in S PROVE n + 1 \in S
  <2>1. ASSUME n + 1 \in 1..k PROVE Quiet(F, L, R, M, path, n + 1)
    <3>1. CASE n = 0
      <4>1. n + 1 = 1
        BY <3>1
      <4>2. Joined(F, L, R, M, path, 1)
        BY JoinedStart
      <4>3. Quiet(F, L, R, M, path, 1)
        BY <4>2, Zenon DEF Quiet
      <4> QED BY <4>1, <4>3, Zenon
    <3>2. CASE n # 0
      <4>1. n \in 1..(Len(path) - 1) /\ n \in 1..k
        BY <1>0, <2>1, <3>2
      <4>2. Quiet(F, L, R, M, path, n)
        BY <1>2, <4>1
      <4>3. Joined(F, L, R, M, path, n) /\ Result(F, L, R, path, n).conflicts = 0
        BY <4>2, Zenon DEF Quiet
      <4>4. JoinsBelow(F, L, R, M, path, n)
        BY <4>1, <4>3, JoinedStep
      <4> QED BY <4>3, <4>4, Zenon DEF JoinsBelow, Quiet
    <3> QED BY <3>1, <3>2
  <2> QED BY <2>1
<1> HIDE DEF S
<1>3. \A n \in Nat : n \in S
  BY <1>1, <1>2, NatSetInduction
<1>4. k \in S /\ k \in 1..k
  BY <1>0, <1>3
<1> QED BY <1>4 DEF S

(* What the merge does at one place of a path (MergeKeeps). *)
LEMMA ResultKeeps ==
  ASSUME NEW F, NEW L, NEW R, NEW M, NEW path, MergedAlong(F, L, R, M, path), NEW k \in 1..Len(path)
  PROVE  Keeps(Walk(F, path, k), Walk(L, path, k), Walk(R, path, k), Result(F, L, R, path, k))
<1>1. path \in Seq(Id) /\ Len(path) \in 1..MaxDepth
  BY DEF MergedAlong
<1>2. PICK d : d = MaxDepth - k
  OBVIOUS
<1>3. PICK b, l, r : b = Walk(F, path, k) /\ l = Walk(L, path, k) /\ r = Walk(R, path, k)
  OBVIOUS
<1>4. /\ d \in Nat /\ MaxDepth - (k - 1) = d + 1
      /\ b \in Option(Node[d + 1]) /\ l \in Option(Node[d + 1]) /\ r \in Option(Node[d + 1])
  BY <1>1, <1>2, <1>3, StepTypes, Zenon DEF MergedAlong
<1>5. Agreed(b, l, r)
  BY <1>3, Zenon DEF MergedAlong
<1>6. PICK m : m = MergeAt[d + 1][<<b, l, r>>]
  OBVIOUS
<1>7. Keeps(b, l, r, m)
  BY <1>4, <1>5, <1>6, MergeKeeps
<1>8. Result(F, L, R, path, k) = m
  BY <1>3, <1>4, <1>6, Zenon DEF Result
<1> QED BY <1>3, <1>7, <1>8, Zenon

(***************************************************************************)
(* What the merged tree has at a path on which both sides agree on what    *)
(* each node is: the merge of the two nodes if both are there, and if one  *)
(* side's tree has ended the other's node, unless that side only lacks     *)
(* what the other did not change.                                          *)
(***************************************************************************)
Here(nodes, path) == Walk(nodes, path, Len(path))

BothThere(L, R, path) == \A k \in 1..Len(path) : Walk(L, path, k) # {} /\ Walk(R, path, k) # {}

EndsAt(L, R, path, j) ==
  /\ \A i \in 1..(j - 1) : Walk(L, path, i) # {} /\ Walk(R, path, i) # {}
  /\ Walk(L, path, j) = {} \/ Walk(R, path, j) = {}

Unclashed(L, R, path) ==
  \A k \in 1..Len(path) : \A x \in Walk(L, path, k), y \in Walk(R, path, k) : SameNode(x, y)

LeftOf(F, L, R, path, j) ==
  IF Walk(L, path, j) \cup Walk(R, path, j) = Walk(F, path, j) THEN {}
  ELSE Here(L, path) \cup Here(R, path)

(* Where both sides have the node its fields are merged.                   *)
LEMMA BothMerged ==
  ASSUME NEW F, NEW L, NEW R, NEW M, NEW path, MergedAlong(F, L, R, M, path),
         Unclashed(L, R, path), BothThere(L, R, path)
  PROVE  KeepsEdits(Here(F, path), Here(L, path), Here(R, path), Here(M, path))
<1>1. PICK k : k = Len(path)
  OBVIOUS
<1>2. Len(path) \in Nat /\ k \in 1..Len(path)
  BY <1>1, DepthPositive DEF MergedAlong
<1>3. ASSUME NEW i \in 1..Len(path) PROVE NoClash(Walk(L, path, i), Walk(R, path, i))
  BY <1>3, Zenon DEF NoClash, BothThere, Unclashed
<1>4. BothAbove(L, R, path, k)
  <2>1. \A i \in 1..(k - 1) : i \in 1..Len(path)
    BY <1>1, <1>2
  <2> QED BY <1>3, <2>1, Zenon DEF BothAbove
<1>5. Joined(F, L, R, M, path, k)
  BY <1>2, <1>4, JoinedDown
<1>6. Keeps(Walk(F, path, k), Walk(L, path, k), Walk(R, path, k), Result(F, L, R, path, k))
  BY <1>2, ResultKeeps
<1>7. KeepsEdits(Walk(F, path, k), Walk(L, path, k), Walk(R, path, k), Result(F, L, R, path, k).node)
  BY <1>2, <1>3, <1>6, Zenon DEF Keeps
<1> QED BY <1>1, <1>5, <1>7, Zenon DEF Joined, Here

(* Where one side has not, the other is taken or deleted as a whole.       *)
LEMMA OneMerged ==
  ASSUME NEW F, NEW L, NEW R, NEW M, NEW path, MergedAlong(F, L, R, M, path),
         Unclashed(L, R, path), NEW j \in 1..Len(path), EndsAt(L, R, path, j)
  PROVE  Here(M, path) = LeftOf(F, L, R, path, j)
<1>1. PICK k : k = Len(path)
  OBVIOUS
<1>2. Len(path) \in Nat /\ k \in j..Len(path) /\ path \in Seq(Id)
  BY <1>1, DepthPositive DEF MergedAlong
<1>3. BothAbove(L, R, path, j)
  <2>1. ASSUME NEW i \in 1..(j - 1) PROVE NoClash(Walk(L, path, i), Walk(R, path, i))
    <3>1. i \in 1..Len(path)
      BY <1>2, <2>1
    <3> QED BY <2>1, <3>1, Zenon DEF NoClash, EndsAt, Unclashed
  <2> QED BY <2>1, Zenon DEF BothAbove
<1>4. Joined(F, L, R, M, path, j)
  BY <1>3, JoinedDown
<1>5. Keeps(Walk(F, path, j), Walk(L, path, j), Walk(R, path, j), Result(F, L, R, path, j))
  BY ResultKeeps
<1>6. PICK b, l, r, m : /\ b = Walk(F, path, j) /\ l = Walk(L, path, j) /\ r = Walk(R, path, j)
                        /\ m = Walk(M, path, j)
  OBVIOUS
<1>7. l = {} \/ r = {}
  BY <1>6, Zenon DEF EndsAt
<1>8. m = IF l \cup r = b THEN {} ELSE l \cup r
  BY <1>4, <1>5, <1>6, <1>7, Zenon DEF Keeps, Joined
<1>9. PICK x, y, z : x = Walk(L, path, k) /\ y = Walk(R, path, k) /\ z = Walk(M, path, k)
  OBVIOUS
<1>10. /\ l = {} => x = {}
       /\ r = {} => y = {}
       /\ m = {} => z = {}
       /\ m = l => z = x
       /\ m = r => z = y
  <2>1. Walks(L, path) /\ Walks(R, path) /\ Walks(M, path)
    BY Zenon DEF MergedAlong
  <2> QED BY <1>2, <1>6, <1>9, <2>1, BelowTheSame
<1>11. z = IF l \cup r = b THEN {} ELSE x \cup y
  <2>1. CASE l \cup r = b
    BY <1>8, <1>10, <2>1
  <2>2. CASE l \cup r # b /\ l = {}
    <3>1. m = r
      BY <1>8, <2>2
    <3>2. x = {} /\ z = y
      BY <1>10, <2>2, <3>1
    <3> QED BY <2>2, <3>2
  <2>3. CASE l \cup r # b /\ r = {}
    <3>1. m = l
      BY <1>8, <2>3
    <3>2. y = {} /\ z = x
      BY <1>10, <2>3, <3>1
    <3> QED BY <2>3, <3>2
  <2> QED BY <1>7, <2>1, <2>2, <2>3
<1> QED BY <1>1, <1>6, <1>9, <1>11, Zenon DEF Here, LeftOf

(* One of the two is the case. *)
LEMMA OneOfTwo ==
  ASSUME NEW L, NEW R, NEW path, Len(path) \in Nat
  PROVE  BothThere(L, R, path) \/ \E j \in 1..Len(path) : EndsAt(L, R, path, j)
<1> DEFINE T == {k \in 1..Len(path) : Walk(L, path, k) = {} \/ Walk(R, path, k) = {}}
<1>1. SUFFICES ASSUME ~BothThere(L, R, path) PROVE \E j \in 1..Len(path) : EndsAt(L, R, path, j)
  OBVIOUS
<1>2. T # {} /\ T \in SUBSET Nat
  BY <1>1 DEF BothThere
<1>3. PICK j \in T : \A n \in T : j <= n
  BY <1>2, LeastNatural
<1>4. \A i \in 1..(j - 1) : i \in 1..Len(path) /\ i \notin T
  BY <1>3
<1>5. EndsAt(L, R, path, j)
  BY <1>3, <1>4 DEF EndsAt
<1> QED BY <1>3, <1>5

-----------------------------------------------------------------------------
(* From walks to the places the properties speak of.                       *)

(* Whatever two trees are merged, if the base agrees with them.            *)
LEMMA MergeAlong ==
  ASSUME NEW F \in Siblings(Node[MaxDepth]), NEW L \in Siblings(Node[MaxDepth]),
         NEW R \in Siblings(Node[MaxDepth]), NEW path \in Seq(Id), Len(path) \in 1..MaxDepth,
         \A k \in 1..Len(path) : Agreed(Walk(F, path, k), Walk(L, path, k), Walk(R, path, k)),
         NEW M, M = MergeChildren(MergeAt[MaxDepth], F, L, R).nodes
  PROVE  MergedAlong(F, L, R, M, path)
<1>1. MaxDepth \in Nat
  BY DepthPositive
<1>2. MergedByPlace(MaxDepth, F, L, R)
  BY <1>1, ChildVersions
<1>3. M \in Siblings(Node[MaxDepth]) /\ \A id : Lookup(M, id) = Child(MaxDepth, F, L, R, id).node
  BY <1>2, Zenon DEF MergedByPlace
<1>4. Walks(F, path) /\ Walks(L, path) /\ Walks(R, path) /\ Walks(M, path)
  BY <1>3, AllWalks
<1> QED BY <1>3, <1>4, Zenon DEF MergedAlong

(* Two nodes at one place have one id, so that they clash by their kinds.  *)
LEMMA ClashOfKinds ==
  ASSUME NEW L, NEW R, NEW path \in Seq(Id), Len(path) \in 1..MaxDepth, Walks(L, path), Walks(R, path)
  PROVE  ~KindClash(Places(L), Places(R), path) => Unclashed(L, R, path)
<1>1. SUFFICES ASSUME ~KindClash(Places(L), Places(R), path), NEW k \in 1..Len(path),
                      NEW x \in Walk(L, path, k), NEW y \in Walk(R, path, k)
               PROVE  SameNode(x, y)
  BY DEF Unclashed
<1>2. PICK l, r : l = Walk(L, path, k) /\ r = Walk(R, path, k)
  OBVIOUS
<1>3. PICK N : N = Node[(MaxDepth - k) + 1]
  OBVIOUS
<1>4. /\ l \in Option(N) /\ r \in Option(N)
      /\ \A n \in l : n.id = path[k]
      /\ \A n \in r : n.id = path[k]
  BY <1>2, <1>3, StepTypes, Zenon
<1>5. l = {x} /\ r = {y}
  BY <1>1, <1>2, <1>4 DEF Option
<1>6. PICK s : s = SubSeq(path, 1, k)
  OBVIOUS
<1>7. At(Places(L), s) = l /\ At(Places(R), s) = r
  BY <1>2, <1>6, Zenon DEF Walks, OnPath
<1>8. s \in Above(path)
  BY <1>6 DEF Above
<1>9. Field(Places(L), s, "kind") = Field(Places(R), s, "kind")
  <2>1. At(Places(L), s) # {} /\ At(Places(R), s) # {}
    BY <1>5, <1>7
  <2> QED BY <1>1, <1>8, <2>1, Zenon DEF KindClash
<1>10. {n.kind : n \in l} = {n.kind : n \in r}
  BY <1>7, <1>9, Zenon DEF Field
<1>11. x.kind = y.kind
  BY <1>5, <1>10
<1>12. x.id = y.id
  BY <1>4, <1>5
<1> QED BY <1>11, <1>12 DEF SameNode

(* Where a tree ends on the way. *)
LEMMA FirstMissingIs ==
  ASSUME NEW X, NEW path \in Seq(Id), Walks(X, path), NEW j \in 1..Len(path), Walk(X, path, j) = {},
         \A i \in 1..(j - 1) : Walk(X, path, i) # {}
  PROVE  FirstMissing(Places(X), path) = SubSeq(path, 1, j)
<1>1. PICK P, p : P = Places(X) /\ p = SubSeq(path, 1, j)
  OBVIOUS
<1> DEFINE T == Above(path) \ PathsOf(P)
<1>2. ASSUME NEW n \in 1..Len(path)
      PROVE  /\ SubSeq(path, 1, n) \in PathsOf(P) <=> Walk(X, path, n) # {}
             /\ Len(SubSeq(path, 1, n)) = n
  <2>1. SubSeq(path, 1, n) \in PathsOf(P) <=> Walk(X, path, n) # {}
    BY <1>1, Zenon DEF Walks, OnPath
  <2>2. IsStart(path, n, SubSeq(path, 1, n))
    BY StartType
  <2>3. Len(SubSeq(path, 1, n)) = n
    BY <2>2, Zenon DEF IsStart
  <2> QED BY <2>1, <2>3
<1>3. ASSUME NEW q \in T PROVE \E n \in 1..Len(path) : q = SubSeq(path, 1, n) /\ Len(q) = n /\ j <= n
  <2>1. PICK n \in 1..Len(path) : q = SubSeq(path, 1, n)
    BY DEF Above
  <2>2. Walk(X, path, n) = {} /\ Len(q) = n
    BY <1>2, <1>3, <2>1
  <2>3. ~(n \in 1..(j - 1))
    BY <2>2
  <2> QED BY <2>1, <2>2, <2>3
<1>4. p \in T /\ Len(p) = j
  <2>1. p \in Above(path)
    BY <1>1 DEF Above
  <2> QED BY <1>1, <1>2, <2>1
<1> DEFINE Least(q) == \A s \in T : Len(q) <= Len(s)
<1>5. Least(p)
  BY <1>3, <1>4
<1>6. ASSUME NEW q \in T, Least(q) PROVE q = p
  <2>1. PICK n \in 1..Len(path) : q = SubSeq(path, 1, n) /\ Len(q) = n /\ j <= n
    BY <1>3, <1>6
  <2>2. n <= j
    BY <1>4, <1>6, <2>1
  <2>3. n = j
    BY <2>1, <2>2
  <2> QED BY <1>1, <2>1, <2>3
<1>7. FirstMissing(P, path) = CHOOSE q \in T : Least(q)
  BY Zenon DEF FirstMissing
<1> HIDE DEF T, Least
<1>8. (CHOOSE q \in T : Least(q)) = p
  BY <1>4, <1>5, <1>6
<1> QED BY <1>1, <1>7, <1>8

\* The first place of a path at which a tree has nothing
IsEnd(X, path, j) == Walk(X, path, j) = {} /\ \A i \in 1..(j - 1) : Walk(X, path, i) # {}

(* Where the other side's tree has ended, a node survives if what that     *)
(* side lacks is not what the base has.                                    *)
LEMMA ChangedIs ==
  ASSUME NEW F, NEW X, NEW Y, NEW path \in Seq(Id), Walks(F, path), Walks(X, path), Walks(Y, path),
         NEW j \in 1..Len(path), IsEnd(Y, path, j)
  PROVE  Changed(Places(F), Places(X), Places(Y), path) <=> Walk(X, path, j) # Walk(F, path, j)
<1>1. FirstMissing(Places(Y), path) = SubSeq(path, 1, j)
  BY FirstMissingIs DEF IsEnd
<1>2. /\ At(Places(X), SubSeq(path, 1, j)) = Walk(X, path, j)
      /\ At(Places(F), SubSeq(path, 1, j)) = Walk(F, path, j)
  BY Zenon DEF Walks, OnPath
<1> QED BY <1>1, <1>2, Zenon DEF Changed

(* Where one tree ends on the way to a node of the other. *)
Ended(F, X, Y, path, j) ==
  Here(X, path) # {} =>
    /\ IsEnd(Y, path, j)
    /\ Here(Y, path) = {}
    /\ Walk(X, path, j) = Walk(F, path, j) => Here(X, path) = Here(F, path)
    /\ LeftOf(F, X, Y, path, j) = IF Walk(X, path, j) = Walk(F, path, j) THEN {} ELSE Here(X, path)

(* Below the end of one tree only the other has nodes.                     *)
LEMMA EndedType ==
  ASSUME NEW F, NEW X, NEW Y, NEW path \in Seq(Id), Walks(F, path), Walks(X, path), Walks(Y, path),
         NEW j \in 1..Len(path), EndsAt(X, Y, path, j)
  PROVE  Ended(F, X, Y, path, j)
<1>1. SUFFICES ASSUME Here(X, path) # {} PROVE Ended(F, X, Y, path, j)
  BY Zenon DEF Ended
<1>2. PICK k : k = Len(path)
  OBVIOUS
<1>3. k \in j..Len(path)
  BY <1>2
<1>4. /\ Walk(X, path, j) = {} => Walk(X, path, k) = {}
      /\ Walk(Y, path, j) = {} => Walk(Y, path, k) = {}
      /\ Walk(X, path, j) = Walk(F, path, j) => Walk(X, path, k) = Walk(F, path, k)
  BY <1>3, BelowTheSame
<1>5. Walk(X, path, k) = Here(X, path) /\ Walk(Y, path, k) = Here(Y, path)
      /\ Walk(F, path, k) = Here(F, path)
  BY <1>2, Zenon DEF Here
<1>6. Walk(X, path, j) # {}
  BY <1>1, <1>4, <1>5, Zenon
<1>7. Walk(Y, path, j) = {} /\ \A i \in 1..(j - 1) : Walk(Y, path, i) # {}
  BY <1>6, Zenon DEF EndsAt
<1>a. IsEnd(Y, path, j)
  BY <1>7, Zenon DEF IsEnd
<1>8. Here(Y, path) = {}
  BY <1>4, <1>5, <1>7, Zenon
<1>9. LeftOf(F, X, Y, path, j) = IF Walk(X, path, j) = Walk(F, path, j) THEN {} ELSE Here(X, path)
  <2>1. PICK x, h : x = Walk(X, path, j) /\ h = Here(X, path)
    OBVIOUS
  <2>2. LeftOf(F, X, Y, path, j) = IF x \cup {} = Walk(F, path, j) THEN {} ELSE h \cup {}
    BY <1>7, <1>8, <2>1, Zenon DEF LeftOf
  <2>3. x \cup {} = x /\ h \cup {} = h
    OBVIOUS
  <2> QED BY <2>1, <2>2, <2>3, Zenon
<1> QED BY <1>4, <1>5, <1>a, <1>8, <1>9, Zenon DEF Ended

(* Both names of one place. *)
LEMMA EndsBothWays ==
  ASSUME NEW F, NEW X, NEW Y, NEW path, NEW j
  PROVE  /\ EndsAt(X, Y, path, j) => EndsAt(Y, X, path, j)
         /\ LeftOf(F, X, Y, path, j) = LeftOf(F, Y, X, path, j)
<1>1. EndsAt(X, Y, path, j) => EndsAt(Y, X, path, j)
  BY Zenon DEF EndsAt
<1>2. \A a, b : a \cup b = b \cup a
  OBVIOUS
<1>3. LeftOf(F, X, Y, path, j) = LeftOf(F, Y, X, path, j)
  BY <1>2, Zenon DEF LeftOf
<1> QED BY <1>1, <1>3

(* A path is one of a tree if there is a node at it. *)
LEMMA PathIs ==
  ASSUME NEW X, NEW path, Walks(X, path)
  PROVE  /\ path \in PathsOf(Places(X)) <=> Here(X, path) # {}
         /\ \A f : Field(Places(X), path, f) = Values(Here(X, path), f)
BY Zenon DEF Walks, OnPath, Here, Field, Values

(* The places of the merged tree (SurvivorsAreExact). *)
LEMMA ExactAlong ==
  ASSUME NEW F, NEW L, NEW R, NEW M, NEW path, MergedAlong(F, L, R, M, path), Unclashed(L, R, path)
  PROVE  path \in PathsOf(Places(M)) <=> Survives(Places(F), Places(L), Places(R), path)
<1>1. /\ path \in Seq(Id) /\ Len(path) \in Nat
      /\ Walks(F, path) /\ Walks(L, path) /\ Walks(R, path) /\ Walks(M, path)
  BY DEF MergedAlong
<1>2. PICK l, r, m : l = Here(L, path) /\ r = Here(R, path) /\ m = Here(M, path)
  OBVIOUS
<1>3. PICK c, e : /\ c = Changed(Places(F), Places(L), Places(R), path)
                  /\ e = Changed(Places(F), Places(R), Places(L), path)
  OBVIOUS
<1>4. /\ path \in PathsOf(Places(L)) <=> l # {}
      /\ path \in PathsOf(Places(R)) <=> r # {}
      /\ path \in PathsOf(Places(M)) <=> m # {}
  BY <1>1, <1>2, PathIs, Zenon
<1>5. Survives(Places(F), Places(L), Places(R), path)
        <=> (l # {} /\ r # {}) \/ (l # {} /\ r = {} /\ c) \/ (r # {} /\ l = {} /\ e)
  BY <1>3, <1>4 DEF Survives
<1>6. CASE BothThere(L, R, path)
  <2>1. m # {}
    BY <1>2, <1>6, BothMerged, Zenon DEF KeepsEdits
  <2>2. l # {} /\ r # {}
    <3>1. Len(path) \in 1..Len(path)
      BY DEF MergedAlong
    <3> QED BY <1>2, <1>6, <3>1, Zenon DEF BothThere, Here
  <2> QED BY <1>4, <1>5, <2>1, <2>2, Zenon
<1>7. ASSUME NEW j \in 1..Len(path), EndsAt(L, R, path, j)
      PROVE  path \in PathsOf(Places(M)) <=> Survives(Places(F), Places(L), Places(R), path)
  <2>1. m = LeftOf(F, L, R, path, j) /\ m = LeftOf(F, R, L, path, j)
    <3>1. Here(M, path) = LeftOf(F, L, R, path, j)
      BY <1>7, OneMerged
    <3>2. LeftOf(F, L, R, path, j) = LeftOf(F, R, L, path, j)
      BY EndsBothWays
    <3> QED BY <1>2, <3>1, <3>2, Zenon
  <2>2. Ended(F, L, R, path, j) /\ Ended(F, R, L, path, j)
    BY <1>1, <1>7, EndedType, EndsBothWays, Zenon
  <2>3. CASE l # {}
    <3>1. /\ IsEnd(R, path, j)
          /\ r = {}
          /\ m = IF Walk(L, path, j) = Walk(F, path, j) THEN {} ELSE l
      BY <1>2, <2>1, <2>2, <2>3, Zenon DEF Ended
    <3>2. c <=> Walk(L, path, j) # Walk(F, path, j)
      <4>1. Changed(Places(F), Places(L), Places(R), path) <=> Walk(L, path, j) # Walk(F, path, j)
        BY <1>1, <3>1, ChangedIs, Zenon
      <4> QED BY <1>3, <4>1, Zenon
    <3> QED BY <1>4, <1>5, <2>3, <3>1, <3>2, Zenon
  <2>4. CASE r # {}
    <3>1. /\ IsEnd(L, path, j)
          /\ l = {}
          /\ m = IF Walk(R, path, j) = Walk(F, path, j) THEN {} ELSE r
      BY <1>2, <2>1, <2>2, <2>4, Zenon DEF Ended
    <3>2. e <=> Walk(R, path, j) # Walk(F, path, j)
      <4>1. Changed(Places(F), Places(R), Places(L), path) <=> Walk(R, path, j) # Walk(F, path, j)
        BY <1>1, <3>1, ChangedIs, Zenon
      <4> QED BY <1>3, <4>1, Zenon
    <3> QED BY <1>4, <1>5, <2>4, <3>1, <3>2, Zenon
  <2>5. CASE l = {} /\ r = {}
    <3>1. m = {}
      BY <1>2, <2>1, <2>5 DEF LeftOf
    <3> QED BY <1>4, <1>5, <2>5, <3>1, Zenon
  <2> QED BY <2>3, <2>4, <2>5, Zenon
<1> QED BY <1>1, <1>6, <1>7, OneOfTwo

(* The fields of the merged tree (EditsSurvive). *)
EditsKept(F, L, R, M, path, f) ==
  /\ Edited(Places(F), Places(R), path, f) =>
       Field(Places(M), path, f) = Field(Places(R), path, f)
  /\ Edited(Places(F), Places(L), path, f) /\ ~Edited(Places(F), Places(R), path, f) =>
       Field(Places(M), path, f) = Field(Places(L), path, f)

(* A field of the merged tree has the value of the side that edited it.    *)
LEMMA EditsAlong ==
  ASSUME NEW F, NEW L, NEW R, NEW M, NEW path, MergedAlong(F, L, R, M, path), Unclashed(L, R, path),
         NEW f \in Scalars
  PROVE  EditsKept(F, L, R, M, path, f)
<1>1. /\ path \in Seq(Id) /\ Len(path) \in Nat
      /\ Walks(F, path) /\ Walks(L, path) /\ Walks(R, path) /\ Walks(M, path)
  BY DEF MergedAlong
<1>2. PICK b, l, r, m : b = Here(F, path) /\ l = Here(L, path) /\ r = Here(R, path) /\ m = Here(M, path)
  OBVIOUS
<1>3. /\ Field(Places(F), path, f) = Values(b, f) /\ Field(Places(L), path, f) = Values(l, f)
      /\ Field(Places(R), path, f) = Values(r, f) /\ Field(Places(M), path, f) = Values(m, f)
  BY <1>1, <1>2, PathIs, Zenon
<1>4. /\ Edited(Places(F), Places(R), path, f) <=> Values(r, f) \notin {{}, Values(b, f)}
      /\ Edited(Places(F), Places(L), path, f) <=> Values(l, f) \notin {{}, Values(b, f)}
  BY <1>3, Zenon DEF Edited
<1>5. \A o : Values(o, f) = {} <=> o = {}
  BY DEF Values
<1>6. SUFFICES /\ Values(r, f) \notin {{}, Values(b, f)} => Values(m, f) = Values(r, f)
               /\ Values(l, f) \notin {{}, Values(b, f)} /\ ~(Values(r, f) \notin {{}, Values(b, f)}) =>
                    Values(m, f) = Values(l, f)
  BY <1>3, <1>4, Zenon DEF EditsKept
<1>7. CASE BothThere(L, R, path)
  <2>1. /\ Values(r, f) \notin {{}, Values(b, f)} => Values(m, f) = Values(r, f)
        /\ Values(l, f) \notin {{}, Values(b, f)} /\ Values(r, f) = Values(b, f) =>
             Values(m, f) = Values(l, f)
    <3>1. KeepsEdits(Here(F, path), Here(L, path), Here(R, path), Here(M, path))
      BY <1>7, BothMerged
    <3> QED BY <1>2, <3>1, Zenon DEF KeepsEdits
  <2>2. r # {}
    <3>1. Len(path) \in 1..Len(path)
      BY DEF MergedAlong
    <3> QED BY <1>2, <1>7, <3>1, Zenon DEF BothThere, Here
  <2> QED BY <1>5, <2>1, <2>2
<1>8. ASSUME NEW j \in 1..Len(path), EndsAt(L, R, path, j)
      PROVE  /\ Values(r, f) \notin {{}, Values(b, f)} => Values(m, f) = Values(r, f)
             /\ Values(l, f) \notin {{}, Values(b, f)} => Values(m, f) = Values(l, f)
  <2>1. m = LeftOf(F, L, R, path, j) /\ m = LeftOf(F, R, L, path, j)
    <3>1. Here(M, path) = LeftOf(F, L, R, path, j)
      BY <1>8, OneMerged
    <3>2. LeftOf(F, L, R, path, j) = LeftOf(F, R, L, path, j)
      BY EndsBothWays
    <3> QED BY <1>2, <3>1, <3>2, Zenon
  <2>2. Ended(F, L, R, path, j) /\ Ended(F, R, L, path, j)
    BY <1>1, <1>8, EndedType, EndsBothWays, Zenon
  <2>3. /\ l # {} /\ l # b => m = l
        /\ r # {} /\ r # b => m = r
    BY <1>2, <2>1, <2>2, Zenon DEF Ended
  <2>4. /\ Values(r, f) \notin {{}, Values(b, f)} => r # {} /\ r # b
        /\ Values(l, f) \notin {{}, Values(b, f)} => l # {} /\ l # b
    BY <1>5
  <2> QED BY <2>3, <2>4, Zenon
<1> QED BY <1>1, <1>7, <1>8, OneOfTwo, Zenon

-----------------------------------------------------------------------------
(* What is at the places of a snapshot are nodes of its profile.           *)
AreTrees(p, nodes) == \A i \in DOMAIN nodes : \E e \in Nat, c \in DOMAIN p.node : nodes[i] = Trees(p)[e][c]

(* The children of what is at a place are trees of the profile.            *)
LEMMA FoldersOfTrees ==
  ASSUME NEW p, IsProfile(p), NEW nodes, IsSnapshot(p, nodes),
         NEW path \in Seq(Id), Len(path) \in 1..MaxDepth, NEW k \in 0..Len(path)
  PROVE  AreTrees(p, Under(Walk(nodes, path, k)))
<1> DEFINE S == {n \in Nat : n \in 0..Len(path) => AreTrees(p, Under(Walk(nodes, path, n)))}
<1>0. MaxDepth \in Nat /\ Len(path) \in Nat
  BY DepthPositive
<1>1. nodes \in Siblings(Node[MaxDepth]) /\ AreTrees(p, nodes)
  BY Zenon DEF IsSnapshot, AreTrees
<1>2. Walks(nodes, path)
  BY <1>1, AllWalks
<1>3. AreTrees(p, Under(Walk(nodes, path, 0)))
  <2>1. Under(Walk(nodes, path, 0)) = nodes
    BY WalkStart
  <2> QED BY <1>1, <2>1, Zenon
<1>4. ASSUME NEW n \in 0..(Len(path) - 1), AreTrees(p, Under(Walk(nodes, path, n)))
      PROVE  AreTrees(p, Under(Walk(nodes, path, n + 1)))
  <2>1. PICK o, s, N : /\ o = Walk(nodes, path, n + 1) /\ s = Under(Walk(nodes, path, n))
                       /\ N = Node[MaxDepth - n]
    OBVIOUS
  <2>2. o = Lookup(s, path[n + 1]) /\ o \in Option(N)
    BY <1>2, <1>4, <2>1, Zenon DEF Walks
  <2>3. CASE o = {}
    <3>1. Under(o) = <<>> /\ DOMAIN <<>> = {}
      BY <2>3, UnderCases
    <3>2. DOMAIN Under(o) = {}
      BY <3>1
    <3> QED BY <2>1, <3>2, Zenon DEF AreTrees
  <2>4. ASSUME NEW x, o = {x} PROVE AreTrees(p, Under(o))
    <3>1. x \in ToSet(s)
      BY <2>2, <2>4 DEF Lookup
    <3>2. PICK i \in DOMAIN s : x = s[i]
      BY <3>1 DEF ToSet
    <3>3. \E e \in Nat, c \in DOMAIN p.node : x = Trees(p)[e][c]
      BY <1>4, <2>1, <3>2, Zenon DEF AreTrees
    <3>4. PICK e \in Nat, c \in DOMAIN p.node : x = Trees(p)[e][c]
      BY <3>3, Zenon
    <3>5. TreesTyped(p, e)
      BY TreesAreTyped
    <3>6. TreeOf(p, e, c, x)
      BY <3>4, <3>5, Zenon DEF TreesTyped
    <3>7. AreTrees(p, x.children)
      BY <3>6, Zenon DEF TreeOf, AreTrees
    <3>8. Under(o) = x.children
      BY <2>4, UnderCases
    <3> QED BY <3>7, <3>8, Zenon
  <2>5. o = {} \/ \E x \in N : o = {x}
    BY <2>2, OptionCases
  <2> QED BY <2>1, <2>3, <2>4, <2>5, Zenon
<1>5. 0 \in S /\ \A n \in Nat : n \in S => n + 1 \in S
  <2>1. ASSUME NEW n \in Nat, n \in S, n + 1 \in 0..Len(path)
        PROVE  AreTrees(p, Under(Walk(nodes, path, n + 1)))
    <3>1. n \in 0..(Len(path) - 1) /\ n \in 0..Len(path)
      BY <1>0, <2>1
    <3> QED BY <1>4, <2>1, <3>1
  <2> QED BY <1>3, <2>1
<1> HIDE DEF S
<1>6. \A n \in Nat : n \in S
  BY <1>5, NatSetInduction
<1>7. k \in Nat /\ k \in S
  BY <1>0, <1>6
<1> QED BY <1>7 DEF S

(* A node at a place has the kind it has in the profile.                   *)
LEMMA KindsOfTrees ==
  ASSUME NEW p, IsProfile(p), NEW nodes, IsSnapshot(p, nodes),
         NEW path \in Seq(Id), Len(path) \in 1..MaxDepth, NEW k \in 1..Len(path),
         NEW n \in Walk(nodes, path, k)
  PROVE  n.id = path[k] /\ n.id \in DOMAIN p.node /\ n.kind = p.node[n.id].kind
<1>0. MaxDepth \in Nat /\ Len(path) \in Nat
  BY DepthPositive
<1>1. nodes \in Siblings(Node[MaxDepth])
  BY Zenon DEF IsSnapshot
<1>2. Walks(nodes, path)
  BY <1>1, AllWalks
<1>3. PICK j \in 0..(Len(path) - 1) : j + 1 = k
  <2>1. k - 1 \in 0..(Len(path) - 1) /\ (k - 1) + 1 = k
    BY <1>0
  <2> QED BY <2>1
<1>4. PICK s : s = Under(Walk(nodes, path, j))
  OBVIOUS
<1>5. n \in Lookup(s, path[k]) /\ n.id = path[k]
  BY <1>2, <1>3, <1>4, Zenon DEF Walks
<1>6. j \in 0..Len(path)
  BY <1>0, <1>3
<1>7. AreTrees(p, s)
  BY <1>4, <1>6, FoldersOfTrees
<1>8. PICK i \in DOMAIN s : n = s[i]
  BY <1>5 DEF Lookup, ToSet
<1>9. \E e \in Nat, c \in DOMAIN p.node : n = Trees(p)[e][c]
  BY <1>7, <1>8, Zenon DEF AreTrees
<1>10. PICK e \in Nat, c \in DOMAIN p.node : n = Trees(p)[e][c]
  BY <1>9, Zenon
<1>11. TreesTyped(p, e)
  BY TreesAreTyped
<1>12. TreeOf(p, e, c, n)
  BY <1>10, <1>11, Zenon DEF TreesTyped
<1>13. n.id = c /\ n.kind = p.node[c].kind
  BY <1>12, Zenon DEF TreeOf
<1> QED BY <1>5, <1>13, Zenon

(* The base and a side agree on what each node is.                         *)
LEMMA SideAgrees ==
  ASSUME NEW p, IsEdited(p), NEW F, IsSnapshot(Seed, F), NEW X, IsSnapshot(p, X),
         NEW path \in Seq(Id), Len(path) \in 1..MaxDepth, NEW k \in 1..Len(path),
         NEW x \in Walk(F, path, k), NEW y \in Walk(X, path, k)
  PROVE  SameNode(x, y)
<1>1. x.id = path[k] /\ x.id \in DOMAIN Seed.node /\ x.kind = Seed.node[x.id].kind
  BY SeedAssumption, KindsOfTrees
<1>2. y.id = path[k] /\ y.id \in DOMAIN p.node /\ y.kind = p.node[y.id].kind
  BY KindsOfTrees DEF IsEdited
<1>3. PICK id : id = path[k]
  OBVIOUS
<1>4. p.node[id].kind = Seed.node[id].kind
  BY <1>1, <1>2, <1>3, Zenon DEF IsEdited, KindsKept
<1>5. x.id = y.id /\ x.kind = y.kind
  BY <1>1, <1>2, <1>3, <1>4, Zenon
<1> QED BY <1>5, Zenon DEF SameNode

(* The two merges of a state.                                              *)
Back == Merge(base, Remote, Local)

(* Both merges of a state go along every path.                             *)
LEMMA StateAlong ==
  ASSUME MergeInv, NEW path \in Seq(Id), Len(path) \in 1..MaxDepth
  PROVE  /\ MergedAlong(Base, Local, Remote, Merged.nodes, path)
         /\ MergedAlong(Base, Remote, Local, Back.nodes, path)
<1>1. PICK F, L, R, M, B : F = Base /\ L = Local /\ R = Remote /\ M = Merged.nodes /\ B = Back.nodes
  OBVIOUS
<1>2. /\ F \in Siblings(Node[MaxDepth]) /\ L \in Siblings(Node[MaxDepth])
      /\ R \in Siblings(Node[MaxDepth])
      /\ IsSnapshot(Seed, F) /\ IsSnapshot(profile["local"], L) /\ IsSnapshot(profile["remote"], R)
  BY <1>1, TreesOfState, Zenon
<1>3. /\ M = MergeChildren(MergeAt[MaxDepth], F, L, R).nodes
      /\ B = MergeChildren(MergeAt[MaxDepth], F, R, L).nodes
  BY <1>1, TreesOfState, Zenon DEF Merged, Back
<1>4. PICK p, q : p = profile["local"] /\ q = profile["remote"]
  OBVIOUS
<1>5. IsEdited(p) /\ IsEdited(q)
  BY <1>4 DEF MergeInv, Side
<1>6. IsSnapshot(p, L) /\ IsSnapshot(q, R)
  BY <1>2, <1>4, Zenon
<1>7. ASSUME NEW k \in 1..Len(path)
      PROVE  /\ \A x \in Walk(F, path, k) : \A y \in Walk(L, path, k) : SameNode(x, y)
             /\ \A x \in Walk(F, path, k) : \A y \in Walk(R, path, k) : SameNode(x, y)
  <2>1. ASSUME NEW x \in Walk(F, path, k), NEW y \in Walk(L, path, k) PROVE SameNode(x, y)
    BY <1>2, <1>5, <1>6, SideAgrees
  <2>2. ASSUME NEW x \in Walk(F, path, k), NEW y \in Walk(R, path, k) PROVE SameNode(x, y)
    BY <1>2, <1>5, <1>6, SideAgrees
  <2> QED BY <2>1, <2>2
<1>8. /\ \A k \in 1..Len(path) : Agreed(Walk(F, path, k), Walk(L, path, k), Walk(R, path, k))
      /\ \A k \in 1..Len(path) : Agreed(Walk(F, path, k), Walk(R, path, k), Walk(L, path, k))
  BY <1>7, Zenon DEF Agreed
<1>9. MergedAlong(F, L, R, M, path) /\ MergedAlong(F, R, L, B, path)
  BY <1>2, <1>3, <1>8, MergeAlong
<1> QED BY <1>1, <1>9, Zenon

(* All paths of the trees of a state.                                      *)
LEMMA PathsOfState ==
  ASSUME MergeInv, NEW path,
         \/ path \in PathsOf(Places(Base)) \/ path \in PathsOf(Places(Local))
         \/ path \in PathsOf(Places(Remote)) \/ path \in PathsOf(Places(Merged.nodes))
         \/ path \in PathsOf(Places(Back.nodes))
  PROVE  path \in Seq(Id) /\ Len(path) \in 1..MaxDepth
<1>1. PICK F, L, R, M, B : F = Base /\ L = Local /\ R = Remote /\ M = Merged.nodes /\ B = Back.nodes
  OBVIOUS
<1>2. /\ F \in Siblings(Node[MaxDepth]) /\ L \in Siblings(Node[MaxDepth])
      /\ R \in Siblings(Node[MaxDepth])
  BY <1>1, TreesOfState, Zenon
<1>3. /\ M = MergeChildren(MergeAt[MaxDepth], F, L, R).nodes
      /\ B = MergeChildren(MergeAt[MaxDepth], F, R, L).nodes
  BY <1>1, TreesOfState, Zenon DEF Merged, Back
<1>4. MaxDepth \in Nat
  BY DepthPositive
<1>5. MergedByPlace(MaxDepth, F, L, R) /\ MergedByPlace(MaxDepth, F, R, L)
  BY <1>2, <1>4, ChildVersions
<1>6. M \in Siblings(Node[MaxDepth]) /\ B \in Siblings(Node[MaxDepth])
  BY <1>3, <1>5, Zenon DEF MergedByPlace
<1>7. \/ path \in PathsOf(Places(F)) \/ path \in PathsOf(Places(L))
      \/ path \in PathsOf(Places(R)) \/ path \in PathsOf(Places(M))
      \/ path \in PathsOf(Places(B))
  BY <1>1, Zenon
<1> QED BY <1>2, <1>6, <1>7, PathType

(* Both merges of a state, on a path without a clash.                      *)
LEMMA StateUnclashed ==
  ASSUME MergeInv, NEW path \in Seq(Id), Len(path) \in 1..MaxDepth,
         ~KindClash(Places(Local), Places(Remote), path)
  PROVE  /\ MergedAlong(Base, Local, Remote, Merged.nodes, path) /\ Unclashed(Local, Remote, path)
         /\ MergedAlong(Base, Remote, Local, Back.nodes, path) /\ Unclashed(Remote, Local, path)
<1>1. /\ MergedAlong(Base, Local, Remote, Merged.nodes, path)
      /\ MergedAlong(Base, Remote, Local, Back.nodes, path)
  BY StateAlong
<1>2. PICK L, R : L = Local /\ R = Remote
  OBVIOUS
<1>3. Walks(L, path) /\ Walks(R, path) /\ ~KindClash(Places(L), Places(R), path)
  BY <1>1, <1>2, Zenon DEF MergedAlong
<1>4. Unclashed(L, R, path)
  BY <1>3, ClashOfKinds
<1>5. Unclashed(R, L, path)
  BY <1>4 DEF Unclashed, SameNode
<1> QED BY <1>1, <1>2, <1>4, <1>5, Zenon

(* No edit of a field is undone (lib.rs:477-481): where both sides have a  *)
(* node MergeValue keeps it, and where one side's tree has ended the other *)
(* is kept whole because it is not what the base has.                      *)
THEOREM EditsAreKept == Spec => []EditsSurvive
<1>1. ASSUME MergeInv PROVE EditsSurvive
  <2>1. ASSUME NEW path \in PathsOf(Places(Local)) \cup PathsOf(Places(Remote)), NEW f \in Scalars,
               ~KindClash(Places(Local), Places(Remote), path)
        PROVE  /\ Edited(Places(Base), Places(Remote), path, f) =>
                    Field(Places(Merged.nodes), path, f) = Field(Places(Remote), path, f)
               /\ /\ Edited(Places(Base), Places(Local), path, f)
                  /\ ~Edited(Places(Base), Places(Remote), path, f)
                  => Field(Places(Merged.nodes), path, f) = Field(Places(Local), path, f)
    <3>1. path \in Seq(Id) /\ Len(path) \in 1..MaxDepth
      BY <1>1, <2>1, PathsOfState
    <3>2. MergedAlong(Base, Local, Remote, Merged.nodes, path) /\ Unclashed(Local, Remote, path)
      BY <1>1, <2>1, <3>1, StateUnclashed
    <3>3. EditsKept(Base, Local, Remote, Merged.nodes, path, f)
      BY <3>2, EditsAlong
    <3> QED BY <3>3, Zenon DEF EditsKept
  <2> QED BY <2>1, Zenon DEF EditsSurvive
<1> QED BY <1>1, ProfilesStayWhole, PTL

(* The merged tree has the places of the path-by-path reference, and no    *)
(* other (merge_optional_node).                                            *)
THEOREM MergedPlacesKnown == Spec => []SurvivorsAreExact
<1>1. ASSUME MergeInv PROVE SurvivorsAreExact
  <2>1. ASSUME NEW path \in PathsOf(Places(Local)) \cup PathsOf(Places(Remote))
                              \cup PathsOf(Places(Merged.nodes)),
               ~KindClash(Places(Local), Places(Remote), path)
        PROVE  path \in PathsOf(Places(Merged.nodes))
                 <=> Survives(Places(Base), Places(Local), Places(Remote), path)
    <3>1. path \in Seq(Id) /\ Len(path) \in 1..MaxDepth
      BY <1>1, <2>1, PathsOfState
    <3>2. MergedAlong(Base, Local, Remote, Merged.nodes, path) /\ Unclashed(Local, Remote, path)
      BY <1>1, <2>1, <3>1, StateUnclashed
    <3> QED BY <3>2, ExactAlong, Zenon
  <2> QED BY <2>1, Zenon DEF SurvivorsAreExact
<1> QED BY <1>1, ProfilesStayWhole, PTL

(* Survives does not tell the sides apart. *)
LEMMA SurvivesBothWays ==
  ASSUME NEW from, NEW local, NEW remote, NEW path
  PROVE  Survives(from, local, remote, path) <=> Survives(from, remote, local, path)
<1>1. path \in PathsOf(local) \cap PathsOf(remote) <=> path \in PathsOf(remote) \cap PathsOf(local)
  OBVIOUS
<1> QED BY <1>1, Zenon DEF Survives

(* The order of two syncs decides between two values and nothing else.     *)
THEOREM SidesAlike == Spec => []SidesAreEqual
<1>1. ASSUME MergeInv PROVE SidesAreEqual
  <2>1. Merged.conflicts = Back.conflicts
    <3>1. PICK d, F, L, R : d = MaxDepth /\ F = Base /\ L = Local /\ R = Remote
      OBVIOUS
    <3>2. d \in Nat /\ CountsAlike(d)
      BY <3>1, DepthPositive, MergeCountsAlike
    <3>3. F \in Siblings(Node[d]) /\ L \in Siblings(Node[d]) /\ R \in Siblings(Node[d])
      BY <1>1, <3>1, TreesOfState, Zenon
    <3>4. MergeChildren(MergeAt[d], F, L, R).conflicts = MergeChildren(MergeAt[d], F, R, L).conflicts
      BY <3>2, <3>3, ChildrenCountAlike
    <3>5. \A x, y : Merge(base, x, y) = MergeChildren(MergeAt[d], F, x, y)
      BY <1>1, <3>1, TreesOfState, Zenon
    <3> QED BY <3>1, <3>4, <3>5, Zenon DEF Merged, Back
  <2>2. ASSUME NEW path \in PathsOf(Places(Merged.nodes)) \cup PathsOf(Places(Back.nodes)),
               ~KindClash(Places(Local), Places(Remote), path)
        PROVE  path \in PathsOf(Places(Merged.nodes)) \cap PathsOf(Places(Back.nodes))
    <3>1. path \in Seq(Id) /\ Len(path) \in 1..MaxDepth
      BY <1>1, <2>2, PathsOfState
    <3>2. /\ MergedAlong(Base, Local, Remote, Merged.nodes, path) /\ Unclashed(Local, Remote, path)
          /\ MergedAlong(Base, Remote, Local, Back.nodes, path) /\ Unclashed(Remote, Local, path)
      BY <1>1, <2>2, <3>1, StateUnclashed
    <3>3. path \in PathsOf(Places(Merged.nodes))
            <=> Survives(Places(Base), Places(Local), Places(Remote), path)
      BY <3>2, ExactAlong, Zenon
    <3>4. path \in PathsOf(Places(Back.nodes))
            <=> Survives(Places(Base), Places(Remote), Places(Local), path)
      BY <3>2, ExactAlong, Zenon
    <3>5. path \in PathsOf(Places(Merged.nodes)) <=> path \in PathsOf(Places(Back.nodes))
      BY <3>3, <3>4, SurvivesBothWays, Zenon
    <3> QED BY <2>2, <3>5
  <2> QED BY <2>1, <2>2, Zenon DEF SidesAreEqual, Back
<1> QED BY <1>1, ProfilesStayWhole, PTL

(* Where the merge counts no conflict at all, none is counted on any path. *)
LEMMA NoConflictBelow ==
  ASSUME MergeInv, Merged.conflicts = 0, NEW path \in Seq(Id), Len(path) \in 1..MaxDepth
  PROVE  KeepsAll(Here(Base, path), Here(Local, path), Here(Remote, path), Here(Merged.nodes, path))
<1>1. PICK F, L, R, M : F = Base /\ L = Local /\ R = Remote /\ M = Merged.nodes
  OBVIOUS
<1>2. F \in Siblings(Node[MaxDepth]) /\ L \in Siblings(Node[MaxDepth]) /\ R \in Siblings(Node[MaxDepth])
  BY <1>1, TreesOfState, Zenon
<1>3. MergedAlong(F, L, R, M, path)
  <2>1. MergedAlong(Base, Local, Remote, Merged.nodes, path)
    BY StateAlong
  <2> QED BY <1>1, <2>1, Zenon
<1>4. MergeChildren(MergeAt[MaxDepth], F, L, R).conflicts = 0
  BY <1>1, TreesOfState, Zenon DEF Merged
<1>5. \A id : Child(MaxDepth, F, L, R, id).conflicts = 0
  <2>1. MaxDepth \in Nat
    BY DepthPositive
  <2>2. MergedByPlace(MaxDepth, F, L, R)
    BY <1>2, <2>1, ChildVersions
  <2> QED BY <1>4, <2>2, Zenon DEF MergedByPlace
<1>6. Result(F, L, R, path, 1).conflicts = 0
  <2>1. Result(F, L, R, path, 1) = Child(MaxDepth, F, L, R, path[1])
    BY <1>3, JoinedStart
  <2> QED BY <1>5, <2>1
<1>7. PICK k : k = Len(path)
  OBVIOUS
<1>8. k \in 1..Len(path)
  BY <1>7
<1>9. Quiet(F, L, R, M, path, k)
  BY <1>3, <1>6, <1>8, QuietDown
<1>10. Joined(F, L, R, M, path, k) /\ Result(F, L, R, path, k).conflicts = 0
  BY <1>9, Zenon DEF Quiet
<1>11. Keeps(Walk(F, path, k), Walk(L, path, k), Walk(R, path, k), Result(F, L, R, path, k))
  BY <1>3, <1>8, ResultKeeps
<1>12. KeepsAll(Walk(F, path, k), Walk(L, path, k), Walk(R, path, k), Walk(M, path, k))
  BY <1>10, <1>11, Zenon DEF Keeps, Joined
<1> QED BY <1>1, <1>7, <1>12, Zenon DEF Here

(* A merge that reports no conflict has lost no edit and undone no         *)
(* deletion (the count sync_profile_with_server shows to the user).        *)
THEOREM NoSilentConflict == Spec => []ConflictsAreCounted
<1>1. ASSUME MergeInv PROVE ConflictsAreCounted
  <2>1. SUFFICES ASSUME Merged.conflicts = 0
        PROVE /\ \A side \in {Places(Local), Places(Remote)} : \A path \in PathsOf(side), f \in Scalars :
                   Edited(Places(Base), side, path, f) =>
                     Field(Places(Merged.nodes), path, f) = Field(side, path, f)
              /\ PathsOf(Places(Base)) \cap PathsOf(Places(Merged.nodes))
                   \subseteq PathsOf(Places(Local)) \cap PathsOf(Places(Remote))
    BY Zenon DEF ConflictsAreCounted
  <2>2. ASSUME NEW path \in Seq(Id), Len(path) \in 1..MaxDepth
        PROVE  /\ path \in PathsOf(Places(Base)) /\ path \in PathsOf(Places(Merged.nodes)) =>
                    path \in PathsOf(Places(Local)) /\ path \in PathsOf(Places(Remote))
               /\ \A f \in Scalars :
                    /\ Edited(Places(Base), Places(Remote), path, f) =>
                         Field(Places(Merged.nodes), path, f) = Field(Places(Remote), path, f)
                    /\ Edited(Places(Base), Places(Local), path, f) =>
                         Field(Places(Merged.nodes), path, f) = Field(Places(Local), path, f)
    <3>1. PICK F, L, R, M : F = Base /\ L = Local /\ R = Remote /\ M = Merged.nodes
      OBVIOUS
    <3>2. KeepsAll(Here(F, path), Here(L, path), Here(R, path), Here(M, path))
      <4>1. KeepsAll(Here(Base, path), Here(Local, path), Here(Remote, path), Here(Merged.nodes, path))
        BY <1>1, <2>1, <2>2, NoConflictBelow
      <4> QED BY <3>1, <4>1, Zenon
    <3>3. Walks(F, path) /\ Walks(L, path) /\ Walks(R, path) /\ Walks(M, path)
      <4>1. MergedAlong(Base, Local, Remote, Merged.nodes, path)
        BY <1>1, <2>2, StateAlong
      <4>2. MergedAlong(F, L, R, M, path)
        BY <3>1, <4>1, Zenon
      <4> QED BY <4>2, Zenon DEF MergedAlong
    <3>4. \A X \in {F, L, R, M} :
            /\ path \in PathsOf(Places(X)) <=> Here(X, path) # {}
            /\ \A f : Field(Places(X), path, f) = Values(Here(X, path), f)
      BY <3>3, PathIs
    <3>5. /\ path \in PathsOf(Places(F)) /\ path \in PathsOf(Places(M)) =>
               path \in PathsOf(Places(L)) /\ path \in PathsOf(Places(R))
          /\ \A f \in Scalars :
               /\ Edited(Places(F), Places(R), path, f) => Field(Places(M), path, f) = Field(Places(R), path, f)
               /\ Edited(Places(F), Places(L), path, f) => Field(Places(M), path, f) = Field(Places(L), path, f)
      BY <3>2, <3>4 DEF KeepsAll, Edited
    <3> QED BY <3>1, <3>5, Zenon
  <2>3. \A path \in PathsOf(Places(Base)) \cup PathsOf(Places(Local)) \cup PathsOf(Places(Remote)) :
          path \in Seq(Id) /\ Len(path) \in 1..MaxDepth
    BY <1>1, PathsOfState
  <2>4. PathsOf(Places(Base)) \cap PathsOf(Places(Merged.nodes))
          \subseteq PathsOf(Places(Local)) \cap PathsOf(Places(Remote))
    BY <2>2, <2>3
  <2>5. /\ \A path \in PathsOf(Places(Local)), f \in Scalars :
             Edited(Places(Base), Places(Local), path, f) =>
               Field(Places(Merged.nodes), path, f) = Field(Places(Local), path, f)
        /\ \A path \in PathsOf(Places(Remote)), f \in Scalars :
             Edited(Places(Base), Places(Remote), path, f) =>
               Field(Places(Merged.nodes), path, f) = Field(Places(Remote), path, f)
    BY <2>2, <2>3
  <2>6. \A x, y : \A side \in {x, y} : side = x \/ side = y
    OBVIOUS
  <2> QED BY <2>4, <2>5, <2>6, Zenon
<1> QED BY <1>1, ProfilesStayWhole, PTL

=============================================================================
