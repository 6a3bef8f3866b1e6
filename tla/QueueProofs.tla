----------------------------- MODULE QueueProofs -----------------------------
(***************************************************************************)
(* Proofs about the heap of waiting items: whatever Up and Down rearrange, *)
(* Push, Pop and Remove treat the items of a heap as a bag.                *)
(***************************************************************************)
EXTENDS JobQueue, WellFoundedInduction, FiniteSetTheorems, TLAPS

BE == INSTANCE BagsExt

-----------------------------------------------------------------------------
(* Loops.  A loop over a set D goes from d to step[d] until it is in stop   *)
(* and then returns out[d]; the measure m decreases.                        *)

Loop(D, stop, step, m) ==
  /\ step \in [D -> D] /\ m \in [D -> Nat]
  /\ \A d \in D : d \notin stop => m[step[d]] < m[d]

Returns(f, D, stop, step, out) ==
  f = [d \in D |-> IF d \in stop THEN out[d] ELSE f[step[d]]]

\* Every set of natural numbers has a least one.
LEMMA LeastPosition ==
  ASSUME NEW S \in SUBSET Nat, S # {}
  PROVE  \E m \in S : \A k \in S : m <= k
<1> DEFINE R == {ss \in Nat \X Nat : ss[1] < ss[2]}
<1>1. IsWellFoundedOn(R, Nat)
  BY NatLessThanWellFounded DEF OpToRel
<1>2. PICK m \in S : \A k \in S : <<k, m>> \notin R
  <2> HIDE DEF R
  <2> QED
    BY <1>1, WFMin
<1>3. ASSUME NEW k \in S
      PROVE  m <= k
  <2>1. <<k, m>> \in Nat \X Nat /\ <<k, m>>[1] = k /\ <<k, m>>[2] = m
    BY <1>2
  <2>2. ~(k < m)
    BY <1>2, <2>1
  <2> QED
    BY <2>2
<1> QED
  BY <1>3

\* Every natural number is in a set that contains 0 and, with a number, the next.
LEMMA Inductive ==
  ASSUME NEW S \in SUBSET Nat, 0 \in S, \A n \in S : n + 1 \in S
  PROVE  S = Nat
<1> SUFFICES ASSUME Nat \ S # {}
             PROVE  FALSE
  OBVIOUS
<1>1. PICK m \in Nat \ S : \A k \in Nat \ S : m <= k
  BY LeastPosition
<1>2. m \in Nat /\ m # 0 /\ m - 1 \in Nat /\ (m - 1) + 1 = m
  OBVIOUS
<1>3. m - 1 \in S
  BY <1>1, <1>2
<1> QED
  BY <1>1, <1>2, <1>3

\* A loop that comes to its end computes something: its equation has a solution.
LEMMA LoopExists ==
  ASSUME NEW D, NEW stop, NEW step, NEW out, NEW m, Loop(D, stop, step, m)
  PROVE  \E f : Returns(f, D, stop, step, out)
<1> DEFINE Below(n) == {d \in D : m[d] < n}
           Solves(g, n) == g = [d \in Below(n) |-> IF d \in stop THEN out[d] ELSE g[step[d]]]
           S == {n \in Nat : \E g : Solves(g, n)}
           Same(d) == \A k, l \in Nat : \A g, h :
             d \in Below(k) /\ d \in Below(l) /\ Solves(g, k) /\ Solves(h, l) => g[d] = h[d]
           U == {n \in Nat : \A d \in Below(n) : Same(d)}
<1>0. ASSUME NEW d \in D
      PROVE  /\ m[d] \in Nat /\ step[d] \in D /\ m[step[d]] \in Nat
             /\ d \notin stop => m[step[d]] < m[d]
             /\ \A n \in Nat : d \in Below(n + 1) /\ d \notin stop => step[d] \in Below(n)
  BY DEF Loop
<1>1. S = Nat
  <2>1. 0 \in S
    <3>1. Below(0) = {}
      BY <1>0
    <3>2. Solves([d \in {} |-> 0], 0)
      BY <3>1
    <3> QED
      BY <3>2
  <2>2. ASSUME NEW n \in S
        PROVE  n + 1 \in S
    <3>1. PICK g : Solves(g, n)
      OBVIOUS
    <3> DEFINE h == [d \in Below(n + 1) |-> IF d \in stop THEN out[d] ELSE g[step[d]]]
    <3>2. ASSUME NEW d \in Below(n)
          PROVE  h[d] = g[d]
      BY <3>1, <1>0
    <3>3. ASSUME NEW d \in Below(n + 1), d \notin stop
          PROVE  g[step[d]] = h[step[d]]
      BY <1>0, <3>2, <3>3
    <3>4. h = [d \in Below(n + 1) |-> IF d \in stop THEN out[d] ELSE h[step[d]]]
      BY <3>3
    <3> HIDE DEF h
    <3>5. Solves(h, n + 1)
      BY <3>4
    <3>6. n + 1 \in Nat
      OBVIOUS
    <3> QED
      BY <3>5, <3>6
  <2>3. S \in SUBSET Nat
    OBVIOUS
  <2> HIDE DEF S
  <2> QED
    BY <2>1, <2>2, <2>3, Inductive
<1>2. U = Nat
  <2>1. 0 \in U
    BY <1>0
  <2>2. ASSUME NEW n \in U
        PROVE  n + 1 \in U
    <3>1. SUFFICES ASSUME NEW d \in Below(n + 1), NEW k \in Nat, NEW l \in Nat, NEW g, NEW h,
                          d \in Below(k), d \in Below(l), Solves(g, k), Solves(h, l)
                   PROVE  g[d] = h[d]
      OBVIOUS
    <3>2. /\ g[d] = IF d \in stop THEN out[d] ELSE g[step[d]]
          /\ h[d] = IF d \in stop THEN out[d] ELSE h[step[d]]
      BY <3>1
    <3>3. CASE d \notin stop
      <4>1. step[d] \in Below(n) /\ step[d] \in Below(k) /\ step[d] \in Below(l)
        BY <1>0, <3>1, <3>3
      <4>2. Same(step[d])
        BY <4>1
      <4>3. g[step[d]] = h[step[d]]
        <5> HIDE DEF Solves, Below
        <5> QED
          BY <3>1, <4>1, <4>2
      <4> QED
        BY <3>2, <4>3
    <3> QED
      BY <3>2, <3>3
  <2>3. U \in SUBSET Nat
    OBVIOUS
  <2> HIDE DEF U
  <2> QED
    BY <2>1, <2>2, <2>3, Inductive
<1> DEFINE Sol(n) == CHOOSE g : Solves(g, n)
           f == [d \in D |-> Sol(m[d] + 1)[d]]
<1>3. ASSUME NEW n \in Nat
      PROVE  Solves(Sol(n), n)
  <2>1. \E g : Solves(g, n)
    BY <1>1
  <2> HIDE DEF Solves
  <2> QED
    BY <2>1
<1>4. ASSUME NEW d \in D, d \notin stop
      PROVE  Sol(m[d] + 1)[d] = f[step[d]]
  <2> DEFINE g == Sol(m[d] + 1)
             h == Sol(m[step[d]] + 1)
  <2>1. m[d] + 1 \in Nat /\ m[step[d]] + 1 \in Nat /\ m[step[d]] < m[d]
    BY <1>0, <1>4
  <2>2. Solves(g, m[d] + 1) /\ Solves(h, m[step[d]] + 1)
    BY <1>3, <2>1
  <2>3. f[step[d]] = h[step[d]]
    BY <1>0
  <2> HIDE DEF g, h, Sol, f
  <2>4. g[d] = g[step[d]]
    <3>1. d \in Below(m[d] + 1)
      BY <1>0
    <3> QED
      BY <1>4, <2>2, <3>1
  <2>5. step[d] \in Below(m[step[d]] + 1) /\ step[d] \in Below(m[d] + 1)
    BY <1>0, <2>1
  <2>6. Same(step[d])
    <3>1. m[step[d]] + 1 \in U
      BY <1>2, <2>1
    <3> QED
      BY <2>5, <3>1
  <2>7. g[step[d]] = h[step[d]]
    <3> HIDE DEF Solves, Below
    <3> QED
      BY <2>1, <2>2, <2>5, <2>6
  <2> QED
    BY <2>3, <2>4, <2>7 DEF g
<1>5. ASSUME NEW d \in D, d \in stop
      PROVE  Sol(m[d] + 1)[d] = out[d]
  <2>1. m[d] + 1 \in Nat /\ d \in Below(m[d] + 1)
    BY <1>0
  <2>2. Solves(Sol(m[d] + 1), m[d] + 1)
    BY <1>3, <2>1
  <2> HIDE DEF Sol
  <2> QED
    BY <1>5, <2>1, <2>2
<1>6. f = [d \in D |-> IF d \in stop THEN out[d] ELSE f[step[d]]]
  <2> HIDE DEF Sol
  <2>1. ASSUME NEW d \in D
        PROVE  Sol(m[d] + 1)[d] = IF d \in stop THEN out[d] ELSE f[step[d]]
    BY <1>4, <1>5
  <2> QED
    BY <2>1
<1> HIDE DEF f
<1> QED
  BY <1>6 DEF Returns

\* What holds of a place where a loop stops and of what it returns there, and
\* before a step if after it, holds of every place and what the loop returns.
LEMMA LoopReturns ==
  ASSUME NEW D, NEW stop, NEW step, NEW out, NEW m, Loop(D, stop, step, m),
         NEW f, Returns(f, D, stop, step, out), NEW good,
         \A d \in D : d \in stop => <<d, out[d]>> \in good,
         \A d \in D : \A v : d \notin stop /\ <<step[d], v>> \in good => <<d, v>> \in good
  PROVE  \A d \in D : <<d, f[d]>> \in good
<1> DEFINE S == {n \in Nat : \A d \in D : m[d] < n => <<d, f[d]>> \in good}
<1>0. ASSUME NEW d \in D
      PROVE  /\ m[d] \in Nat /\ step[d] \in D /\ m[step[d]] \in Nat
             /\ d \notin stop => m[step[d]] < m[d] /\ f[d] = f[step[d]]
             /\ d \in stop => f[d] = out[d]
  BY DEF Loop, Returns
<1>1. 0 \in S
  BY <1>0
<1>2. ASSUME NEW n \in S
      PROVE  n + 1 \in S
  <2>1. ASSUME NEW d \in D, m[d] < n + 1
        PROVE  <<d, f[d]>> \in good
    <3>1. CASE d \in stop
      <4>1. f[d] = out[d]
        BY <1>0, <3>1
      <4> QED
        BY <3>1, <4>1
    <3>2. CASE d \notin stop
      <4>1. f[d] = f[step[d]] /\ step[d] \in D
        BY <1>0, <3>2
      <4>2. m[step[d]] < n
        BY <1>0, <2>1, <3>2
      <4>3. <<step[d], f[step[d]]>> \in good
        BY <4>1, <4>2
      <4> QED
        BY <3>2, <4>1, <4>3
    <3> QED
      BY <3>1, <3>2
  <2>2. n + 1 \in Nat
    OBVIOUS
  <2> QED
    BY <2>1, <2>2
<1>3. S = Nat
  <2>1. S \in SUBSET Nat
    OBVIOUS
  <2> HIDE DEF S
  <2> QED
    BY <1>1, <1>2, <2>1, Inductive
<1>4. ASSUME NEW d \in D
      PROVE  <<d, f[d]>> \in good
  <2>1. m[d] + 1 \in S /\ m[d] < m[d] + 1
    <3>1. m[d] + 1 \in Nat /\ m[d] < m[d] + 1
      BY <1>0
    <3> HIDE DEF S
    <3> QED
      BY <1>3, <3>1
  <2> QED
    BY <2>1
<1> QED
  BY <1>4

-----------------------------------------------------------------------------
(* The items of a heap and their copies.                                    *)

Copies(q, x) == Cardinality({i \in 1 .. Len(q) : q[i] = x})

\* The items a heap can hold copies of, and how many: a number for each.
LEMMA CopiesType ==
  ASSUME NEW q \in Seq(WaitingItem), NEW x
  PROVE  /\ IsFiniteSet({i \in 1 .. Len(q) : q[i] = x})
         /\ Copies(q, x) \in Nat
         /\ Copies(q, x) # 0 <=> \E i \in 1 .. Len(q) : q[i] = x
<1> DEFINE C == {i \in 1 .. Len(q) : q[i] = x}
<1>1. IsFiniteSet(1 .. Len(q))
  BY FS_Interval
<1>2. IsFiniteSet(C)
  BY <1>1, FS_Subset
<1>3. Cardinality(C) \in Nat /\ (Cardinality(C) = 0 <=> C = {})
  BY <1>2, FS_CardinalityType, FS_EmptySet
<1> QED
  BY <1>2, <1>3 DEF Copies

\* The bag of a heap is given by the numbers of copies.
LEMMA BagOfCopies ==
  ASSUME NEW q \in Seq(WaitingItem)
  PROVE  /\ ItemBag(q) = [x \in {y \in WaitingItem : Copies(q, y) # 0} |-> Copies(q, x)]
         /\ DOMAIN ItemBag(q) = {y \in WaitingItem : Copies(q, y) # 0}
         /\ DOMAIN ItemBag(q) = Items(q)
         /\ Items(q) = {q[i] : i \in 1 .. Len(q)}
<1>1. DOMAIN q = 1 .. Len(q)
  OBVIOUS
<1>2. Items(q) = {q[i] : i \in 1 .. Len(q)}
  BY <1>1 DEF Items, SE!ToSet
<1>3. Items(q) = {y \in WaitingItem : Copies(q, y) # 0}
  <2>1. \A y \in WaitingItem : Copies(q, y) # 0 <=> \E i \in 1 .. Len(q) : q[i] = y
    BY CopiesType
  <2>2. \A i \in 1 .. Len(q) : q[i] \in WaitingItem
    OBVIOUS
  <2> QED
    BY <1>2, <2>1, <2>2
<1>4. ItemBag(q) = [x \in Items(q) |-> Copies(q, x)]
  BY <1>1 DEF ItemBag, Copies
<1> QED
  BY <1>2, <1>3, <1>4

\* Swapping two items leaves the bag alone.
LEMMA SwapKeeps ==
  ASSUME NEW q \in Seq(WaitingItem), NEW a \in 1 .. Len(q), NEW b \in 1 .. Len(q)
  PROVE  /\ Swap(q, a, b) \in Seq(WaitingItem)
         /\ Len(Swap(q, a, b)) = Len(q)
         /\ ItemBag(Swap(q, a, b)) = ItemBag(q)
<1> DEFINE r == Swap(q, a, b)
           to == [i \in 1 .. Len(q) |-> IF i = a THEN b ELSE IF i = b THEN a ELSE i]
<1>1. r = [i \in 1 .. Len(q) |-> q[to[i]]] /\ r \in Seq(WaitingItem) /\ Len(r) = Len(q)
  <2>1. r \in Seq(WaitingItem) /\ Len(r) = Len(q) /\ DOMAIN r = 1 .. Len(q)
    BY DEF Swap
  <2>2. \A i \in 1 .. Len(q) : r[i] = q[to[i]]
    BY DEF Swap
  <2> QED
    BY <2>1, <2>2
<1>2. /\ to \in [1 .. Len(q) -> 1 .. Len(q)]
      /\ \A i \in 1 .. Len(q) : to[to[i]] = i
  OBVIOUS
<1> HIDE DEF to, r
<1>3. ASSUME NEW x \in WaitingItem
      PROVE  Copies(r, x) = Copies(q, x)
  <2> DEFINE C == {i \in 1 .. Len(q) : q[i] = x}
             E == {i \in 1 .. Len(r) : r[i] = x}
             g == [i \in E |-> to[i]]
  <2>1. g \in [E -> C]
    BY <1>1, <1>2
  <2>2. \A i, k \in E : g[i] = g[k] => i = k
    BY <1>1, <1>2
  <2>3. \A c \in C : \E i \in E : g[i] = c
    <3> TAKE c \in C
    <3>1. to[c] \in E /\ to[to[c]] = c
      BY <1>1, <1>2
    <3> QED
      BY <3>1
  <2>4. IsFiniteSet(E)
    BY <1>1, CopiesType
  <2> HIDE DEF C, E, g
  <2>5. ExistsBijection(E, C)
    BY <2>1, <2>2, <2>3 DEF ExistsBijection, Bijection, Injection, Surjection, IsInjective
  <2>6. Cardinality(C) = Cardinality(E)
    BY <2>4, <2>5, FS_Bijection
  <2> QED
    BY <2>6 DEF Copies, C, E
<1>4. {y \in WaitingItem : Copies(r, y) # 0} = {y \in WaitingItem : Copies(q, y) # 0}
  BY <1>3
<1>5. ItemBag(r) = ItemBag(q)
  BY <1>1, <1>3, <1>4, BagOfCopies
<1> QED
  BY <1>1, <1>5 DEF r

\* Appending an item adds it to the bag.
LEMMA AppendAdds ==
  ASSUME NEW q \in Seq(WaitingItem), NEW item \in WaitingItem
  PROVE  /\ Append(q, item) \in Seq(WaitingItem)
         /\ ItemBag(Append(q, item)) = BE!BagAdd(ItemBag(q), item)
<1> DEFINE r == Append(q, item)
           n == Len(q) + 1
<1>1. /\ r \in Seq(WaitingItem) /\ Len(r) = n /\ Len(q) \in Nat
      /\ r[n] = item /\ \A i \in 1 .. Len(q) : r[i] = q[i]
  OBVIOUS
<1> HIDE DEF r
<1>2. ASSUME NEW x \in WaitingItem
      PROVE  Copies(r, x) = IF x = item THEN Copies(q, x) + 1 ELSE Copies(q, x)
  <2> DEFINE C == {i \in 1 .. Len(q) : q[i] = x}
             E == {i \in 1 .. Len(r) : r[i] = x}
  <2>1. IsFiniteSet(C) /\ n \notin C
    <3>1. IsFiniteSet(C)
      BY CopiesType
    <3>2. n \notin C
      BY <1>1
    <3> QED
      BY <3>1, <3>2
  <2>2. CASE x = item
    <3>1. E = C \cup {n}
      BY <1>1, <2>2
    <3>2. Cardinality(E) = Cardinality(C) + 1
      BY <2>1, <3>1, FS_AddElement
    <3> QED
      BY <2>2, <3>2 DEF Copies
  <2>3. CASE x # item
    <3>1. E = C
      BY <1>1, <2>3
    <3> QED
      BY <2>3, <3>1 DEF Copies
  <2> QED
    BY <2>2, <2>3
<1>3. \A x \in WaitingItem : Copies(q, x) \in Nat
  BY CopiesType
<1>4. {y \in WaitingItem : Copies(r, y) # 0} = {y \in WaitingItem : Copies(q, y) # 0} \cup {item}
  BY <1>2, <1>3
<1>5. /\ ItemBag(r) = [x \in {y \in WaitingItem : Copies(r, y) # 0} |-> Copies(r, x)]
      /\ ItemBag(q) = [x \in {y \in WaitingItem : Copies(q, y) # 0} |-> Copies(q, x)]
  BY <1>1, BagOfCopies
<1>6. ItemBag(r) = BE!BagAdd(ItemBag(q), item)
  <2>1. CASE Copies(q, item) # 0
    BY <1>2, <1>3, <1>4, <1>5, <2>1 DEF BE!BagAdd
  <2>2. CASE Copies(q, item) = 0
    BY <1>2, <1>3, <1>4, <1>5, <2>2 DEF BE!BagAdd
  <2> QED
    BY <2>1, <2>2
<1> QED
  BY <1>1, <1>6 DEF r

\* Dropping the last item removes it from the bag.
LEMMA FrontRemoves ==
  ASSUME NEW q \in Seq(WaitingItem), Len(q) > 0
  PROVE  /\ SE!Front(q) \in Seq(WaitingItem)
         /\ Len(SE!Front(q)) = Len(q) - 1
         /\ ItemBag(SE!Front(q)) = BE!BagRemove(ItemBag(q), q[Len(q)])
<1> DEFINE r == SE!Front(q)
           n == Len(q)
           item == q[n]
<1>1. /\ r \in Seq(WaitingItem) /\ Len(r) = n - 1 /\ n \in Nat /\ n > 0
      /\ \A i \in 1 .. Len(r) : r[i] = q[i]
      /\ item \in WaitingItem
  <2>1. n \in Nat /\ n > 0 /\ item \in WaitingItem /\ n - 1 \in Nat
    OBVIOUS
  <2>2. r = SubSeq(q, 1, n - 1)
    BY DEF SE!Front
  <2>3. r = [i \in 1 .. n - 1 |-> q[i]]
    <3>1. r = [i \in 1 .. (n - 1) - 1 + 1 |-> q[1 + i - 1]]
      BY <2>1, <2>2
    <3>2. \A i \in 1 .. n - 1 : 1 + i - 1 = i
      BY <2>1
    <3>3. 1 .. (n - 1) - 1 + 1 = 1 .. n - 1
      BY <2>1
    <3> HIDE DEF r
    <3> QED
      BY <3>1, <3>2, <3>3
  <2>4. r \in [1 .. n - 1 -> WaitingItem]
    BY <2>1, <2>3
  <2>5. r \in Seq(WaitingItem) /\ Len(r) = n - 1 /\ \A i \in 1 .. Len(r) : r[i] = q[i]
    <3> HIDE DEF r
    <3> QED
      BY <2>1, <2>3, <2>4
  <2> QED
    BY <2>1, <2>5
<1> HIDE DEF r
<1>2. ASSUME NEW x \in WaitingItem
      PROVE  Copies(r, x) = IF x = item THEN Copies(q, x) - 1 ELSE Copies(q, x)
  <2> DEFINE C == {i \in 1 .. Len(q) : q[i] = x}
             E == {i \in 1 .. Len(r) : r[i] = x}
  <2>1. IsFiniteSet(C)
    BY CopiesType
  <2>2. CASE x = item
    <3>1. E = C \ {n} /\ n \in C
      BY <1>1, <2>2
    <3>2. Cardinality(E) = Cardinality(C) - 1
      BY <2>1, <3>1, FS_RemoveElement
    <3> QED
      BY <2>2, <3>2 DEF Copies
  <2>3. CASE x # item
    <3>1. E = C
      BY <1>1, <2>3
    <3> QED
      BY <2>3, <3>1 DEF Copies
  <2> QED
    BY <2>2, <2>3
<1>3. Copies(q, item) # 0 /\ \A x \in WaitingItem : Copies(q, x) \in Nat
  <2>1. n \in 1 .. Len(q) /\ q[n] = item
    BY <1>1
  <2>2. Copies(q, item) # 0
    BY <2>1, CopiesType
  <2>3. \A x \in WaitingItem : Copies(q, x) \in Nat
    BY CopiesType
  <2> QED
    BY <2>2, <2>3
<1>4. {y \in WaitingItem : Copies(r, y) # 0} =
         IF Copies(q, item) = 1 THEN {y \in WaitingItem : Copies(q, y) # 0} \ {item}
         ELSE {y \in WaitingItem : Copies(q, y) # 0}
  BY <1>1, <1>2, <1>3
<1>5. /\ ItemBag(r) = [x \in {y \in WaitingItem : Copies(r, y) # 0} |-> Copies(r, x)]
      /\ ItemBag(q) = [x \in {y \in WaitingItem : Copies(q, y) # 0} |-> Copies(q, x)]
  BY <1>1, BagOfCopies
<1> HIDE DEF item, n
<1>6. ItemBag(r) = BE!BagRemove(ItemBag(q), item)
  <2>1. CASE Copies(q, item) = 1
    BY <1>1, <1>2, <1>3, <1>4, <1>5, <2>1 DEF BE!BagRemove
  <2>2. CASE Copies(q, item) # 1
    BY <1>1, <1>2, <1>3, <1>4, <1>5, <2>2 DEF BE!BagRemove
  <2> QED
    BY <2>1, <2>2
<1> QED
  BY <1>1, <1>6 DEF r, n, item

\* When the last item takes the place of another one, that one is removed.
LEMMA FillRemoves ==
  ASSUME NEW q \in Seq(WaitingItem), NEW pos \in 1 .. Len(q)
  PROVE  /\ FillWithLast(q, pos) \in Seq(WaitingItem)
         /\ Len(FillWithLast(q, pos)) = Len(q) - 1
         /\ ItemBag(FillWithLast(q, pos)) = BE!BagRemove(ItemBag(q), q[pos])
<1> DEFINE n == Len(q)
           r == Swap(q, pos, n)
           p == [q EXCEPT ![pos] = q[n]]
<1>1. /\ r \in Seq(WaitingItem) /\ Len(r) = n /\ ItemBag(r) = ItemBag(q)
      /\ n \in Nat /\ n > 0 /\ r[n] = q[pos]
  <2>1. n \in 1 .. Len(q)
    OBVIOUS
  <2>2. r[n] = q[pos]
    BY <2>1 DEF Swap
  <2> QED
    BY <2>1, <2>2, SwapKeeps
<1>2. /\ p \in Seq(WaitingItem) /\ Len(p) = n
      /\ \A i \in 1 .. n - 1 : p[i] = r[i]
  BY DEF Swap
<1>3. SubSeq(p, 1, n - 1) = SubSeq(r, 1, n - 1)
  <2> HIDE DEF p, r
  <2> QED
    BY <1>1, <1>2
<1>4. FillWithLast(q, pos) = SE!Front(r)
  BY <1>1, <1>2, <1>3 DEF FillWithLast, SE!Front
<1> HIDE DEF r
<1> QED
  BY <1>1, <1>4, FrontRemoves

-----------------------------------------------------------------------------
(* Up and Down.                                                             *)

\* A place has a heap and a position that holds an item.
LEMMA PlaceType ==
  ASSUME NEW at \in Places
  PROVE  /\ at[1] \in Seq(WaitingItem) /\ Len(at[1]) \in Nat
         /\ at[2] \in 1 .. Len(at[1]) /\ at = <<at[1], at[2]>>
BY DEF Places

\* A pair of a heap and one of its positions is a place.
LEMMA PlaceOf ==
  ASSUME NEW q \in Seq(WaitingItem), NEW pos \in 1 .. Len(q)
  PROVE  /\ <<q, pos>> \in Places
         /\ <<q, pos>>[1] = q /\ <<q, pos>>[2] = pos
BY DEF Places

\* The places with heaps that have the same items as a given one.
SameItems == {p \in Places \X Seq(WaitingItem) :
                 /\ ItemBag(p[2]) = ItemBag(p[1][1])
                 /\ Len(p[2]) = Len(p[1][1])}

HeapAt == [at \in Places |-> at[1]]

\* What a loop returns is a heap with the items of the one it was called with, if
\* it returns the heap where it stops and takes steps that keep the items.
LEMMA LoopKeepsItems ==
  ASSUME NEW stop, NEW step, NEW m, Loop(Places, stop, step, m),
         \A at \in Places : at \notin stop =>
            ItemBag(step[at][1]) = ItemBag(at[1]) /\ Len(step[at][1]) = Len(at[1]),
         NEW f, Returns(f, Places, stop, step, HeapAt)
  PROVE  \A at \in Places : /\ f[at] \in Seq(WaitingItem)
                            /\ ItemBag(f[at]) = ItemBag(at[1])
                            /\ Len(f[at]) = Len(at[1])
<1>1. \A at \in Places : at \in stop => <<at, HeapAt[at]>> \in SameItems
  BY PlaceType DEF SameItems, HeapAt
<1>2. ASSUME NEW at \in Places, NEW v, at \notin stop, <<step[at], v>> \in SameItems
      PROVE  <<at, v>> \in SameItems
  <2>1. v \in Seq(WaitingItem) /\ ItemBag(v) = ItemBag(step[at][1]) /\ Len(v) = Len(step[at][1])
    BY <1>2 DEF SameItems
  <2>2. ItemBag(step[at][1]) = ItemBag(at[1]) /\ Len(step[at][1]) = Len(at[1])
    BY <1>2
  <2> QED
    BY <2>1, <2>2 DEF SameItems
<1>3. \A at \in Places : <<at, f[at]>> \in SameItems
  <2>1. \A at \in Places : \A v : at \notin stop /\ <<step[at], v>> \in SameItems => <<at, v>> \in SameItems
    BY <1>2
  <2> QED
    BY <1>1, <2>1, LoopReturns
<1> QED
  BY <1>3 DEF SameItems

\* Up returns a heap with the same items.
LEMMA UpKeeps ==
  ASSUME NEW q \in Seq(WaitingItem), NEW pos \in 1 .. Len(q)
  PROVE  /\ Up[<<q, pos>>] \in Seq(WaitingItem)
         /\ ItemBag(Up[<<q, pos>>]) = ItemBag(q)
         /\ Len(Up[<<q, pos>>]) = Len(q)
<1> DEFINE Next1(at) == <<Swap(at[1], at[2] \div 2, at[2]), at[2] \div 2>>
           Stops(at) == \/ at[2] = 1
                        \/ at[1][at[2] \div 2].time_of_event >= at[1][at[2]].time_of_event
           stop == {at \in Places : Stops(at)}
           step == [at \in Places |-> IF Stops(at) THEN at ELSE Next1(at)]
           m    == [at \in Places |-> at[2]]
           Body(f) == [at \in Places |-> IF Stops(at) THEN at[1] ELSE f[Next1(at)]]
<1>1. ASSUME NEW at \in Places, ~Stops(at)
      PROVE  /\ Next1(at) \in Places
             /\ Next1(at)[2] < at[2]
             /\ ItemBag(Next1(at)[1]) = ItemBag(at[1]) /\ Len(Next1(at)[1]) = Len(at[1])
  <2>1. at[1] \in Seq(WaitingItem) /\ at[2] \in 1 .. Len(at[1]) /\ Len(at[1]) \in Nat
    BY PlaceType
  <2>2. at[2] # 1
    BY <1>1
  <2>3. at[2] \div 2 \in 1 .. Len(at[1]) /\ at[2] \div 2 < at[2]
    BY <2>1, <2>2
  <2> DEFINE r == Swap(at[1], at[2] \div 2, at[2])
  <2>4. r \in Seq(WaitingItem) /\ Len(r) = Len(at[1]) /\ ItemBag(r) = ItemBag(at[1])
    BY <2>1, <2>3, SwapKeeps
  <2> HIDE DEF r
  <2>5. <<r, at[2] \div 2>> \in Places
    BY <2>3, <2>4, PlaceOf
  <2> QED
    BY <2>3, <2>4, <2>5 DEF r
<1>2. Up = CHOOSE f : f = Body(f)
  BY DEF Up
<1>3. /\ Loop(Places, stop, step, m)
      /\ \A at \in Places : at \notin stop =>
            ItemBag(step[at][1]) = ItemBag(at[1]) /\ Len(step[at][1]) = Len(at[1])
  <2>1. m \in [Places -> Nat]
    BY PlaceType
  <2>2. step \in [Places -> Places]
    <3> HIDE DEF Stops, Next1
    <3> QED
      BY <1>1
  <2>3. ASSUME NEW at \in Places, at \notin stop
        PROVE  /\ m[step[at]] < m[at]
               /\ ItemBag(step[at][1]) = ItemBag(at[1]) /\ Len(step[at][1]) = Len(at[1])
    <3> HIDE DEF Stops, Next1
    <3>1. ~Stops(at) /\ step[at] = Next1(at)
      BY <2>3
    <3> QED
      BY <1>1, <3>1
  <2> HIDE DEF stop, step, m
  <2> QED
    BY <2>1, <2>2, <2>3 DEF Loop
<1>4. ASSUME NEW f
      PROVE  f = Body(f) <=> Returns(f, Places, stop, step, HeapAt)
  <2>1. Body(f) = [at \in Places |-> IF at \in stop THEN HeapAt[at] ELSE f[step[at]]]
    <3> HIDE DEF Stops, Next1
    <3> QED
      BY DEF HeapAt
  <2> HIDE DEF Body, stop, step
  <2> QED
    BY <2>1 DEF Returns
<1> HIDE DEF Stops, Next1, stop, step, m, Body
<1>5. \E f : f = Body(f)
  <2>1. PICK f : Returns(f, Places, stop, step, HeapAt)
    BY <1>3, LoopExists
  <2> QED
    BY <1>4, <2>1
<1>6. Up = Body(Up)
  BY <1>2, <1>5
<1>7. Returns(Up, Places, stop, step, HeapAt)
  BY <1>4, <1>6
<1>8. \A at \in Places : /\ Up[at] \in Seq(WaitingItem)
                         /\ ItemBag(Up[at]) = ItemBag(at[1])
                         /\ Len(Up[at]) = Len(at[1])
  BY <1>3, <1>7, LoopKeepsItems
<1> QED
  BY <1>8, PlaceOf

\* Down returns a heap with the same items.
LEMMA DownKeeps ==
  ASSUME NEW q \in Seq(WaitingItem), NEW pos \in 1 .. Len(q)
  PROVE  /\ Down[<<q, pos>>] \in Seq(WaitingItem)
         /\ ItemBag(Down[<<q, pos>>]) = ItemBag(q)
         /\ Len(Down[<<q, pos>>]) = Len(q)
<1> DEFINE ChildOf(at) == Child(at[1], at[2])
           Next1(at) == <<Swap(at[1], at[2], ChildOf(at)), ChildOf(at)>>
           Stops(at) == \/ 2 * at[2] + 1 > Len(at[1])
                        \/ at[1][at[2]].time_of_event < at[1][ChildOf(at)].time_of_event
           stop == {at \in Places : Stops(at)}
           step == [at \in Places |-> IF Stops(at) THEN at ELSE Next1(at)]
           m    == [at \in Places |-> Len(at[1]) - at[2]]
           Body(f) == [at \in Places |-> IF Stops(at) THEN at[1] ELSE f[Next1(at)]]
<1>1. ASSUME NEW at \in Places, ~Stops(at)
      PROVE  /\ Next1(at) \in Places
             /\ Len(Next1(at)[1]) - Next1(at)[2] < Len(at[1]) - at[2]
             /\ ItemBag(Next1(at)[1]) = ItemBag(at[1]) /\ Len(Next1(at)[1]) = Len(at[1])
  <2>1. at[1] \in Seq(WaitingItem) /\ at[2] \in 1 .. Len(at[1]) /\ Len(at[1]) \in Nat
    BY PlaceType
  <2>2. 2 * at[2] + 1 <= Len(at[1])
    BY <1>1, <2>1
  <2>3. ChildOf(at) \in {2 * at[2], 2 * at[2] + 1}
    BY DEF Child
  <2>4. ChildOf(at) \in 1 .. Len(at[1]) /\ at[2] < ChildOf(at)
    BY <2>1, <2>2, <2>3
  <2> HIDE DEF ChildOf
  <2> DEFINE r == Swap(at[1], at[2], ChildOf(at))
  <2>5. r \in Seq(WaitingItem) /\ Len(r) = Len(at[1]) /\ ItemBag(r) = ItemBag(at[1])
    BY <2>1, <2>4, SwapKeeps
  <2> HIDE DEF r
  <2>6. <<r, ChildOf(at)>> \in Places
    BY <2>4, <2>5, PlaceOf
  <2>7. Len(r) - ChildOf(at) < Len(at[1]) - at[2]
    BY <2>1, <2>4, <2>5
  <2> QED
    BY <2>5, <2>6, <2>7 DEF r
<1>2. Down = CHOOSE f : f = Body(f)
  BY DEF Down
<1>3. /\ Loop(Places, stop, step, m)
      /\ \A at \in Places : at \notin stop =>
            ItemBag(step[at][1]) = ItemBag(at[1]) /\ Len(step[at][1]) = Len(at[1])
  <2>1. m \in [Places -> Nat]
    <3>1. \A at \in Places : Len(at[1]) - at[2] \in Nat
      BY PlaceType
    <3> QED
      BY <3>1
  <2>2. step \in [Places -> Places]
    <3> HIDE DEF Stops, Next1
    <3> QED
      BY <1>1
  <2>3. ASSUME NEW at \in Places, at \notin stop
        PROVE  /\ m[step[at]] < m[at]
               /\ ItemBag(step[at][1]) = ItemBag(at[1]) /\ Len(step[at][1]) = Len(at[1])
    <3> HIDE DEF Stops, Next1
    <3>1. ~Stops(at) /\ step[at] = Next1(at)
      BY <2>3
    <3> QED
      BY <1>1, <3>1
  <2> HIDE DEF stop, step, m
  <2> QED
    BY <2>1, <2>2, <2>3 DEF Loop
<1>4. ASSUME NEW f
      PROVE  f = Body(f) <=> Returns(f, Places, stop, step, HeapAt)
  <2>1. Body(f) = [at \in Places |-> IF at \in stop THEN HeapAt[at] ELSE f[step[at]]]
    <3> HIDE DEF Stops, Next1
    <3> QED
      BY DEF HeapAt
  <2> HIDE DEF Body, stop, step
  <2> QED
    BY <2>1 DEF Returns
<1> HIDE DEF Stops, Next1, stop, step, m, Body
<1>5. \E f : f = Body(f)
  <2>1. PICK f : Returns(f, Places, stop, step, HeapAt)
    BY <1>3, LoopExists
  <2> QED
    BY <1>4, <2>1
<1>6. Down = Body(Down)
  BY <1>2, <1>5
<1>7. Returns(Down, Places, stop, step, HeapAt)
  BY <1>4, <1>6
<1>8. \A at \in Places : /\ Down[at] \in Seq(WaitingItem)
                         /\ ItemBag(Down[at]) = ItemBag(at[1])
                         /\ Len(Down[at]) = Len(at[1])
  BY <1>3, <1>7, LoopKeepsItems
<1> QED
  BY <1>8, PlaceOf

-----------------------------------------------------------------------------
(* Push, Pop, Remove and Peek.                                              *)

\* Push adds one copy of the item.
LEMMA PushAdds ==
  ASSUME NEW q \in Seq(WaitingItem), NEW item \in WaitingItem
  PROVE  /\ Push(q, item) \in Seq(WaitingItem)
         /\ ItemBag(Push(q, item)) = BE!BagAdd(ItemBag(q), item)
<1>1. /\ Append(q, item) \in Seq(WaitingItem)
      /\ Len(q) + 1 \in 1 .. Len(Append(q, item))
  OBVIOUS
<1> QED
  BY <1>1, UpKeeps, AppendAdds DEF Push

\* A heap without items is the empty one.
LEMMA EmptyHeap ==
  ASSUME NEW q \in Seq(WaitingItem)
  PROVE  /\ Items(q) = {} <=> q = <<>>
         /\ q = <<>> <=> Len(q) = 0
         /\ DOMAIN ItemBag(q) = Items(q)
<1>1. q = <<>> <=> Len(q) = 0
  OBVIOUS
<1>2. Items(q) = {} <=> q = <<>>
  <2>1. Items(q) = {q[i] : i \in 1 .. Len(q)}
    BY BagOfCopies
  <2>2. Len(q) # 0 => 1 \in 1 .. Len(q)
    OBVIOUS
  <2> QED
    BY <1>1, <2>1, <2>2
<1> QED
  BY <1>1, <1>2, BagOfCopies

\* The bag of the empty heap is the empty bag.
LEMMA EmptyBagOfHeap == <<>> \in Seq(WaitingItem) /\ ItemBag(<<>>) = Bag!B!EmptyBag
<1>1. <<>> \in Seq(WaitingItem) /\ Items(<<>>) = {}
  BY DEF Items, SE!ToSet
<1>2. ItemBag(<<>>) = [x \in {} |-> Copies(<<>>, x)]
  BY <1>1, BagOfCopies
<1>3. Bag!B!EmptyBag = [x \in {} |-> 1]
  BY DEF Bag!B!EmptyBag, Bag!B!SetToBag
<1>4. [x \in {} |-> Copies(<<>>, x)] = [x \in {} |-> 1]
  OBVIOUS
<1> QED
  BY <1>1, <1>2, <1>3, <1>4

\* Pop takes away one copy of the item that Peek shows, if there is one.
LEMMA PopRemoves ==
  ASSUME NEW q \in Seq(WaitingItem)
  PROVE  /\ Pop(q) \in Seq(WaitingItem)
         /\ q = <<>> => Pop(q) = q /\ Peek(q) = Null
         /\ q # <<>> => /\ Peek(q) \in Items(q)
                        /\ ItemBag(Pop(q)) = BE!BagRemove(ItemBag(q), Peek(q))
<1>1. CASE q = <<>>
  BY <1>1 DEF Pop, Peek
<1>2. CASE q # <<>>
  <2>1. Len(q) \in Nat /\ Len(q) > 0 /\ 1 \in 1 .. Len(q) /\ Peek(q) = q[1]
    BY <1>2 DEF Peek
  <2>2. Peek(q) \in Items(q)
    BY <2>1, BagOfCopies
  <2>3. /\ FillWithLast(q, 1) \in Seq(WaitingItem)
        /\ Len(FillWithLast(q, 1)) = Len(q) - 1
        /\ ItemBag(FillWithLast(q, 1)) = BE!BagRemove(ItemBag(q), Peek(q))
    BY <2>1, FillRemoves
  <2>4. CASE Len(q) = 1
    <3>1. FillWithLast(q, 1) = <<>>
      BY <2>3, <2>4
    <3>2. Pop(q) = <<>>
      BY <2>4 DEF Pop
    <3> QED
      BY <1>2, <2>2, <2>3, <3>1, <3>2
  <2>5. CASE Len(q) # 1
    <3>0. ~(Len(q) <= 1)
      <4> DEFINE n == Len(q)
      <4>1. n \in Nat /\ n > 0 /\ n # 1
        BY <2>1, <2>5
      <4> HIDE DEF n
      <4>2. ~(n <= 1)
        BY <4>1
      <4> QED
        BY <4>2 DEF n
    <3>1. Pop(q) = Down[<<FillWithLast(q, 1), 1>>]
      BY <3>0 DEF Pop
    <3>2. 1 \in 1 .. Len(FillWithLast(q, 1))
      BY <2>1, <2>3, <2>5
    <3> QED
      BY <1>2, <2>2, <2>3, <3>1, <3>2, DownKeeps
  <2> QED
    BY <2>4, <2>5
<1> QED
  BY <1>1, <1>2

\* Remove takes away one copy of an item of the job, if there is one.
LEMMA RemoveTakesOwn ==
  ASSUME NEW q \in Seq(WaitingItem), NEW job \in JobIds
  PROVE  LET own == {item \in Items(q) : item.jobid = job}
         IN  /\ Remove(q, job) \in Seq(WaitingItem)
             /\ own = {} => Remove(q, job) = q
             /\ own # {} => \E item \in own : ItemBag(Remove(q, job)) = BE!BagRemove(ItemBag(q), item)
<1> DEFINE own == {item \in Items(q) : item.jobid = job}
           at == {i \in 1 .. Len(q) : q[i].jobid = job}
           i == SE!SelectInSeq(q, LAMBDA item : item.jobid = job)
<1>1. i = IF at # {} THEN SE!Min(at) ELSE 0
  BY DEF SE!SelectInSeq
<1>2. Items(q) = {q[k] : k \in 1 .. Len(q)} /\ Len(q) \in Nat
  <2>1. Items(q) = {q[k] : k \in 1 .. Len(q)}
    BY BagOfCopies
  <2>2. Len(q) \in Nat
    OBVIOUS
  <2> QED
    BY <2>1, <2>2
<1>3. Remove(q, job) = CASE i = 0               -> q
                         [] i # 0 /\ i = Len(q) -> SE!Front(q)
                         [] OTHER               -> Down[<<FillWithLast(q, i), i>>]
  BY DEF Remove
<1> HIDE DEF i
<1>4. CASE own = {}
  <2>1. at = {}
    BY <1>2, <1>4
  <2>2. i = 0
    BY <1>1, <2>1
  <2> QED
    BY <1>3, <1>4, <2>2
<1>5. CASE own # {}
  <2>1. at # {}
    BY <1>2, <1>5
  <2>2. \E m \in at : \A k \in at : m <= k
    <3>1. at \in SUBSET Nat
      BY <1>2
    <3> HIDE DEF at
    <3> QED
      BY <2>1, <3>1, LeastPosition
  <2>3. i \in at
    <3>1. i = CHOOSE x \in at : \A y \in at : x <= y
      BY <1>1, <2>1 DEF SE!Min
    <3> HIDE DEF at
    <3> QED
      BY <2>2, <3>1
  <2>4. i \in 1 .. Len(q) /\ q[i] \in own /\ i # 0
    BY <1>2, <2>3
  <2>5. CASE i = Len(q)
    <3>1. Remove(q, job) = SE!Front(q)
      BY <1>3, <2>4, <2>5
    <3>2. /\ SE!Front(q) \in Seq(WaitingItem)
          /\ ItemBag(SE!Front(q)) = BE!BagRemove(ItemBag(q), q[i])
      BY <1>2, <2>4, <2>5, FrontRemoves
    <3> QED
      BY <1>5, <2>4, <3>1, <3>2
  <2>6. CASE i # Len(q)
    <3>1. Remove(q, job) = Down[<<FillWithLast(q, i), i>>]
      BY <1>3, <2>4, <2>6
    <3>2. /\ FillWithLast(q, i) \in Seq(WaitingItem)
          /\ Len(FillWithLast(q, i)) = Len(q) - 1
          /\ ItemBag(FillWithLast(q, i)) = BE!BagRemove(ItemBag(q), q[i])
      BY <2>4, FillRemoves
    <3>3. i \in 1 .. Len(FillWithLast(q, i))
      BY <1>2, <2>4, <2>6, <3>2
    <3>4. /\ Down[<<FillWithLast(q, i), i>>] \in Seq(WaitingItem)
          /\ ItemBag(Down[<<FillWithLast(q, i), i>>]) = BE!BagRemove(ItemBag(q), q[i])
      BY <3>2, <3>3, DownKeeps
    <3> QED
      BY <1>5, <2>4, <3>1, <3>4
  <2> QED
    BY <2>5, <2>6
<1> QED
  BY <1>4, <1>5

-----------------------------------------------------------------------------
(* The heap keeps the promises of a queue.                                  *)

HeapQueue == INSTANCE QueueContract WITH
  Queue <- Seq(WaitingItem), EmptyQueue <- <<>>, QPush <- Push, QPop <- Pop,
  QRemove <- Remove, QPeek <- Peek, QBag <- ItemBag

\* Heaps of any size keep the contract that the job monitor's theorems assume of
\* its queue (JobPriorityQueue::Push, Pop, Remove and Peek).
THEOREM HeapKeepsContract == HeapQueue!Contract
<1> USE DEF HeapQueue!QItems
<1>1. <<>> \in Seq(WaitingItem) /\ DOMAIN ItemBag(<<>>) = {}
  BY EmptyBagOfHeap DEF Bag!B!EmptyBag, Bag!B!SetToBag
<1>2. ASSUME NEW q \in Seq(WaitingItem)
      PROVE  /\ ItemBag(q) \in [DOMAIN ItemBag(q) -> Nat \ {0}]
             /\ DOMAIN ItemBag(q) \subseteq WaitingItem
  BY BagOfCopies, CopiesType
<1>3. ASSUME NEW q \in Seq(WaitingItem)
      PROVE  /\ Pop(q) \in Seq(WaitingItem)
             /\ DOMAIN ItemBag(q) = {} => Peek(q) = Null /\ ItemBag(Pop(q)) = ItemBag(q)
             /\ DOMAIN ItemBag(q) # {} =>
                   /\ Peek(q) \in DOMAIN ItemBag(q)
                   /\ ItemBag(Pop(q)) = BE!BagRemove(ItemBag(q), Peek(q))
  BY PopRemoves, EmptyHeap, BagOfCopies
<1>4. ASSUME NEW q \in Seq(WaitingItem), NEW job \in JobIds
      PROVE  LET own == {item \in DOMAIN ItemBag(q) : item.jobid = job}
             IN  /\ Remove(q, job) \in Seq(WaitingItem)
                 /\ own = {} => ItemBag(Remove(q, job)) = ItemBag(q)
                 /\ own # {} => \E item \in own :
                                  ItemBag(Remove(q, job)) = BE!BagRemove(ItemBag(q), item)
  BY RemoveTakesOwn, BagOfCopies
<1>5. ASSUME NEW q \in Seq(WaitingItem), NEW item \in WaitingItem
      PROVE  ItemBag(Push(q, item)) = BE!BagAdd(ItemBag(q), item)
  BY PushAdds
<1>6. ASSUME NEW B, NEW x
      PROVE  /\ HeapQueue!BE!BagRemove(B, x) = BE!BagRemove(B, x)
             /\ HeapQueue!BE!BagAdd(B, x) = BE!BagAdd(B, x)
  BY DEF HeapQueue!BE!BagRemove, BE!BagRemove, HeapQueue!BE!BagAdd, BE!BagAdd
<1>7. HeapQueue!WaitingItem = WaitingItem
  BY DEF HeapQueue!WaitingItem, WaitingItem, HeapQueue!Time, Time, HeapQueue!Forever, Forever,
         HeapQueue!JobEvent, JobEvent
<1> DEFINE Without(q, items) == {HeapQueue!BE!BagRemove(ItemBag(q), item) : item \in items}
<1>8. ASSUME NEW q \in Seq(WaitingItem)
      PROVE  IF DOMAIN ItemBag(q) = {} THEN Peek(q) = Null /\ ItemBag(Pop(q)) = ItemBag(q)
             ELSE Peek(q) \in DOMAIN ItemBag(q) /\ ItemBag(Pop(q)) \in Without(q, {Peek(q)})
  BY <1>3, <1>6
<1>9. ASSUME NEW q \in Seq(WaitingItem), NEW job \in JobIds
      PROVE  LET own == {item \in DOMAIN ItemBag(q) : item.jobid = job}
             IN  /\ Remove(q, job) \in Seq(WaitingItem)
                 /\ ItemBag(Remove(q, job)) \in IF own = {} THEN {ItemBag(q)}
                                                 ELSE Without(q, own)
  BY <1>4, <1>6
<1>10. ASSUME NEW q \in Seq(WaitingItem), NEW item \in WaitingItem
       PROVE  ItemBag(Push(q, item)) = HeapQueue!BE!BagAdd(ItemBag(q), item)
  BY <1>5, <1>6
<1> QED
  BY <1>1, <1>2, <1>3, <1>7, <1>8, <1>9, <1>10 DEF HeapQueue!Contract

-----------------------------------------------------------------------------
(* The refinement.                                                          *)

HeapType == heap \in Seq(WaitingItem)

\* Every call on a heap leaves a heap.
LEMMA HeapStays == Spec => []HeapType
<1>1. Init => HeapType
  BY DEF Init, HeapType
<1>2. HeapType /\ [Next]_vars => HeapType'
  BY PushAdds, PopRemoves, RemoveTakesOwn
     DEF HeapType, Next, vars, PushCall, PopCall, RemoveCall
<1> QED
  BY <1>1, <1>2, PTL DEF Spec

\* The heap implements the bag: whatever Up and Down rearrange, no sequence of
\* Push, Pop and Remove loses, duplicates or invents an item, Pop returns one that
\* is there and Remove takes one of the job it was called with.
THEOREM HeapIsBag == Spec => KeepsEveryItem
<1> USE DEF Bag!B!BagToSet
<1>0. ASSUME NEW B, NEW x
      PROVE  Bag!BE!BagRemove(B, x) = BE!BagRemove(B, x) /\ Bag!BE!BagAdd(B, x) = BE!BagAdd(B, x)
  BY DEF Bag!BE!BagRemove, BE!BagRemove, Bag!BE!BagAdd, BE!BagAdd
<1>1. Init => Bag!Init
  BY EmptyBagOfHeap DEF Init, Bag!Init
<1>2. HeapType /\ HeapType' /\ [Next]_vars => [Bag!Next]_(Bag!vars)
  <2>0. SUFFICES ASSUME heap \in Seq(WaitingItem), heap' \in Seq(WaitingItem), [Next]_vars
                 PROVE  [Bag!Next]_(Bag!vars)
    BY DEF HeapType
  <2>1. CASE PushCall
    <3>1. PICK item \in WaitingItem : heap' = Push(heap, item) /\ reply' = Null
      BY <2>1 DEF PushCall
    <3>2. ItemBag(heap') = Bag!BE!BagAdd(ItemBag(heap), item)
      BY <1>0, <2>0, <3>1, PushAdds
    <3>3. Bag!Push(item)
      BY <3>1, <3>2 DEF Bag!Push
    <3> QED
      BY <3>3 DEF Bag!Next, Bag!WaitingItem, WaitingItem, Bag!Time, Time, Bag!Forever, Forever,
                  Bag!JobEvent, JobEvent
  <2>2. CASE PopCall
    <3>1. heap' = Pop(heap) /\ reply' = [call |-> "Pop", item |-> Peek(heap)]
      BY <2>2 DEF PopCall
    <3>2. CASE heap = <<>>
      <4>1. heap' = heap /\ Peek(heap) = Null /\ ItemBag(heap) = Bag!B!EmptyBag
        BY <2>0, <3>1, <3>2, PopRemoves, EmptyBagOfHeap
      <4> QED
        BY <3>1, <4>1 DEF Bag!Next, Bag!Pop
    <3>3. CASE heap # <<>>
      <4>1. /\ Peek(heap) \in DOMAIN ItemBag(heap)
            /\ ItemBag(heap') = Bag!BE!BagRemove(ItemBag(heap), Peek(heap))
        <5>1. /\ Peek(heap) \in Items(heap)
              /\ ItemBag(heap') = BE!BagRemove(ItemBag(heap), Peek(heap))
          BY <2>0, <3>1, <3>3, PopRemoves
        <5>2. DOMAIN ItemBag(heap) = Items(heap)
          BY <2>0, EmptyHeap
        <5> QED
          BY <1>0, <5>1, <5>2
      <4> QED
        BY <3>1, <4>1 DEF Bag!Next, Bag!Pop
    <3> QED
      BY <3>2, <3>3
  <2>3. CASE RemoveCall
    <3>1. PICK job \in JobIds :
             /\ heap' = Remove(heap, job)
             /\ reply' = [call |-> "Remove", job |-> job,
                          found |-> \E item \in Items(heap) : item.jobid = job]
      BY <2>3 DEF RemoveCall
    <3> DEFINE own == {item \in Items(heap) : item.jobid = job}
    <3>2. DOMAIN ItemBag(heap) = Items(heap)
      BY <2>0, BagOfCopies
    <3>3. (\E item \in Items(heap) : item.jobid = job) <=> own # {}
      OBVIOUS
    <3>4. own = {} => ItemBag(heap') = ItemBag(heap)
      BY <2>0, <3>1, RemoveTakesOwn
    <3>5. own # {} => \E item \in own : ItemBag(heap') = Bag!BE!BagRemove(ItemBag(heap), item)
      BY <1>0, <2>0, <3>1, RemoveTakesOwn
    <3>6. Bag!Remove(job)
      <4>1. reply' = [call |-> "Remove", job |-> job, found |-> own # {}]
        BY <3>1, <3>3
      <4> QED
        BY <3>2, <3>4, <3>5, <4>1 DEF Bag!Remove
    <3> QED
      BY <3>6 DEF Bag!Next
  <2>4. CASE UNCHANGED vars
    BY <2>4 DEF vars, Bag!vars
  <2> QED
    BY <2>0, <2>1, <2>2, <2>3, <2>4 DEF Next
<1> QED
  BY <1>1, <1>2, HeapStays, PTL DEF Spec, KeepsEveryItem, Bag!Spec
=============================================================================
