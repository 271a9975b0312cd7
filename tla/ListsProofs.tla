----------------------------- MODULE ListsProofs -----------------------------
(***************************************************************************)
(* What the proofs use of Lists: a list that is filtered has the elements  *)
(* that pass, a fold keeps what its steps keep, a list that is arranged is *)
(* in order, a list that is flattened has the elements of its lists.  The  *)
(* library's induction theorems cannot be cited here; the least element of *)
(* a set of positions takes their place.                                   *)
(***************************************************************************)
EXTENDS Lists, WellFoundedInduction, SequenceTheorems, FiniteSetTheorems, TLAPS

(* A set of natural numbers that has an element has a least one.           *)
LEMMA LeastNumber ==
    ASSUME NEW N \in SUBSET Nat, N # {}
    PROVE  \E n \in N : \A m \in N : n <= m
<1> DEFINE Less == {p \in Nat \X Nat : p[1] < p[2]}
<1>1. IsWellFoundedOn(Less, Nat)
    BY NatLessThanWellFounded, Zenon DEF OpToRel
<1>2. PICK n \in N : \A m \in N : ~(<<m, n>> \in Less)
    <2> HIDE DEF Less
    <2> QED
        BY <1>1, WFMin, Zenon
<1>3. \A m \in N : ~(m < n)
    BY <1>2
<1> QED
    BY <1>3

(* What is kept is a sequence of the elements of the list that pass.       *)
THEOREM FilterKeeps ==
    ASSUME NEW T, NEW s \in Seq(T), NEW S
    PROVE  Filter(s, S) \in Seq(T \cap S)
<1> DEFINE K == Seq(T \cap S)
           n == Len(s)
           Step(g, i) == IF i = 0 THEN <<>>
                         ELSE IF s[i] \in S THEN Append(g[i - 1], s[i])
                              ELSE g[i - 1]
           Upto(g, k) == \A i \in 0 .. k : g[i] = Step(g, i)
<1>1. /\ n \in Nat /\ <<>> \in K
      /\ \A i \in 1 .. n : s[i] \in T
      /\ \A e \in T \cap S, q \in K : Append(q, e) \in K
    OBVIOUS
<1>2. \A k \in 0 .. n : \E g \in [0 .. k -> K] : Upto(g, k)
    <2> DEFINE Bad == {k \in 0 .. n : ~ \E g \in [0 .. k -> K] : Upto(g, k)}
    <2> SUFFICES ASSUME Bad # {} PROVE FALSE
        OBVIOUS
    <2>1. PICK k \in Bad : \A m \in Bad : k <= m
        <3>1. Bad \in SUBSET Nat
            BY <1>1
        <3> QED
            BY <3>1, LeastNumber, Zenon
    <2>2. k \in 0 .. n /\ ~ \E g \in [0 .. k -> K] : Upto(g, k)
        OBVIOUS
    <2>3. k # 0
        <3> SUFFICES ASSUME k = 0 PROVE FALSE
            OBVIOUS
        <3> DEFINE g == [i \in 0 .. 0 |-> <<>>]
        <3>1. g \in [0 .. 0 -> K] /\ Upto(g, 0)
            BY <1>1
        <3> QED
            BY <3>1, <2>2
    <2>4. k - 1 \in 0 .. n /\ k - 1 \notin Bad
        <3>1. k \in Nat /\ n \in Nat /\ k # 0 /\ k <= n
            BY <2>2, <2>3, <1>1
        <3>2. k - 1 \in 0 .. n /\ ~(k <= k - 1)
            BY <3>1
        <3> HIDE DEF Bad
        <3> QED
            BY <3>2, <2>1
    <2>5. PICK g \in [0 .. k - 1 -> K] : Upto(g, k - 1)
        BY <2>4
    <2> DEFINE h == [i \in 0 .. k |-> IF i = k THEN Step(g, k) ELSE g[i]]
    <2>6. Step(g, k) \in K
        BY <1>1, <2>2, <2>3
    <2>7. h \in [0 .. k -> K]
        <3> HIDE DEF K, Step
        <3> QED
            BY <2>6, <2>2
    <2>8. Upto(h, k)
        <3> TAKE i \in 0 .. k
        <3>1. CASE i = k
            BY <3>1, <2>2, <2>3, <1>1
        <3>2. CASE i # k
            <4>1. k \in Nat /\ i \in 0 .. k - 1 /\ i - 1 # k
                BY <3>2, <2>2, <1>1
            <4>2. h[i] = g[i] /\ g[i] = Step(g, i)
                BY <4>1, <3>2, <2>5
            <4>3. i # 0 => i - 1 \in 0 .. k
                BY <4>1
            <4>4. i # 0 => h[i - 1] = g[i - 1]
                BY <4>1, <4>3
            <4> QED
                BY <4>2, <4>4
        <3> QED
            BY <3>1, <3>2
    <2> QED
        BY <2>7, <2>8, <2>2
<1>3. PICK g \in [0 .. n -> K] : Upto(g, n)
    <2>1. n \in 0 .. n
        BY <1>1
    <2> HIDE DEF K, n, Upto
    <2> QED
        BY <2>1, <1>2
<1>4. g = [i \in 0 .. n |-> Step(g, i)]
    BY <1>3
<1> DEFINE first == CHOOSE f : f = [i \in 0 .. n |-> Step(f, i)]
<1>5. first = [i \in 0 .. n |-> Step(first, i)]
    BY <1>4, Zenon
<1>6. \A i \in 0 .. n : first[i] \in K
    <2> HIDE DEF first
    <2> DEFINE Bad == {i \in 0 .. n : first[i] \notin K}
    <2> SUFFICES ASSUME Bad # {} PROVE FALSE
        OBVIOUS
    <2>1. PICK k \in Bad : \A m \in Bad : k <= m
        <3>1. Bad \in SUBSET Nat
            BY <1>1
        <3> QED
            BY <3>1, LeastNumber, Zenon
    <2>2. k \in 0 .. n /\ first[k] \notin K /\ first[k] = Step(first, k)
        BY <1>5
    <2>3. k # 0
        BY <2>2, <1>1
    <2>4. first[k - 1] \in K
        BY <2>1, <2>2, <2>3, <1>1
    <2> QED
        BY <2>2, <2>3, <2>4, <1>1
<1>7. Filter(s, S) = first[n]
    BY DEF Filter
<1> QED
    <2>1. n \in 0 .. n
        BY <1>1
    <2>2. first[n] \in K
        <3> HIDE DEF K, n, first
        <3> QED
            BY <2>1, <1>6
    <2> QED
        BY <2>2, <1>7, Zenon

(* What every step keeps, the whole fold keeps: Inv[k] is what may be had  *)
(* after step k.                                                           *)
LEMMA FoldedKeeps ==
    ASSUME NEW n \in Nat, NEW step, NEW base, NEW A, NEW Inv \in [0 .. n -> SUBSET A],
           base \in Inv[0],
           \A k \in 1 .. n : \A a \in Inv[k - 1] : step[k][a] \in Inv[k]
    PROVE  Folded(step, base, n) \in Inv[n]
<1> DEFINE Step(g, i) == IF i = 0 THEN base ELSE step[i][g[i - 1]]
           Upto(g, k) == \A i \in 0 .. k : g[i] = Step(g, i) /\ g[i] \in Inv[i]
<1>2. \A k \in 0 .. n : \E g \in [0 .. k -> A] : Upto(g, k)
    <2> DEFINE Bad == {k \in 0 .. n : ~ \E g \in [0 .. k -> A] : Upto(g, k)}
    <2> SUFFICES ASSUME Bad # {} PROVE FALSE
        OBVIOUS
    <2>1. PICK k \in Bad : \A m \in Bad : k <= m
        <3>1. Bad \in SUBSET Nat
            OBVIOUS
        <3> QED
            BY <3>1, LeastNumber, Zenon
    <2>2. k \in 0 .. n /\ ~ \E g \in [0 .. k -> A] : Upto(g, k)
        OBVIOUS
    <2>3. k # 0
        <3> SUFFICES ASSUME k = 0 PROVE FALSE
            OBVIOUS
        <3> DEFINE g == [i \in 0 .. 0 |-> base]
        <3>1. base \in A /\ \A i \in 0 .. 0 : i = 0
            OBVIOUS
        <3>2. g \in [0 .. 0 -> A]
            BY <3>1
        <3>3. Upto(g, 0)
            BY <3>1
        <3> QED
            BY <3>2, <3>3, <2>2
    <2>4. k - 1 \in 0 .. n /\ k - 1 \notin Bad
        <3>1. k \in Nat /\ k # 0 /\ k <= n
            BY <2>2, <2>3
        <3>2. k - 1 \in 0 .. n /\ ~(k <= k - 1)
            BY <3>1
        <3> HIDE DEF Bad
        <3> QED
            BY <3>2, <2>1
    <2>5. PICK g \in [0 .. k - 1 -> A] : Upto(g, k - 1)
        BY <2>4
    <2> DEFINE h == [i \in 0 .. k |-> IF i = k THEN Step(g, k) ELSE g[i]]
    <2>6. Step(g, k) \in Inv[k] /\ Step(g, k) \in A
        <3>1. g[k - 1] \in Inv[k - 1] /\ k \in 1 .. n
            BY <2>2, <2>3, <2>5
        <3> QED
            BY <3>1
    <2>7. h \in [0 .. k -> A]
        <3> HIDE DEF Step
        <3> QED
            BY <2>6, <2>2
    <2>8. Upto(h, k)
        <3> TAKE i \in 0 .. k
        <3>1. CASE i = k
            <4>1. k \in 0 .. k /\ k - 1 \in 0 .. k /\ k - 1 # k
                BY <2>2, <2>3
            <4>2. h[k] = Step(g, k) /\ h[k - 1] = g[k - 1]
                BY <4>1
            <4> QED
                BY <3>1, <4>2, <2>3, <2>6
        <3>2. CASE i # k
            <4>1. k \in Nat /\ i \in 0 .. k - 1 /\ i - 1 # k
                BY <3>2, <2>2
            <4>2. h[i] = g[i] /\ g[i] = Step(g, i) /\ g[i] \in Inv[i]
                BY <4>1, <3>2, <2>5
            <4>3. i # 0 => i - 1 \in 0 .. k
                BY <4>1
            <4>4. i # 0 => h[i - 1] = g[i - 1]
                BY <4>1, <4>3
            <4> QED
                BY <4>2, <4>4
        <3> QED
            BY <3>1, <3>2
    <2> QED
        BY <2>7, <2>8, <2>2
<1>3. PICK g \in [0 .. n -> A] : Upto(g, n)
    <2>1. n \in 0 .. n
        OBVIOUS
    <2> HIDE DEF Upto
    <2> QED
        BY <2>1, <1>2
<1>4. g = [i \in 0 .. n |-> Step(g, i)]
    BY <1>3
<1> DEFINE after == CHOOSE f : f = [i \in 0 .. n |-> Step(f, i)]
<1>5. after = [i \in 0 .. n |-> Step(after, i)]
    BY <1>4, Zenon
<1>6. \A i \in 0 .. n : after[i] \in Inv[i]
    <2> HIDE DEF after
    <2> DEFINE Bad == {i \in 0 .. n : after[i] \notin Inv[i]}
    <2> SUFFICES ASSUME Bad # {} PROVE FALSE
        OBVIOUS
    <2>1. PICK k \in Bad : \A m \in Bad : k <= m
        <3>1. Bad \in SUBSET Nat
            OBVIOUS
        <3> QED
            BY <3>1, LeastNumber, Zenon
    <2>2. k \in 0 .. n /\ after[k] \notin Inv[k] /\ after[k] = Step(after, k)
        BY <1>5
    <2>3. k # 0
        BY <2>2
    <2>4. k \in 1 .. n /\ k - 1 \in 0 .. n /\ ~(k <= k - 1)
        BY <2>2, <2>3
    <2>5. after[k - 1] \in Inv[k - 1]
        BY <2>1, <2>4
    <2> QED
        BY <2>2, <2>3, <2>4, <2>5
<1>7. Folded(step, base, n) = after[n]
    BY DEF Folded
<1> QED
    <2>1. n \in 0 .. n
        OBVIOUS
    <2>2. after[n] \in Inv[n]
        <3> HIDE DEF after
        <3> QED
            BY <2>1, <1>6
    <2> QED
        BY <2>2, <1>7, Zenon

(* Positions that are arranged by a strict order are all there, in it.     *)
LEMMA ArrangedSorts ==
    ASSUME NEW n \in Nat, NEW before,
           \A i \in 1 .. n : <<i, i>> \notin before,
           \A i, j, k \in 1 .. n : <<i, j>> \in before /\ <<j, k>> \in before
                                      => <<i, k>> \in before,
           \A i, j \in 1 .. n : i = j \/ <<i, j>> \in before \/ <<j, i>> \in before
    PROVE  /\ Arranged(n, before) \in [1 .. n -> 1 .. n]
           /\ \A k, l \in 1 .. n : k < l =>
                 <<Arranged(n, before)[k], Arranged(n, before)[l]>> \in before
           /\ \A i \in 1 .. n : \E k \in 1 .. n : Arranged(n, before)[k] = i
<1> DEFINE D == 1 .. n
           B(i) == {j \in D : <<j, i>> \in before}
           rank == [i \in D |-> Cardinality(B(i)) + 1]
           order == Arranged(n, before)
<1>1. IsFiniteSet(D) /\ Cardinality(D) = n
    <2>1. 1 \in Int /\ n \in Int
        OBVIOUS
    <2>2. Cardinality(D) = IF 1 > n THEN 0 ELSE n - 1 + 1
        BY <2>1, FS_Interval
    <2> QED
        BY <2>1, <2>2, FS_Interval
<1>2. \A i \in D : /\ B(i) \in SUBSET D /\ i \notin B(i)
                   /\ IsFiniteSet(B(i)) /\ Cardinality(B(i)) \in Nat
    <2>1. \A i \in D : B(i) \in SUBSET D /\ i \notin B(i)
        OBVIOUS
    <2> HIDE DEF B, D
    <2> QED
        BY <2>1, <1>1, FS_Subset, FS_CardinalityType
<1>3. \A i, j \in D : <<i, j>> \in before => B(i) \in SUBSET B(j) /\ i \in B(j)
    OBVIOUS
<1>r. \A i \in D : rank[i] = Cardinality(B(i)) + 1
    OBVIOUS
<1>o. \A k \in D : order[k] = CHOOSE i \in D : Cardinality(B(i)) = k - 1
    BY DEF Arranged
<1>f. order = [k \in D |-> order[k]]
    <2> DEFINE place(k) == CHOOSE i \in D : Cardinality(B(i)) = k - 1
    <2>1. order = [k \in D |-> place(k)]
        BY DEF Arranged
    <2> HIDE DEF place, order, D
    <2> QED
        BY <2>1
<1>d. \A k \in D : k \in Nat /\ 1 <= k /\ k <= n
    OBVIOUS
<1>e. \A k \in Nat : 1 <= k /\ k <= n => k \in D
    OBVIOUS
<1> HIDE DEF B
<1>4. rank \in [D -> D]
    <2> HIDE DEF D
    <2> SUFFICES ASSUME NEW i \in D PROVE Cardinality(B(i)) + 1 \in D
        OBVIOUS
    <2>2. Cardinality(B(i)) <= n /\ (Cardinality(B(i)) = n => B(i) = D)
        BY <1>2, <1>1, FS_Subset
    <2> QED
        BY <2>2, <1>2, <1>e
<1>5. \A i, j \in D : <<i, j>> \in before => rank[i] < rank[j]
    <2> HIDE DEF D, rank
    <2> SUFFICES ASSUME NEW i \in D, NEW j \in D, <<i, j>> \in before PROVE rank[i] < rank[j]
        OBVIOUS
    <2>2. Cardinality(B(i)) <= Cardinality(B(j)) /\ Cardinality(B(i)) # Cardinality(B(j))
        BY <1>2, <1>3, FS_Subset
    <2> QED
        BY <2>2, <1>2, <1>r
<1> HIDE DEF rank
<1>n. \A i, j \in D : rank[i] = rank[j] => i = j
    <2>1. \A i \in D : rank[i] \in Nat
        BY <1>4
    <2> SUFFICES ASSUME NEW i \in D, NEW j \in D, rank[i] = rank[j], i # j PROVE FALSE
        OBVIOUS
    <2>2. ~(rank[i] < rank[j]) /\ ~(rank[j] < rank[i])
        BY <2>1
    <2>3. <<i, j>> \in before \/ <<j, i>> \in before
        OBVIOUS
    <2> QED
        BY <2>2, <2>3, <1>5
<1> HIDE DEF D, order
<1>6. \A k \in D : \E i \in D : rank[i] = k
    <2>1. rank \in Injection(D, D)
        BY <1>4, <1>n DEF Injection, IsInjective
    <2>2. rank \in Surjection(D, D)
        BY <2>1, <1>1, FS_Injection
    <2> QED
        BY <2>2 DEF Surjection
<1>7. \A k \in D : order[k] \in D /\ rank[order[k]] = k
    <2> SUFFICES ASSUME NEW k \in D PROVE order[k] \in D /\ rank[order[k]] = k
        OBVIOUS
    <2>2. PICK i \in D : rank[i] = k
        BY <1>6
    <2>3. Cardinality(B(i)) = k - 1
        BY <2>2, <1>2, <1>r
    <2>4. order[k] \in D /\ Cardinality(B(order[k])) = k - 1
        BY <1>o, <2>3, Zenon
    <2> QED
        BY <2>4, <1>r, <1>d
<1>8. ASSUME NEW k \in D, NEW l \in D, k < l PROVE <<order[k], order[l]>> \in before
    <2>1. /\ order[k] \in D /\ order[l] \in D
          /\ rank[order[k]] = k /\ rank[order[l]] = l
        BY <1>7
    <2>2. order[k] # order[l] /\ <<order[l], order[k]>> \notin before
        BY <2>1, <1>5, <1>8, <1>d
    <2> QED
        BY <2>1, <2>2 DEF D
<1>9. order \in [D -> D]
    BY <1>f, <1>7
<1>10. ASSUME NEW i \in D PROVE \E k \in D : order[k] = i
    BY <1>4, <1>n, <1>7
<1> QED
    BY <1>8, <1>9, <1>10 DEF D, order

-----------------------------------------------------------------------------
(* Recursion over 0 .. n, for definitions other than these.                *)

(* What holds at 0 and goes from each number to the next holds up to n.    *)
LEMMA Upward ==
    ASSUME NEW n \in Nat, NEW S, 0 \in S, \A k \in 1 .. n : k - 1 \in S => k \in S
    PROVE  \A k \in 0 .. n : k \in S
<1> DEFINE Bad == {k \in 0 .. n : k \notin S}
<1> SUFFICES ASSUME Bad # {} PROVE FALSE
    OBVIOUS
<1>1. PICK k \in Bad : \A m \in Bad : k <= m
    <2>1. Bad \in SUBSET Nat
        OBVIOUS
    <2> QED
        BY <2>1, LeastNumber, Zenon
<1>2. k \in 0 .. n /\ k \notin S /\ k # 0
    BY <1>1
<1>3. k \in 1 .. n /\ k - 1 \in 0 .. n /\ ~(k <= k - 1)
    BY <1>2
<1>4. k - 1 \in S
    BY <1>1, <1>3
<1> QED
    BY <1>2, <1>3, <1>4

(* A function that is defined by such a recursion exists.                  *)
Recursions(n, A, base, step) ==
    {g \in [0 .. n -> A] : g[0] = base /\ \A k \in 1 .. n : g[k] = step[k][g[k - 1]]}

LEMMA RecursionExists ==
    ASSUME NEW n \in Nat, NEW A, NEW base \in A, NEW step,
           \A k \in 1 .. n : \A a \in A : step[k][a] \in A
    PROVE  Recursions(n, A, base, step) # {}
<1> DEFINE Step(g, k) == IF k = 0 THEN base ELSE step[k][g[k - 1]]
           Good(g, m) == \A k \in 0 .. m : g[k] = Step(g, k)
           S == {m \in Nat : \E g \in [0 .. m -> A] : Good(g, m)}
<1>1. 0 \in S
    <2> DEFINE g == [i \in 0 .. 0 |-> base]
    <2>1. \A i \in 0 .. 0 : i = 0
        OBVIOUS
    <2>2. g \in [0 .. 0 -> A] /\ Good(g, 0)
        BY <2>1
    <2> QED
        BY <2>2
<1>2. ASSUME NEW m \in 1 .. n, m - 1 \in S PROVE m \in S
    <2>1. PICK g \in [0 .. m - 1 -> A] : Good(g, m - 1)
        BY <1>2
    <2> DEFINE h == [i \in 0 .. m |-> IF i = m THEN step[m][g[m - 1]] ELSE g[i]]
    <2>2. g[m - 1] \in A
        BY <2>1
    <2>3. step[m][g[m - 1]] \in A
        BY <2>2
    <2>4. h \in [0 .. m -> A]
        BY <2>3, <2>1
    <2>5. Good(h, m)
        <3> TAKE i \in 0 .. m
        <3>1. CASE i = m
            <4>1. m \in 0 .. m /\ m - 1 \in 0 .. m /\ m - 1 # m /\ m # 0
                OBVIOUS
            <4>2. h[m] = step[m][g[m - 1]] /\ h[m - 1] = g[m - 1]
                BY <4>1
            <4> QED
                BY <3>1, <4>1, <4>2
        <3>2. CASE i # m
            <4>1. i \in 0 .. m - 1 /\ i - 1 # m /\ (i # 0 => i - 1 \in 0 .. m)
                BY <3>2
            <4>2. h[i] = g[i] /\ g[i] = Step(g, i)
                BY <4>1, <3>2, <2>1
            <4>3. i # 0 => h[i - 1] = g[i - 1]
                BY <4>1
            <4> QED
                BY <4>2, <4>3
        <3> QED
            BY <3>1, <3>2
    <2>6. m \in Nat
        OBVIOUS
    <2> QED
        BY <2>4, <2>5, <2>6
<1>3. n \in S
    <2> HIDE DEF S
    <2>1. \A k \in 0 .. n : k \in S
        BY <1>1, <1>2, Upward
    <2> QED
        BY <2>1
<1>4. PICK g \in [0 .. n -> A] : Good(g, n)
    BY <1>3
<1>5. 0 \in 0 .. n /\ \A k \in 1 .. n : k \in 0 .. n /\ k # 0
    OBVIOUS
<1>6. g[0] = base /\ \A k \in 1 .. n : g[k] = step[k][g[k - 1]]
    BY <1>4, <1>5
<1> QED
    BY <1>6 DEF Recursions

-----------------------------------------------------------------------------
(* A list that is filtered, and one that is flattened, has all elements.   *)

LEMMA FilterSteps ==
    ASSUME NEW T, NEW s \in Seq(T), NEW S
    PROVE  \E first : /\ first[0] = <<>> /\ Filter(s, S) = first[Len(s)]
                      /\ \A k \in 1 .. Len(s) :
                            first[k] = IF s[k] \in S THEN Append(first[k - 1], s[k])
                                       ELSE first[k - 1]
<1> DEFINE n == Len(s)
           A == Seq(T)
           step == [k \in 1 .. n |-> [a \in A |-> IF s[k] \in S THEN Append(a, s[k]) ELSE a]]
           first == CHOOSE f : f = [k \in 0 .. n |->
                       IF k = 0 THEN <<>>
                       ELSE IF s[k] \in S THEN Append(f[k - 1], s[k]) ELSE f[k - 1]]
<1>1. n \in Nat /\ DOMAIN s = 1 .. n /\ <<>> \in A /\ \A i \in 1 .. n : s[i] \in T
    OBVIOUS
<1>2. \A k \in 1 .. n : \A a \in A : step[k][a] \in A
    BY <1>1
<1>3. PICK g \in [0 .. n -> A] :
          g[0] = <<>> /\ \A k \in 1 .. n : g[k] = step[k][g[k - 1]]
    <2> HIDE DEF n, A, step
    <2>1. n \in Nat /\ <<>> \in A
        BY <1>1
    <2>2. Recursions(n, A, <<>>, step) # {}
        BY <2>1, <1>2, RecursionExists, Zenon
    <2> QED
        BY <2>2 DEF Recursions
<1>4. \A k \in 1 .. n : k - 1 \in 0 .. n /\ k # 0 /\ k \in 0 .. n
    BY <1>1
<1>5. \A k \in 0 .. n : g[k] = IF k = 0 THEN <<>>
                              ELSE IF s[k] \in S THEN Append(g[k - 1], s[k]) ELSE g[k - 1]
    <2> SUFFICES ASSUME NEW k \in 0 .. n, k # 0
                 PROVE  g[k] = IF s[k] \in S THEN Append(g[k - 1], s[k]) ELSE g[k - 1]
        BY <1>3
    <2>0. k \in 1 .. n /\ k - 1 \in 0 .. n
        BY <1>1
    <2>1. k \in 1 .. n /\ g[k - 1] \in A
        BY <2>0, <1>3
    <2> QED
        BY <2>1, <1>3
<1>6. first = [k \in 0 .. n |->
                  IF k = 0 THEN <<>>
                  ELSE IF s[k] \in S THEN Append(first[k - 1], s[k]) ELSE first[k - 1]]
    <2>1. g = [k \in 0 .. n |->
                  IF k = 0 THEN <<>>
                  ELSE IF s[k] \in S THEN Append(g[k - 1], s[k]) ELSE g[k - 1]]
        BY <1>3, <1>5
    <2> QED
        BY <2>1, Zenon
<1>7. Filter(s, S) = first[n]
    BY DEF Filter
<1> HIDE DEF first, step
<1>8. first[0] = <<>> /\ \A k \in 1 .. n :
          first[k] = IF s[k] \in S THEN Append(first[k - 1], s[k]) ELSE first[k - 1]
    <2>1. 0 \in 0 .. n
        BY <1>1
    <2> HIDE DEF n
    <2> QED
        BY <2>1, <1>4, <1>6
<1> QED
    BY <1>7, <1>8

LEMMA FilterHas ==
    ASSUME NEW T, NEW s \in Seq(T), NEW S
    PROVE  /\ \A i \in DOMAIN s : s[i] \in S =>
                 \E j \in DOMAIN Filter(s, S) : Filter(s, S)[j] = s[i]
           /\ \A j \in DOMAIN Filter(s, S) :
                 Filter(s, S)[j] \in S /\ \E i \in DOMAIN s : Filter(s, S)[j] = s[i]
<1> DEFINE n == Len(s)
           A == Seq(T)
<1>1. n \in Nat /\ DOMAIN s = 1 .. n /\ <<>> \in A /\ \A i \in 1 .. n : s[i] \in T
    OBVIOUS
<1>8. PICK first : /\ first[0] = <<>> /\ Filter(s, S) = first[n]
                   /\ \A k \in 1 .. n :
                         first[k] = IF s[k] \in S THEN Append(first[k - 1], s[k])
                                    ELSE first[k - 1]
    BY FilterSteps
<1> DEFINE Has(q, k) == /\ q \in A
                        /\ \A i \in 1 .. k : s[i] \in S => \E j \in DOMAIN q : q[j] = s[i]
                        /\ \A j \in DOMAIN q : q[j] \in S /\ \E i \in DOMAIN s : q[j] = s[i]
           G == {k \in 0 .. n : Has(first[k], k)}
<1>9. 0 \in G
    <2>1. 0 \in 0 .. n /\ 1 .. 0 = {} /\ DOMAIN <<>> = {}
        BY <1>1
    <2>2. Has(<<>>, 0)
        BY <2>1, <1>1
    <2> QED
        BY <2>1, <2>2, <1>8
<1>10. ASSUME NEW k \in 1 .. n, k - 1 \in G PROVE k \in G
    <2> DEFINE q == first[k - 1]
    <2>1. Has(q, k - 1) /\ k \in 0 .. n /\ k \in DOMAIN s
        BY <1>10, <1>1
    <2>2. \A i \in 1 .. k : i = k \/ i \in 1 .. k - 1
        BY <1>1
    <2>3. CASE s[k] \notin S
        <3>1. first[k] = q
            BY <1>8, <2>3
        <3>2. Has(q, k)
            BY <2>1, <2>2, <2>3
        <3> QED
            BY <3>1, <3>2, <2>1
    <2>4. CASE s[k] \in S
        <3> HIDE DEF q
        <3> DEFINE r == Append(q, s[k])
        <3>1. first[k] = r
            BY <1>8, <2>4 DEF q
        <3>2. q \in Seq(T) /\ s[k] \in T
            BY <2>1, <1>1
        <3>3. /\ r \in Seq(T) /\ DOMAIN r = 1 .. Len(q) + 1 /\ Len(q) \in Nat
              /\ DOMAIN q = 1 .. Len(q)
              /\ r[Len(q) + 1] = s[k] /\ \A j \in 1 .. Len(q) : r[j] = q[j]
            BY <3>2
        <3> HIDE DEF r
        <3>4. \A j \in DOMAIN r : j \in DOMAIN q \/ j = Len(q) + 1
            BY <3>3
        <3>5. \A j \in DOMAIN q : j \in DOMAIN r /\ r[j] = q[j]
            BY <3>3
        <3>6. Len(q) + 1 \in DOMAIN r
            BY <3>3
        <3>7. \A j \in DOMAIN r : r[j] \in S /\ \E i \in DOMAIN s : r[j] = s[i]
            BY <3>3, <3>4, <3>5, <2>1, <2>4
        <3>8. \A i \in 1 .. k : s[i] \in S => \E j \in DOMAIN r : r[j] = s[i]
            BY <3>3, <3>5, <3>6, <2>1, <2>2
        <3> QED
            BY <3>1, <3>3, <3>7, <3>8, <2>1
    <2> QED
        BY <2>3, <2>4
<1>11. \A k \in 0 .. n : k \in G
    <2> HIDE DEF G, n
    <2> QED
        BY <1>1, <1>9, <1>10, Upward
<1>12. Has(first[n], n)
    <2>1. n \in 0 .. n
        BY <1>1
    <2> QED
        BY <2>1, <1>11
<1> QED
    BY <1>8, <1>12, <1>1

LEMMA FilterReaches ==
    ASSUME NEW T, NEW s \in Seq(T), NEW S, NEW i \in DOMAIN s, s[i] \in S
    PROVE  \E j \in DOMAIN Filter(s, S) : Filter(s, S)[j] = s[i]
BY FilterHas

LEMMA FlattenedSteps ==
    ASSUME NEW T, NEW s \in Seq(Seq(T))
    PROVE  \E joined : /\ joined[0] = <<>> /\ Flattened(s) = joined[Len(s)]
                       /\ \A k \in 1 .. Len(s) : joined[k] = joined[k - 1] \o s[k]
<1> DEFINE n == Len(s)
           A == Seq(T)
           step == [k \in 1 .. n |-> [a \in A |-> a \o s[k]]]
           joined == CHOOSE f : f = [k \in 0 .. n |-> IF k = 0 THEN <<>> ELSE f[k - 1] \o s[k]]
<1>1. n \in Nat /\ DOMAIN s = 1 .. n /\ <<>> \in A /\ \A i \in 1 .. n : s[i] \in A
    OBVIOUS
<1>2. \A k \in 1 .. n : \A a \in A : step[k][a] \in A
    BY <1>1
<1>3. PICK g \in [0 .. n -> A] :
          g[0] = <<>> /\ \A k \in 1 .. n : g[k] = step[k][g[k - 1]]
    <2> HIDE DEF n, A, step
    <2>1. n \in Nat /\ <<>> \in A
        BY <1>1
    <2>2. Recursions(n, A, <<>>, step) # {}
        BY <2>1, <1>2, RecursionExists, Zenon
    <2> QED
        BY <2>2 DEF Recursions
<1>5. \A k \in 0 .. n : g[k] = IF k = 0 THEN <<>> ELSE g[k - 1] \o s[k]
    <2> SUFFICES ASSUME NEW k \in 0 .. n, k # 0 PROVE g[k] = g[k - 1] \o s[k]
        BY <1>3
    <2>0. k \in 1 .. n /\ k - 1 \in 0 .. n
        BY <1>1
    <2>1. k \in 1 .. n /\ g[k - 1] \in A
        BY <2>0, <1>3
    <2> QED
        BY <2>1, <1>3
<1>6. joined = [k \in 0 .. n |-> IF k = 0 THEN <<>> ELSE joined[k - 1] \o s[k]]
    <2>1. g = [k \in 0 .. n |-> IF k = 0 THEN <<>> ELSE g[k - 1] \o s[k]]
        BY <1>3, <1>5
    <2> QED
        BY <2>1, Zenon
<1>7. Flattened(s) = joined[n]
    BY DEF Flattened
<1> HIDE DEF joined, step
<1>8. joined[0] = <<>> /\ \A k \in 1 .. n : joined[k] = joined[k - 1] \o s[k]
    <2>1. 0 \in 0 .. n /\ \A k \in 1 .. n : k \in 0 .. n /\ k # 0
        BY <1>1
    <2> HIDE DEF n
    <2> QED
        BY <2>1, <1>6
<1> QED
    BY <1>7, <1>8

LEMMA FlattenedHas ==
    ASSUME NEW T, NEW s \in Seq(Seq(T))
    PROVE  /\ Flattened(s) \in Seq(T)
           /\ \A i \in DOMAIN s : \A j \in DOMAIN s[i] :
                 \E k \in DOMAIN Flattened(s) : Flattened(s)[k] = s[i][j]
           /\ \A k \in DOMAIN Flattened(s) :
                 \E i \in DOMAIN s : \E j \in DOMAIN s[i] : Flattened(s)[k] = s[i][j]
<1> DEFINE n == Len(s)
           A == Seq(T)
<1>1. n \in Nat /\ DOMAIN s = 1 .. n /\ <<>> \in A /\ \A i \in 1 .. n : s[i] \in A
    OBVIOUS
<1>8. PICK joined : /\ joined[0] = <<>> /\ Flattened(s) = joined[n]
                    /\ \A k \in 1 .. n : joined[k] = joined[k - 1] \o s[k]
    BY FlattenedSteps
<1> DEFINE Has(q, k) == /\ q \in A
                        /\ \A i \in 1 .. k : \A j \in DOMAIN s[i] : \E l \in DOMAIN q : q[l] = s[i][j]
                        /\ \A l \in DOMAIN q : \E i \in DOMAIN s : \E j \in DOMAIN s[i] : q[l] = s[i][j]
           G == {k \in 0 .. n : Has(joined[k], k)}
<1>9. 0 \in G
    <2>1. 0 \in 0 .. n /\ 1 .. 0 = {} /\ DOMAIN <<>> = {}
        BY <1>1
    <2>2. Has(<<>>, 0)
        BY <2>1, <1>1
    <2> QED
        BY <2>1, <2>2, <1>8
<1>10. ASSUME NEW k \in 1 .. n, k - 1 \in G PROVE k \in G
    <2> DEFINE q == joined[k - 1]
               r == q \o s[k]
    <2>1. Has(q, k - 1) /\ k \in 0 .. n /\ k \in DOMAIN s /\ joined[k] = r
        BY <1>10, <1>1, <1>8
    <2>2. \A i \in 1 .. k : i = k \/ i \in 1 .. k - 1
        BY <1>1
    <2>3. q \in Seq(T) /\ s[k] \in Seq(T)
        BY <2>1, <1>1
    <2> HIDE DEF q
    <2>4. /\ r \in Seq(T) /\ DOMAIN r = 1 .. Len(q) + Len(s[k]) /\ Len(q) \in Nat
          /\ Len(s[k]) \in Nat /\ DOMAIN q = 1 .. Len(q) /\ DOMAIN s[k] = 1 .. Len(s[k])
          /\ \A j \in 1 .. Len(q) + Len(s[k]) :
                r[j] = IF j <= Len(q) THEN q[j] ELSE s[k][j - Len(q)]
        BY <2>3
    <2> HIDE DEF r
    <2>5. \A j \in DOMAIN q : j \in DOMAIN r /\ r[j] = q[j]
        <3>1. \A j \in 1 .. Len(q) : j \in 1 .. Len(q) + Len(s[k]) /\ j <= Len(q)
            BY <2>4
        <3> HIDE DEF n
        <3> QED
            BY <3>1, <2>4
    <2>6. \A j \in DOMAIN s[k] : Len(q) + j \in DOMAIN r /\ r[Len(q) + j] = s[k][j]
        <3> SUFFICES ASSUME NEW j \in DOMAIN s[k]
                     PROVE  Len(q) + j \in DOMAIN r /\ r[Len(q) + j] = s[k][j]
            OBVIOUS
        <3>1. j \in Nat /\ j >= 1 /\ j <= Len(s[k])
            BY <2>4
        <3>2. Len(q) + j \in 1 .. Len(q) + Len(s[k]) /\ ~(Len(q) + j <= Len(q)) /\ Len(q) + j - Len(q) = j
            BY <3>1, <2>4
        <3> QED
            BY <3>2, <2>4
    <2>7. \A l \in DOMAIN r : l \in DOMAIN q \/ (l - Len(q) \in DOMAIN s[k] /\ Len(q) + (l - Len(q)) = l)
        BY <2>4
    <2>8. \A l \in DOMAIN r : \E i \in DOMAIN s : \E j \in DOMAIN s[i] : r[l] = s[i][j]
        <3> SUFFICES ASSUME NEW l \in DOMAIN r
                     PROVE  \E i \in DOMAIN s : \E j \in DOMAIN s[i] : r[l] = s[i][j]
            OBVIOUS
        <3>1. CASE l \in DOMAIN q
            BY <3>1, <2>5, <2>1
        <3>2. CASE l - Len(q) \in DOMAIN s[k] /\ Len(q) + (l - Len(q)) = l
            <4>1. r[l] = s[k][l - Len(q)]
                BY <3>2, <2>6
            <4> QED
                BY <4>1, <3>2, <2>1
        <3> QED
            BY <3>1, <3>2, <2>7
    <2>9. \A i \in 1 .. k : \A j \in DOMAIN s[i] : \E l \in DOMAIN r : r[l] = s[i][j]
        <3> SUFFICES ASSUME NEW i \in 1 .. k, NEW j \in DOMAIN s[i]
                     PROVE  \E l \in DOMAIN r : r[l] = s[i][j]
            OBVIOUS
        <3>1. CASE i = k
            BY <3>1, <2>6
        <3>2. CASE i \in 1 .. k - 1
            <4>1. PICK l \in DOMAIN q : q[l] = s[i][j]
                BY <3>2, <2>1
            <4> QED
                BY <4>1, <2>5
        <3> QED
            BY <3>1, <3>2, <2>2
    <2>10. r \in A
        BY <2>4
    <2>11. Has(r, k)
        <3> HIDE DEF A
        <3> QED
            BY <2>10, <2>8, <2>9, Zenon
    <2> HIDE DEF Has
    <2> QED
        BY <2>1, <2>11, Zenon
<1>11. \A k \in 0 .. n : k \in G
    <2> HIDE DEF G, n
    <2> QED
        BY <1>1, <1>9, <1>10, Upward
<1>12. Has(joined[n], n)
    <2>1. n \in 0 .. n
        BY <1>1
    <2> QED
        BY <2>1, <1>11
<1> QED
    BY <1>8, <1>12, <1>1

(* What is behind a list.                                                  *)
LEMMA ConcatAt ==
    ASSUME NEW T, NEW s \in Seq(T), NEW t \in Seq(T), NEW i \in DOMAIN t
    PROVE  /\ s \o t \in Seq(T) /\ Len(s) + i \in DOMAIN (s \o t)
           /\ (s \o t)[Len(s) + i] = t[i]
<1>1. /\ s \o t \in Seq(T) /\ DOMAIN (s \o t) = 1 .. Len(s) + Len(t)
      /\ Len(s) \in Nat /\ Len(t) \in Nat /\ DOMAIN t = 1 .. Len(t)
      /\ \A j \in 1 .. Len(s) + Len(t) :
            (s \o t)[j] = IF j <= Len(s) THEN s[j] ELSE t[j - Len(s)]
    OBVIOUS
<1>2. i \in Nat /\ i >= 1 /\ i <= Len(t)
    BY <1>1
<1>3. /\ Len(s) + i \in 1 .. Len(s) + Len(t) /\ ~(Len(s) + i <= Len(s))
      /\ Len(s) + i - Len(s) = i
    BY <1>1, <1>2
<1> QED
    BY <1>1, <1>3

(* A list with one element that passes, and one of one list or of none.    *)
LEMMA FilterOne ==
    ASSUME NEW T, NEW s \in Seq(T), NEW S, NEW m \in DOMAIN s, s[m] \in S,
           \A i \in DOMAIN s : s[i] \in S => i = m
    PROVE  Filter(s, S) = <<s[m]>>
<1> DEFINE n == Len(s)
<1>1. n \in Nat /\ DOMAIN s = 1 .. n /\ m \in 1 .. n
    OBVIOUS
<1>2. PICK first : /\ first[0] = <<>> /\ Filter(s, S) = first[n]
                   /\ \A k \in 1 .. n :
                         first[k] = IF s[k] \in S THEN Append(first[k - 1], s[k])
                                    ELSE first[k - 1]
    BY FilterSteps
<1> DEFINE G == {k \in Nat : first[k] = IF k < m THEN <<>> ELSE <<s[m]>>}
<1>3. 0 \in G
    BY <1>1, <1>2
<1>4. Append(<<>>, s[m]) = <<s[m]>>
    OBVIOUS
<1> HIDE DEF n
<1>5. ASSUME NEW k \in 1 .. n, k - 1 \in G PROVE k \in G
    <2>1. /\ k \in Nat /\ first[k] = IF s[k] \in S THEN Append(first[k - 1], s[k]) ELSE first[k - 1]
          /\ first[k - 1] = IF k - 1 < m THEN <<>> ELSE <<s[m]>>
        BY <1>5, <1>1, <1>2
    <2>2. CASE k = m
        <3>1. s[k] \in S /\ k - 1 < m /\ ~(k < m)
            BY <2>2, <2>1, <1>1
        <3> QED
            BY <3>1, <2>1, <2>2, <1>4
    <2>3. CASE k # m
        <3>1. s[k] \notin S
            BY <2>3, <1>1
        <3>2. k - 1 < m <=> k < m
            BY <2>3, <1>1
        <3> QED
            BY <3>1, <3>2, <2>1
    <2> QED
        BY <2>2, <2>3
<1>6. n \in G
    <2> HIDE DEF G
    <2>1. \A k \in 0 .. n : k \in G
        BY <1>1, <1>3, <1>5, Upward
    <2> QED
        BY <2>1, <1>1
<1>7. ~(n < m)
    BY <1>1
<1> QED
    BY <1>2, <1>6, <1>7

LEMMA FilterNone ==
    ASSUME NEW T, NEW s \in Seq(T), NEW S, \A i \in DOMAIN s : s[i] \notin S
    PROVE  Filter(s, S) = <<>>
<1> DEFINE q == Filter(s, S)
<1>1. q \in Seq(T \cap S)
    BY FilterKeeps
<1>2. \A j \in DOMAIN q : q[j] \in S /\ \E i \in DOMAIN s : q[j] = s[i]
    BY FilterHas
<1> HIDE DEF q
<1>3. DOMAIN q = {}
    BY <1>2
<1>4. q = <<>>
    BY <1>1, <1>3
<1> QED
    BY <1>4 DEF q

LEMMA FlattenedFew ==
    ASSUME NEW T, NEW x \in Seq(T)
    PROVE  Flattened(<<>>) = <<>> /\ Flattened(<<x>>) = x
<1>1. Flattened(<<>>) = <<>>
    <2>1. <<>> \in Seq(Seq(T)) /\ Len(<<>>) = 0
        OBVIOUS
    <2> QED
        BY <2>1, FlattenedSteps
<1>2. Flattened(<<x>>) = x
    <2>1. <<x>> \in Seq(Seq(T)) /\ Len(<<x>>) = 1 /\ <<x>>[1] = x
        OBVIOUS
    <2> DEFINE y == <<x>>
    <2> HIDE DEF y
    <2>2. y \in Seq(Seq(T)) /\ Len(y) = 1 /\ y[1] = x
        BY <2>1 DEF y
    <2>3. PICK joined : /\ joined[0] = <<>> /\ Flattened(y) = joined[Len(y)]
                       /\ \A k \in 1 .. Len(y) : joined[k] = joined[k - 1] \o y[k]
        BY <2>2, FlattenedSteps
    <2>4. 1 \in 1 .. Len(y) /\ 1 - 1 = 0
        BY <2>2
    <2>5. Flattened(y) = <<>> \o x
        BY <2>2, <2>3, <2>4
    <2>6. <<>> \o x = x
        OBVIOUS
    <2> QED
        BY <2>5, <2>6 DEF y
<1> QED
    BY <1>1, <1>2
=============================================================================
