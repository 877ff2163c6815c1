----------------------------- MODULE FusionProofs -----------------------------
(***************************************************************************)
(* What the proofs about rankings, budgets and recalls share: induction on  *)
(* the subsets of a finite set, sums, positions in an order, and the facts  *)
(* about Fusion's operators that hold for any rankings and any limits.      *)
(*                                                                          *)
(* The provers cannot instantiate an induction theorem whose parameter is a *)
(* predicate, so induction is stated for a set: the set of the elements for *)
(* which something holds is all of them.  The library's sums are recursive  *)
(* functions; FoldExists shows that the recursion has a solution.           *)
(***************************************************************************)
EXTENDS Fusion, FiniteSetTheorems, WellFoundedInduction, TLAPS

------------------------------------------------------------------------------
(* Induction.                                                                *)

\* The order of the natural numbers.
Less == {ss \in Nat \X Nat : ss[1] < ss[2]}

\* A set of natural numbers has a least element.
LEMMA LeastOf ==
  ASSUME NEW T \in SUBSET Nat, T # {}
  PROVE  \E k \in T : \A l \in T : k <= l
<1>1. PICK k \in T : \A l \in T : <<l, k>> \notin Less
  <2>1. IsWellFoundedOn(Less, Nat)
    BY NatLessThanWellFounded DEF OpToRel, Less
  <2> QED
    BY <2>1, WFMin
<1>2. ASSUME NEW l \in T PROVE k <= l
  <2>1. <<l, k>> \notin Less /\ l \in Nat /\ k \in Nat
    BY <1>1
  <2> QED
    BY <2>1 DEF Less
<1> QED
  BY <1>2

\* Induction on the natural numbers.
LEMMA NatSteps ==
  ASSUME NEW G, 0 \in G, \A n \in Nat : n \in G => n + 1 \in G
  PROVE  Nat \subseteq G
<1> SUFFICES ASSUME Nat \ G # {} PROVE FALSE
  OBVIOUS
<1>1. PICK k \in Nat \ G : \A l \in Nat \ G : k <= l
  BY LeastOf
<1>2. k # 0 /\ k - 1 \in Nat /\ k - 1 \in G
  BY <1>1
<1> QED
  BY <1>1, <1>2

\* Induction on the subsets of a finite set.
LEMMA SubsetSteps ==
  ASSUME NEW T, IsFiniteSet(T), NEW G, {} \in G,
         \A s \in SUBSET T : s # {} /\ (\A x \in s : s \ {x} \in G) => s \in G
  PROVE  SUBSET T \subseteq G
<1> SUFFICES ASSUME NEW u \in SUBSET T PROVE u \in G
  OBVIOUS
<1> DEFINE H == {n \in Nat : \A s \in SUBSET T : Cardinality(s) = n => s \in G}
<1>1. \A s \in SUBSET T : IsFiniteSet(s) /\ Cardinality(s) \in Nat
  BY FS_Subset, FS_CardinalityType
<1>2. 0 \in H
  <2>1. \A s \in SUBSET T : Cardinality(s) = 0 => s = {}
    BY <1>1, FS_EmptySet
  <2> QED
    BY <2>1
<1>3. ASSUME NEW n \in Nat, n \in H PROVE n + 1 \in H
  <2> SUFFICES ASSUME NEW s \in SUBSET T, Cardinality(s) = n + 1 PROVE s \in G
    OBVIOUS
  <2>1. IsFiniteSet(s) /\ Cardinality(s) # 0
    BY <1>1
  <2>2. s # {}
    BY <2>1, FS_EmptySet
  <2>3. ASSUME NEW x \in s PROVE s \ {x} \in G
    <3>1. Cardinality(s \ {x}) = Cardinality(s) - 1
      BY <2>1, FS_RemoveElement
    <3>2. Cardinality(s \ {x}) = n /\ s \ {x} \in SUBSET T
      BY <3>1
    <3> QED
      BY <1>3, <3>2
  <2> HIDE DEF H
  <2> QED
    BY <2>2, <2>3
<1>4. Nat \subseteq H
  <2> HIDE DEF H
  <2> QED
    BY <1>2, <1>3, NatSteps
<1> QED
  BY <1>1, <1>4

------------------------------------------------------------------------------
(* Sums over a finite set.                                                   *)

\* The element of a set the library's folds take first.
Pick(s) == CHOOSE x \in s : TRUE

\* It is one of the set's.
LEMMA Picked == ASSUME NEW s, s # {} PROVE Pick(s) \in s
  BY DEF Pick

\* it is the fold of step over the subsets of T, started with base.
Fold(it, T, base, step) ==
    it = [s \in SUBSET T |->
            IF s = {} THEN base ELSE step[<<Pick(s), it[s \ {Pick(s)}]>>]]

\* The recursion on subsets has a solution.
LEMMA FoldExists ==
  ASSUME NEW T, IsFiniteSet(T), NEW base \in Nat, NEW step \in [T \X Nat -> Nat]
  PROVE  \E it \in [SUBSET T -> Nat] : Fold(it, T, base, step)
<1> DEFINE Upto(n) == {s \in SUBSET T : Cardinality(s) <= n}
           Solves(h, n) ==
             \A s \in Upto(n) :
               h[s] = IF s = {} THEN base ELSE step[<<Pick(s), h[s \ {Pick(s)}]>>]
           H == {n \in Nat : \E h \in [Upto(n) -> Nat] : Solves(h, n)}
<1>1. \A s \in SUBSET T : IsFiniteSet(s) /\ Cardinality(s) \in Nat
  BY FS_Subset, FS_CardinalityType
<1>2. \A s \in SUBSET T : s # {} =>
        /\ Pick(s) \in T /\ s \ {Pick(s)} \in SUBSET T
        /\ Cardinality(s \ {Pick(s)}) = Cardinality(s) - 1
  BY <1>1, Picked, FS_RemoveElement
<1>3. 0 \in H
  <2>1. \A s \in Upto(0) : s = {}
    BY <1>1, FS_EmptySet
  <2>2. [s \in Upto(0) |-> base] \in [Upto(0) -> Nat]
    OBVIOUS
  <2>3. Solves([s \in Upto(0) |-> base], 0)
    BY <2>1
  <2> QED
    BY <2>2, <2>3
<1>4. ASSUME NEW n \in Nat, n \in H PROVE n + 1 \in H
  <2>1. PICK h \in [Upto(n) -> Nat] : Solves(h, n)
    BY <1>4
  <2> DEFINE k == [s \in Upto(n + 1) |->
                    IF s = {} THEN base ELSE step[<<Pick(s), h[s \ {Pick(s)}]>>]]
  <2>2. \A s \in Upto(n + 1) : s # {} => s \ {Pick(s)} \in Upto(n)
    BY <1>1, <1>2
  <2>3. k \in [Upto(n + 1) -> Nat]
    <3>1. ASSUME NEW s \in Upto(n + 1), s # {}
          PROVE  step[<<Pick(s), h[s \ {Pick(s)}]>>] \in Nat
      <4>1. h[s \ {Pick(s)}] \in Nat
        BY <2>1, <2>2, <3>1
      <4>2. <<Pick(s), h[s \ {Pick(s)}]>> \in T \X Nat
        BY <1>2, <3>1, <4>1
      <4> QED
        BY <4>2
    <3> QED
      BY <3>1
  <2>4. \A s \in Upto(n) : s \in Upto(n + 1) /\ k[s] = h[s]
    <3>1. \A s \in Upto(n) : s \in Upto(n + 1)
      BY <1>1
    <3> QED
      BY <2>1, <3>1
  <2>5. Solves(k, n + 1)
    <3> SUFFICES ASSUME NEW s \in Upto(n + 1)
                 PROVE  k[s] = IF s = {} THEN base ELSE step[<<Pick(s), k[s \ {Pick(s)}]>>]
      OBVIOUS
    <3>1. CASE s = {}
      BY <3>1
    <3>2. CASE s # {}
      <4>1. k[s \ {Pick(s)}] = h[s \ {Pick(s)}]
        BY <2>2, <2>4, <3>2
      <4>2. k[s] = step[<<Pick(s), h[s \ {Pick(s)}]>>]
        BY <3>2
      <4> HIDE DEF k
      <4> QED
        BY <3>2, <4>1, <4>2
    <3> QED
      BY <3>1, <3>2
  <2> HIDE DEF k, Upto, Solves
  <2> QED
    BY <2>3, <2>5
<1>5. Cardinality(T) \in H
  <2> HIDE DEF H
  <2> QED
    BY <1>1, <1>3, <1>4, NatSteps
<1>6. Upto(Cardinality(T)) = SUBSET T
  BY <1>1, FS_Subset
<1>7. PICK h \in [Upto(Cardinality(T)) -> Nat] : Solves(h, Cardinality(T))
  BY <1>5
<1>8. Fold(h, T, base, step)
  BY <1>6, <1>7 DEF Fold
<1> QED
  BY <1>6, <1>7, <1>8

\* sum holds the sum of a over each subset of T.
Sums(sum, T, a) ==
    sum = [s \in SUBSET T |->
             IF s = {} THEN 0 ELSE a[Pick(s)] + sum[s \ {Pick(s)}]]

\* There are such sums.
LEMMA SumsExist ==
  ASSUME NEW T, IsFiniteSet(T), NEW a \in [T -> Nat]
  PROVE  \E sum : Sums(sum, T, a)
<1> DEFINE step == [p \in T \X Nat |-> a[p[1]] + p[2]]
<1>1. step \in [T \X Nat -> Nat]
  OBVIOUS
<1>2. PICK sum \in [SUBSET T -> Nat] : Fold(sum, T, 0, step)
  BY <1>1, FoldExists
<1>3. ASSUME NEW s \in SUBSET T, s # {}
      PROVE  step[<<Pick(s), sum[s \ {Pick(s)}]>>] = a[Pick(s)] + sum[s \ {Pick(s)}]
  <2>1. Pick(s) \in T /\ sum[s \ {Pick(s)}] \in Nat
    BY <1>3, Picked
  <2> QED
    BY <2>1
<1> HIDE DEF step
<1>4. Sums(sum, T, a)
  BY <1>2, <1>3 DEF Fold, Sums
<1> QED
  BY <1>4

\* The recursion has one solution only.
LEMMA SumsUnique ==
  ASSUME NEW T, IsFiniteSet(T), NEW a, NEW sum, Sums(sum, T, a),
         NEW tot, Sums(tot, T, a)
  PROVE  sum = tot
<1> DEFINE G == {s \in SUBSET T : sum[s] = tot[s]}
<1>1. {} \in G
  BY DEF Sums
<1>2. ASSUME NEW s \in SUBSET T, s # {}, \A x \in s : s \ {x} \in G PROVE s \in G
  <2>1. Pick(s) \in s
    BY <1>2, Picked
  <2>2. sum[s] = a[Pick(s)] + sum[s \ {Pick(s)}]
    BY <1>2 DEF Sums
  <2>3. tot[s] = a[Pick(s)] + tot[s \ {Pick(s)}]
    BY <1>2 DEF Sums
  <2> QED
    BY <1>2, <2>1, <2>2, <2>3
<1>3. \A s \in SUBSET T : sum[s] = tot[s]
  <2>1. SUBSET T \subseteq G
    <3> HIDE DEF G
    <3> QED
      BY <1>1, <1>2, SubsetSteps
  <2> QED
    BY <2>1
<1>4. sum = [s \in SUBSET T |-> sum[s]] /\ tot = [s \in SUBSET T |-> tot[s]]
  BY DEF Sums
<1> QED
  BY <1>3, <1>4

\* The sum of a over a part of its domain.
Total(a, s) == (CHOOSE sum : Sums(sum, DOMAIN a, a))[s]

\* Any solution of the recursion gives it.
LEMMA TotalIs ==
  ASSUME NEW T, IsFiniteSet(T), NEW a \in [T -> Nat], NEW sum, Sums(sum, T, a),
         NEW s
  PROVE  Total(a, s) = sum[s]
<1>1. Sums(CHOOSE x : Sums(x, T, a), T, a)
  OBVIOUS
<1>2. (CHOOSE x : Sums(x, T, a)) = sum
  BY <1>1, SumsUnique
<1> QED
  BY <1>2 DEF Total

\* The sum's recursion.
LEMMA TotalStep ==
  ASSUME NEW T, IsFiniteSet(T), NEW a \in [T -> Nat],
         NEW s \in SUBSET T, s # {}
  PROVE  Pick(s) \in s /\ Total(a, s) = a[Pick(s)] + Total(a, s \ {Pick(s)})
<1>1. PICK sum : Sums(sum, T, a)
  BY SumsExist
<1>2. \A u : Total(a, u) = sum[u]
  BY <1>1, TotalIs
<1>3. sum[s] = a[Pick(s)] + sum[s \ {Pick(s)}]
  BY <1>1 DEF Sums
<1> QED
  BY <1>2, <1>3, Picked

\* Its start.
LEMMA TotalEmpty ==
  ASSUME NEW T, IsFiniteSet(T), NEW a \in [T -> Nat]
  PROVE  Total(a, {}) = 0
<1>1. PICK sum : Sums(sum, T, a)
  BY SumsExist
<1>2. sum[{}] = 0
  BY <1>1 DEF Sums
<1> QED
  BY <1>1, <1>2, TotalIs

\* A sum of natural numbers is one.
LEMMA TotalNat ==
  ASSUME NEW T, IsFiniteSet(T), NEW a \in [T -> Nat]
  PROVE  \A s \in SUBSET T : Total(a, s) \in Nat
<1> DEFINE G == {s \in SUBSET T : Total(a, s) \in Nat}
<1>1. {} \in G
  BY TotalEmpty
<1>2. ASSUME NEW s \in SUBSET T, s # {}, \A x \in s : s \ {x} \in G PROVE s \in G
  <2>1. Pick(s) \in s /\ Total(a, s) = a[Pick(s)] + Total(a, s \ {Pick(s)})
    <3> HIDE DEF G
    <3> QED
      BY <1>2, TotalStep
  <2>2. a[Pick(s)] \in Nat /\ Total(a, s \ {Pick(s)}) \in Nat
    BY <1>2, <2>1
  <2> QED
    BY <2>1, <2>2
<1>3. SUBSET T \subseteq G
  <2> HIDE DEF G
  <2> QED
    BY <1>1, <1>2, SubsetSteps
<1> QED
  BY <1>3

\* Sums of smaller terms are smaller.
LEMMA TotalAtMost ==
  ASSUME NEW T, IsFiniteSet(T), NEW a \in [T -> Nat],
         NEW U, IsFiniteSet(U), NEW b \in [U -> Nat],
         NEW W \in SUBSET (T \cap U), \A x \in W : a[x] <= b[x]
  PROVE  Total(a, W) <= Total(b, W)
<1> DEFINE G == {s \in SUBSET W : Total(a, s) <= Total(b, s)}
<1>1. {} \in G
  BY TotalEmpty
<1>2. ASSUME NEW s \in SUBSET W, s # {}, \A x \in s : s \ {x} \in G PROVE s \in G
  <2>1. s \in SUBSET T /\ s \in SUBSET U
    OBVIOUS
  <2>2. Pick(s) \in s /\ Total(a, s) = a[Pick(s)] + Total(a, s \ {Pick(s)})
    BY <1>2, <2>1, TotalStep
  <2>3. Total(b, s) = b[Pick(s)] + Total(b, s \ {Pick(s)})
    BY <1>2, <2>1, TotalStep
  <2>4. /\ a[Pick(s)] \in Nat /\ b[Pick(s)] \in Nat
        /\ a[Pick(s)] <= b[Pick(s)]
    BY <2>1, <2>2
  <2>5. Total(a, s \ {Pick(s)}) \in Nat /\ Total(b, s \ {Pick(s)}) \in Nat
    <3>1. s \ {Pick(s)} \in SUBSET T /\ s \ {Pick(s)} \in SUBSET U
      BY <2>1
    <3> QED
      BY <3>1, TotalNat
  <2>6. Total(a, s \ {Pick(s)}) <= Total(b, s \ {Pick(s)})
    BY <1>2, <2>2
  <2> QED
    BY <2>2, <2>3, <2>4, <2>5, <2>6
<1>3. SUBSET W \subseteq G
  <2>1. IsFiniteSet(W)
    BY FS_Subset
  <2> HIDE DEF G
  <2> QED
    BY <2>1, <1>1, <1>2, SubsetSteps
<1> QED
  BY <1>3

\* Sums of equal terms are equal.
LEMMA TotalAgrees ==
  ASSUME NEW T, IsFiniteSet(T), NEW a \in [T -> Nat],
         NEW U, IsFiniteSet(U), NEW b \in [U -> Nat],
         NEW W \in SUBSET (T \cap U), \A x \in W : a[x] = b[x]
  PROVE  Total(a, W) = Total(b, W)
<1>1. W \in SUBSET T /\ W \in SUBSET U /\ W \in SUBSET (U \cap T)
  OBVIOUS
<1>2. \A x \in W : a[x] <= b[x] /\ b[x] <= a[x]
  OBVIOUS
<1>3. Total(a, W) <= Total(b, W)
  BY <1>2, TotalAtMost
<1>4. Total(b, W) <= Total(a, W)
  BY <1>1, <1>2, TotalAtMost
<1>5. Total(a, W) \in Nat /\ Total(b, W) \in Nat
  BY <1>1, TotalNat
<1> QED
  BY <1>3, <1>4, <1>5

\* A term may be taken out of a sum, whichever it is.
LEMMA TotalRemove ==
  ASSUME NEW T, IsFiniteSet(T), NEW a \in [T -> Nat],
         NEW u \in SUBSET T, NEW y \in u
  PROVE  Total(a, u) = a[y] + Total(a, u \ {y})
<1> DEFINE G == {s \in SUBSET T : \A x \in s : Total(a, s) = a[x] + Total(a, s \ {x})}
<1>1. {} \in G
  OBVIOUS
<1>2. ASSUME NEW s \in SUBSET T, s # {}, \A x \in s : s \ {x} \in G PROVE s \in G
  <2> SUFFICES ASSUME NEW x \in s PROVE Total(a, s) = a[x] + Total(a, s \ {x})
    OBVIOUS
  <2>1. Pick(s) \in s /\ Total(a, s) = a[Pick(s)] + Total(a, s \ {Pick(s)})
    <3> HIDE DEF G
    <3> QED
      BY <1>2, TotalStep
  <2>2. PICK p \in s : Total(a, s) = a[p] + Total(a, s \ {p})
    BY <2>1
  <2>3. CASE x = p
    BY <2>2, <2>3
  <2>4. CASE x # p
    <3>1. Total(a, s \ {p}) = a[x] + Total(a, (s \ {p}) \ {x})
      BY <1>2, <2>4
    <3>2. Total(a, s \ {x}) = a[p] + Total(a, (s \ {x}) \ {p})
      BY <1>2, <2>4
    <3>3. (s \ {p}) \ {x} = (s \ {x}) \ {p}
      OBVIOUS
    <3>4. a[x] \in Nat /\ a[p] \in Nat
      OBVIOUS
    <3>5. Total(a, (s \ {p}) \ {x}) \in Nat
      <4>1. (s \ {p}) \ {x} \in SUBSET T
        OBVIOUS
      <4> QED
        BY <4>1, TotalNat
    <3>6. Total(a, s \ {x}) = a[p] + Total(a, (s \ {p}) \ {x})
      BY <3>2, <3>3
    <3>7. Total(a, s) = a[p] + (a[x] + Total(a, (s \ {p}) \ {x}))
      BY <2>2, <3>1
    <3> HIDE DEF G
    <3> QED
      BY <3>4, <3>5, <3>6, <3>7
  <2> QED
    BY <2>3, <2>4
<1>3. SUBSET T \subseteq G
  <2> HIDE DEF G
  <2> QED
    BY <1>1, <1>2, SubsetSteps
<1> QED
  BY <1>3

\* A sum over more elements is not smaller.
LEMMA TotalGrows ==
  ASSUME NEW T, IsFiniteSet(T), NEW a \in [T -> Nat],
         NEW u \in SUBSET T, NEW w \in SUBSET u
  PROVE  Total(a, w) <= Total(a, u)
<1> DEFINE G == {s \in SUBSET u : w \subseteq s => Total(a, w) <= Total(a, s)}
<1>0. Total(a, w) \in Nat
  <2>1. w \in SUBSET T
    OBVIOUS
  <2> QED
    BY <2>1, TotalNat
<1>1. {} \in G
  <2>1. ASSUME w \subseteq {} PROVE w = {}
    BY <2>1
  <2> QED
    BY <1>0, <2>1
<1>2. ASSUME NEW s \in SUBSET u, s # {}, \A x \in s : s \ {x} \in G PROVE s \in G
  <2> SUFFICES ASSUME w \subseteq s PROVE Total(a, w) <= Total(a, s)
    OBVIOUS
  <2>1. CASE s = w
    BY <1>0, <2>1
  <2>2. CASE s # w
    <3>1. PICK x \in s : x \notin w
      BY <2>2
    <3>2. Total(a, w) <= Total(a, s \ {x})
      BY <1>2, <3>1
    <3>3. s \in SUBSET T
      OBVIOUS
    <3>4. Total(a, s) = a[x] + Total(a, s \ {x}) /\ a[x] \in Nat
      BY <3>3, TotalRemove
    <3>5. Total(a, s \ {x}) \in Nat
      <4>1. s \ {x} \in SUBSET T
        OBVIOUS
      <4> QED
        BY <4>1, TotalNat
    <3> QED
      BY <1>0, <3>2, <3>4, <3>5
  <2> QED
    BY <2>1, <2>2
<1>3. SUBSET u \subseteq G
  <2>1. IsFiniteSet(u)
    BY FS_Subset
  <2> HIDE DEF G
  <2> QED
    BY <2>1, <1>1, <1>2, SubsetSteps
<1>4. u \in G
  BY <1>3
<1> QED
  BY <1>4

------------------------------------------------------------------------------
(* Orders.                                                                   *)

\* A strict total order of D.
Orders(R, D) ==
    /\ \A d \in D : <<d, d>> \notin R
    /\ \A d, e \in D : d # e => <<d, e>> \in R \/ <<e, d>> \in R
    /\ \A d, e, f \in D : <<d, e>> \in R /\ <<e, f>> \in R => <<d, f>> \in R

\* The elements of D before d.
Earlier(R, D, d) == {e \in D : <<e, d>> \in R}

\* Counting those before it numbers the elements of an ordered set.
LEMMA Places ==
  ASSUME NEW D, IsFiniteSet(D), NEW R, Orders(R, D), NEW place,
         \A d \in D : place[d] = 1 + Cardinality(Earlier(R, D, d))
  PROVE  /\ Cardinality(D) \in Nat
         /\ \A d \in D : place[d] \in 1..Cardinality(D)
         /\ \A d, e \in D : <<d, e>> \in R => place[d] < place[e]
         /\ \A d, e \in D : place[d] < place[e] => <<d, e>> \in R
         /\ \A d, e \in D : place[d] = place[e] => d = e
         /\ \A k \in 1..Cardinality(D) : \E d \in D : place[d] = k
<1> DEFINE before(d) == {e \in D : <<e, d>> \in R}
<1>1. /\ Cardinality(D) \in Nat
      /\ \A d \in D : IsFiniteSet(before(d)) /\ Cardinality(before(d)) \in Nat
  BY FS_CardinalityType, FS_Subset
<1>2. \A d \in D : place[d] \in 1..Cardinality(D)
  <2> SUFFICES ASSUME NEW d \in D PROVE place[d] \in 1..Cardinality(D)
    OBVIOUS
  <2>1. before(d) \in SUBSET (D \ {d})
    BY DEF Orders
  <2>2. IsFiniteSet(D \ {d}) /\ Cardinality(D \ {d}) = Cardinality(D) - 1
    BY FS_RemoveElement
  <2>3. Cardinality(before(d)) <= Cardinality(D) - 1
    <3> HIDE DEF before
    <3> QED
      BY <2>1, <2>2, FS_Subset
  <2>4. place[d] = 1 + Cardinality(before(d))
    BY DEF Earlier
  <2> HIDE DEF before
  <2> QED
    BY <1>1, <2>3, <2>4
<1>3. ASSUME NEW d \in D, NEW e \in D, <<d, e>> \in R PROVE place[d] < place[e]
  <2>1. before(d) \in SUBSET before(e)
    BY <1>3 DEF Orders
  <2>2. d \in before(e) /\ d \notin before(d)
    BY <1>3 DEF Orders
  <2>3. Cardinality(before(d)) <= Cardinality(before(e))
        /\ Cardinality(before(d)) # Cardinality(before(e))
    <3>1. before(d) # before(e)
      BY <2>2
    <3> HIDE DEF before
    <3> QED
      BY <1>1, <2>1, <3>1, FS_Subset
  <2>4. place[d] = 1 + Cardinality(before(d)) /\ place[e] = 1 + Cardinality(before(e))
    BY DEF Earlier
  <2> HIDE DEF before
  <2> QED
    BY <1>1, <2>3, <2>4
<1>4. \A d, e \in D : place[d] \in Nat /\ place[e] \in Nat
  BY <1>2, <1>1
<1>5. ASSUME NEW d \in D, NEW e \in D, place[d] < place[e] PROVE <<d, e>> \in R
  <2>1. d # e /\ <<e, d>> \notin R
    BY <1>3, <1>4, <1>5
  <2> QED
    BY <2>1 DEF Orders
<1>6. ASSUME NEW d \in D, NEW e \in D, place[d] = place[e] PROVE d = e
  <2>1. <<d, e>> \notin R /\ <<e, d>> \notin R
    BY <1>3, <1>4, <1>6
  <2> QED
    BY <2>1 DEF Orders
<1>7. \A k \in 1..Cardinality(D) : \E d \in D : place[d] = k
  <2> DEFINE f == [d \in D |-> place[d]]
  <2>1. f \in Injection(D, 1..Cardinality(D))
    BY <1>2, <1>6 DEF Injection, IsInjective
  <2>2. IsFiniteSet(1..Cardinality(D)) /\ Cardinality(1..Cardinality(D)) = Cardinality(D)
    BY <1>1, FS_Interval
  <2>3. f \in Surjection(D, 1..Cardinality(D))
    <3> HIDE DEF f
    <3> QED
      BY <2>1, <2>2, FS_Injection
  <2> QED
    BY <2>3 DEF Surjection
<1> QED
  BY <1>1, <1>2, <1>3, <1>5, <1>6, <1>7

\* Counting the positions up to each numbers them.
LEMMA PositionsInOrder ==
  ASSUME NEW S, NEW docs \in Seq(S), NEW P \in SUBSET (DOMAIN docs)
  PROVE  /\ Cardinality(P) \in Nat /\ Cardinality(P) <= Len(docs)
         /\ AtPositions(docs, P) \in Seq(S)
         /\ Len(AtPositions(docs, P)) = Cardinality(P)
         /\ \E at \in [1..Cardinality(P) -> P] :
              /\ \A n \in 1..Cardinality(P) : AtPositions(docs, P)[n] = docs[at[n]]
              /\ \A m, n \in 1..Cardinality(P) : m < n => at[m] < at[n]
              /\ \A k \in P : \E n \in 1..Cardinality(P) : at[n] = k
<1> DEFINE R == {p \in P \X P : p[1] < p[2]}
           N == Cardinality(P)
           place == [k \in P |-> Cardinality({j \in P : j <= k})]
           at == [n \in 1..N |-> CHOOSE k \in P : place[k] = n]
<1>1. /\ P \subseteq 1..Len(docs) /\ Len(docs) \in Nat
      /\ IsFiniteSet(P) /\ N \in Nat /\ N <= Len(docs)
  <2>1. P \in SUBSET (1..Len(docs)) /\ Len(docs) \in Nat
    OBVIOUS
  <2>2. \A n \in Nat : IsFiniteSet(1..n) /\ Cardinality(1..n) = n
    BY FS_Interval
  <2>3. IsFiniteSet(1..Len(docs)) /\ Cardinality(1..Len(docs)) = Len(docs)
    BY <2>1, <2>2
  <2> HIDE DEF place, at, R
  <2> QED
    BY <2>1, <2>3, FS_Subset, FS_CardinalityType
<1>2. Orders(R, P)
  BY <1>1 DEF Orders
<1>3. \A k \in P : place[k] = 1 + Cardinality(Earlier(R, P, k))
  <2> SUFFICES ASSUME NEW k \in P
               PROVE  place[k] = 1 + Cardinality(Earlier(R, P, k))
    OBVIOUS
  <2> DEFINE A == {e \in P : <<e, k>> \in R}
  <2>1. {j \in P : j <= k} = A \cup {k}
    BY <1>1
  <2>2. k \notin A /\ A \in SUBSET P
    BY <1>1
  <2>3. place[k] = Cardinality(A \cup {k})
    BY <2>1
  <2> HIDE DEF A, place
  <2>4. IsFiniteSet(A) /\ Cardinality(A) \in Nat
    BY <1>1, <2>2, FS_Subset, FS_CardinalityType
  <2>5. Cardinality(A \cup {k}) = Cardinality(A) + 1
    BY <2>2, <2>4, FS_AddElement
  <2>6. place[k] = 1 + Cardinality(A)
    BY <2>3, <2>4, <2>5
  <2> QED
    BY <2>6 DEF A, Earlier
<1>4. /\ \A k \in P : place[k] \in 1..N
      /\ \A k, l \in P : k < l => place[k] < place[l]
      /\ \A k, l \in P : place[k] < place[l] => k < l
      /\ \A k, l \in P : place[k] = place[l] => k = l
      /\ \A n \in 1..N : \E k \in P : place[k] = n
  <2>1. \A k, l \in P : k < l <=> <<k, l>> \in R
    OBVIOUS
  <2> HIDE DEF R, place
  <2>2. /\ \A k \in P : place[k] \in 1..Cardinality(P)
        /\ \A k, l \in P : <<k, l>> \in R => place[k] < place[l]
        /\ \A k, l \in P : place[k] < place[l] => <<k, l>> \in R
        /\ \A k, l \in P : place[k] = place[l] => k = l
        /\ \A n \in 1..Cardinality(P) : \E k \in P : place[k] = n
    BY <1>1, <1>2, <1>3, Places
  <2> QED
    BY <2>1, <2>2
<1>5. {place[k] : k \in P} = 1..N
  <2> HIDE DEF place, N
  <2> QED
    BY <1>4
<1>6. \A n \in 1..N : at[n] \in P /\ place[at[n]] = n
  <2> SUFFICES ASSUME NEW n \in 1..N PROVE at[n] \in P /\ place[at[n]] = n
    OBVIOUS
  <2>1. \E k \in P : place[k] = n
    BY <1>4
  <2>2. at[n] = CHOOSE k \in P : place[k] = n
    OBVIOUS
  <2> HIDE DEF at, place
  <2> QED
    BY <2>1, <2>2
<1>7. AtPositions(docs, P) = [n \in 1..N |-> docs[at[n]]]
  <2>1. AtPositions(docs, P)
        = [n \in {place[k] : k \in P} |-> docs[CHOOSE k \in P : place[k] = n]]
    BY DEF AtPositions
  <2> HIDE DEF place
  <2> QED
    BY <2>1, <1>5
<1> HIDE DEF at, place, R
<1>8. \A m, n \in 1..N : m < n => at[m] < at[n]
  BY <1>4, <1>6
<1>9. \A k \in P : \E n \in 1..N : at[n] = k
  BY <1>4, <1>6
<1>10. at \in [1..N -> P]
  BY <1>6 DEF at
<1>11. [n \in 1..N |-> docs[at[n]]] \in Seq(S) /\ Len([n \in 1..N |-> docs[at[n]]]) = N
  BY <1>1, <1>6
<1> QED
  BY <1>1, <1>7, <1>8, <1>9, <1>10, <1>11

------------------------------------------------------------------------------
(* Rankings (hybrid.go).                                                     *)

\* The documents of some rankings.
Documents(lists) == UNION {Members(lists[n]) : n \in DOMAIN lists}

\* No two documents have the same id.
Identified(docs) ==
    \A d, e \in docs : d.serial = e.serial /\ d.index = e.index => d = e

\* Rankings of such rows.
Fusable(lists, S) ==
    /\ lists \in Seq(Seq(S))
    /\ \A d \in S : d.serial \in Nat /\ d.index \in Nat
    /\ Identified(Documents(lists))

\* A set numbered from 1 is finite.
LEMMA NumberedFinite ==
  ASSUME NEW r, NEW n \in Nat, DOMAIN r = 1..n
  PROVE  IsFiniteSet({r[i] : i \in 1..n})
<1> DEFINE T == {r[i] : i \in 1..n}
           f == [i \in 1..n |-> r[i]]
<1>1. f \in Surjection(1..n, T)
  BY DEF Surjection
<1>2. IsFiniteSet(1..n)
  BY FS_Interval
<1> HIDE DEF f
<1> QED
  BY <1>1, <1>2, FS_Surjection

\* So are the documents of a ranking.
LEMMA MembersFinite ==
  ASSUME NEW S, NEW ranking \in Seq(S)
  PROVE  IsFiniteSet(Members(ranking)) /\ Members(ranking) \subseteq S
<1>1. PICK n \in Nat : n = Len(ranking) /\ DOMAIN ranking = 1..n
  OBVIOUS
<1>2. Members(ranking) = {ranking[i] : i \in 1..n}
  BY <1>1 DEF Members
<1>3. IsFiniteSet(Members(ranking))
  BY <1>1, <1>2, NumberedFinite
<1>4. Members(ranking) \subseteq S
  BY <1>1, <1>2
<1> QED
  BY <1>3, <1>4

\* So are those of some rankings.
LEMMA DocumentsFinite ==
  ASSUME NEW S, NEW lists \in Seq(Seq(S))
  PROVE  IsFiniteSet(Documents(lists)) /\ Documents(lists) \subseteq S
<1> DEFINE M == [n \in DOMAIN lists |-> Members(lists[n])]
<1>1. PICK k \in Nat : k = Len(lists) /\ DOMAIN lists = 1..k
  OBVIOUS
<1>2. \A n \in DOMAIN lists : IsFiniteSet(M[n]) /\ M[n] \subseteq S
  BY MembersFinite
<1>3. Documents(lists) = UNION {M[n] : n \in 1..k}
  BY <1>1 DEF Documents
<1>4. DOMAIN M = 1..k
  BY <1>1
<1> HIDE DEF M
<1>5. IsFiniteSet({M[n] : n \in 1..k})
  BY <1>4, NumberedFinite
<1>6. IsFiniteSet(UNION {M[n] : n \in 1..k})
  <2>1. \A T \in {M[n] : n \in 1..k} : IsFiniteSet(T)
    BY <1>1, <1>2
  <2> QED
    BY <1>5, <2>1, FS_UNION
<1> QED
  BY <1>1, <1>2, <1>3, <1>6

\* RankIn finds the document.
LEMMA RankOf ==
  ASSUME NEW S, NEW ranking \in Seq(S), NEW d \in Members(ranking)
  PROVE  /\ RankIn(d, ranking) \in Nat \ {0}
         /\ RankIn(d, ranking) <= Len(ranking)
         /\ ranking[RankIn(d, ranking)] = d
<1>1. \E i \in DOMAIN ranking : ranking[i] = d
  BY DEF Members
<1>2. RankIn(d, ranking) \in DOMAIN ranking /\ ranking[RankIn(d, ranking)] = d
  BY <1>1 DEF RankIn
<1> QED
  BY <1>2

\* The rankings that hold a document give it a rank.
LEMMA RankedIn ==
  ASSUME NEW S, NEW lists \in Seq(Seq(S)), NEW d, NEW n \in Ranked(d, lists)
  PROVE  /\ n \in DOMAIN lists /\ d \in Members(lists[n])
         /\ RankIn(d, lists[n]) \in Nat \ {0}
<1>1. n \in DOMAIN lists /\ d \in Members(lists[n]) /\ lists[n] \in Seq(S)
  BY DEF Ranked
<1> QED
  BY <1>1, RankOf

\* They are finitely many, and some for each of the documents.
LEMMA RankedFinite ==
  ASSUME NEW S, NEW lists \in Seq(Seq(S)), NEW d
  PROVE  /\ IsFiniteSet(Ranked(d, lists))
         /\ d \in Documents(lists) => Ranked(d, lists) # {}
<1>1. PICK k \in Nat : DOMAIN lists = 1..k
  OBVIOUS
<1>2. IsFiniteSet(1..k) /\ Ranked(d, lists) \in SUBSET (1..k)
  BY <1>1, FS_Interval DEF Ranked
<1>3. IsFiniteSet(Ranked(d, lists))
  BY <1>2, FS_Subset
<1>4. d \in Documents(lists) => Ranked(d, lists) # {}
  BY DEF Documents, Ranked
<1> QED
  BY <1>3, <1>4

\* The common multiple is a natural number.
LEMMA ScaleNat ==
  ASSUME NEW S, NEW lists \in Seq(Seq(S))
  PROVE  Scale(lists) \in Nat
<1> DEFINE T == {rrfK + rank : rank \in UNION {DOMAIN lists[n] : n \in DOMAIN lists}}
           Solution(it) ==
             it = [s \in SUBSET T |->
                     IF s = {} THEN 1
                     ELSE (CHOOSE x \in s : TRUE) * it[s \ {CHOOSE x \in s : TRUE}]]
           step == [p \in T \X Nat |-> p[1] * p[2]]
<1>1. Scale(lists) = (CHOOSE it : Solution(it))[T]
  BY DEF Scale, ProductSet, FoldSet, MapThenFoldSet
<1>2. T \subseteq Nat
  BY DEF rrfK
<1>3. IsFiniteSet(T)
  <2> DEFINE D == [n \in DOMAIN lists |-> DOMAIN lists[n]]
             E == UNION {D[n] : n \in DOMAIN lists}
             f == [rank \in E |-> rrfK + rank]
  <2>1. PICK k \in Nat : DOMAIN lists = 1..k
    OBVIOUS
  <2>2. \A n \in DOMAIN lists : IsFiniteSet(D[n])
    <3> SUFFICES ASSUME NEW n \in DOMAIN lists PROVE IsFiniteSet(D[n])
      OBVIOUS
    <3>1. PICK l \in Nat : D[n] = 1..l
      <4>1. lists[n] \in Seq(S)
        OBVIOUS
      <4>2. DOMAIN lists[n] = 1..Len(lists[n]) /\ Len(lists[n]) \in Nat
        BY <4>1
      <4> QED
        BY <4>2
    <3> QED
      BY <3>1, FS_Interval
  <2>3. DOMAIN D = 1..k
    BY <2>1
  <2>4. IsFiniteSet(E)
    <3> HIDE DEF D
    <3>1. IsFiniteSet({D[n] : n \in 1..k})
      BY <2>3, NumberedFinite
    <3>2. \A X \in {D[n] : n \in 1..k} : IsFiniteSet(X)
      BY <2>1, <2>2
    <3> QED
      BY <2>1, <3>1, <3>2, FS_UNION
  <2>5. f \in Surjection(E, T)
    BY DEF Surjection
  <2> HIDE DEF f, E, T
  <2> QED
    BY <2>4, <2>5, FS_Surjection
<1>4. \E it : Solution(it)
  <2>1. step \in [T \X Nat -> Nat]
    <3> HIDE DEF T
    <3>1. \A i, j \in Nat : i * j \in Nat
      OBVIOUS
    <3>2. \A p \in T \X Nat : p[1] * p[2] \in Nat
      BY <1>2, <3>1
    <3> QED
      BY <3>2
  <2> HIDE DEF T, step
  <2>2. PICK it \in [SUBSET T -> Nat] : Fold(it, T, 1, step)
    BY <1>3, <2>1, FoldExists
  <2>3. ASSUME NEW s \in SUBSET T, s # {}
        PROVE  step[<<Pick(s), it[s \ {Pick(s)}]>>] = Pick(s) * it[s \ {Pick(s)}]
    <3>1. Pick(s) \in T /\ it[s \ {Pick(s)}] \in Nat
      BY <2>2, <2>3, Picked
    <3> QED
      BY <3>1 DEF step
  <2>4. it = [s \in SUBSET T |->
                IF s = {} THEN 1 ELSE Pick(s) * it[s \ {Pick(s)}]]
    BY <2>2, <2>3 DEF Fold
  <2> QED
    BY <2>4 DEF Pick
<1>5. PICK it : it = (CHOOSE jt : Solution(jt)) /\ Solution(it)
  <2> HIDE DEF Solution
  <2> QED
    BY <1>4
<1>6. it = [s \in SUBSET T |-> IF s = {} THEN 1 ELSE Pick(s) * it[s \ {Pick(s)}]]
  BY <1>5 DEF Pick
<1> HIDE DEF Solution, T
<1> DEFINE G == {s \in SUBSET T : it[s] \in Nat}
<1>7. {} \in G
  BY <1>6
<1>8. ASSUME NEW s \in SUBSET T, s # {}, \A x \in s : s \ {x} \in G PROVE s \in G
  <2>1. Pick(s) \in s /\ it[s] = Pick(s) * it[s \ {Pick(s)}]
    BY <1>6, <1>8, Picked
  <2>2. Pick(s) \in Nat /\ it[s \ {Pick(s)}] \in Nat
    BY <1>2, <1>8, <2>1
  <2> QED
    BY <2>1, <2>2
<1>9. SUBSET T \subseteq G
  <2> HIDE DEF G
  <2> QED
    BY <1>3, <1>7, <1>8, SubsetSteps
<1> QED
  BY <1>1, <1>5, <1>9

\* A share is larger the better the rank is.
LEMMA ShareFalls ==
  ASSUME NEW scale \in Nat, NEW a \in Nat, NEW b \in Nat, a <= b
  PROVE  /\ scale \div (rrfK + a) \in Nat
         /\ scale \div (rrfK + b) <= scale \div (rrfK + a)
<1>1. PICK x \in Nat : x = 60 + a
  OBVIOUS
<1>2. PICK y \in Nat : y = 60 + b
  OBVIOUS
<1>3. 0 < x /\ x <= y
  BY <1>1, <1>2
<1>4. PICK q \in Nat : q = scale \div x
  BY <1>3
<1>5. PICK r \in Nat : r = scale \div y
  BY <1>3
<1>6. r * y <= scale /\ scale < (q + 1) * x
  BY <1>3, <1>4, <1>5
<1>7. r * x <= r * y
  BY <1>3
<1>8. r * x < (q + 1) * x
  BY <1>6, <1>7
<1>9. r <= q
  BY <1>3, <1>8
<1> QED
  BY <1>1, <1>2, <1>4, <1>5, <1>9 DEF rrfK

\* What each ranking adds to a document's score.
Shares(d, lists) ==
    [n \in Ranked(d, lists) |-> Scale(lists) \div (rrfK + RankIn(d, lists[n]))]

\* The score is the sum of the shares.
LEMMA ScoreIsTotal ==
  ASSUME NEW S, NEW lists \in Seq(Seq(S)), NEW d
  PROVE  /\ Shares(d, lists) \in [Ranked(d, lists) -> Nat]
         /\ Score(d, lists) = Total(Shares(d, lists), Ranked(d, lists))
         /\ Score(d, lists) \in Nat
<1> DEFINE R == Ranked(d, lists)
           a == Shares(d, lists)
           Solution(it) ==
             it = [s \in SUBSET R |->
                     IF s = {} THEN 0
                     ELSE (Scale(lists)
                             \div (rrfK + RankIn(d, lists[CHOOSE x \in s : TRUE])))
                          + it[s \ {CHOOSE x \in s : TRUE}]]
<1>1. Score(d, lists) = (CHOOSE it : Solution(it))[R]
  BY DEF Score, MapThenSumSet, MapThenFoldSet
<1>2. a \in [R -> Nat]
  <2>1. \A n \in R : RankIn(d, lists[n]) \in Nat
    BY RankedIn
  <2>2. \A n \in R : Scale(lists) \div (rrfK + RankIn(d, lists[n])) \in Nat
    BY <2>1, ScaleNat, ShareFalls
  <2> HIDE DEF R
  <2> QED
    BY <2>2 DEF Shares, R
<1>3. ASSUME NEW it PROVE Solution(it) <=> Sums(it, R, a)
  <2>1. \A s \in SUBSET R : s # {} =>
          a[Pick(s)] = Scale(lists) \div (rrfK + RankIn(d, lists[Pick(s)]))
    BY Picked DEF Shares
  <2>2. Solution(it) <=>
          it = [s \in SUBSET R |->
                  IF s = {} THEN 0
                  ELSE (Scale(lists) \div (rrfK + RankIn(d, lists[Pick(s)])))
                       + it[s \ {Pick(s)}]]
    BY DEF Pick
  <2> HIDE DEF Solution, a, R
  <2> QED
    BY <2>1, <2>2 DEF Sums
<1> HIDE DEF Solution, a, R
<1>4. IsFiniteSet(R)
  BY RankedFinite DEF R
<1>5. \E it : Solution(it)
  <2>1. \E it : Sums(it, R, a)
    BY <1>2, <1>4, SumsExist
  <2> QED
    BY <1>3, <2>1
<1>6. Solution(CHOOSE it : Solution(it))
  BY <1>5
<1>7. Score(d, lists) = Total(a, R)
  BY <1>1, <1>2, <1>3, <1>4, <1>6, TotalIs
<1>8. Total(a, R) \in Nat
  BY <1>2, <1>4, TotalNat
<1> QED
  BY <1>2, <1>7, <1>8 DEF R, a

\* The best rank is one of the ranks, and none is better.
LEMMA BestRankIs ==
  ASSUME NEW S, NEW lists \in Seq(Seq(S)), NEW d \in Documents(lists)
  PROVE  /\ BestRank(d, lists) \in Nat
         /\ \E n \in Ranked(d, lists) : BestRank(d, lists) = RankIn(d, lists[n])
         /\ \A n \in Ranked(d, lists) : BestRank(d, lists) <= RankIn(d, lists[n])
<1> DEFINE Q == {RankIn(d, lists[n]) : n \in Ranked(d, lists)}
<1>1. Q \in SUBSET Nat /\ Q # {}
  BY RankedIn, RankedFinite
<1>2. BestRank(d, lists) = CHOOSE x \in Q : \A y \in Q : x <= y
  BY DEF BestRank, Min
<1>3. \E x \in Q : \A y \in Q : x <= y
  <2> HIDE DEF Q
  <2> QED
    BY <1>1, LeastOf
<1>4. BestRank(d, lists) \in Q /\ \A y \in Q : BestRank(d, lists) <= y
  <2> HIDE DEF Q
  <2> QED
    BY <1>2, <1>3
<1> QED
  BY <1>1, <1>4

\* A consensus decides: when every ranking that holds e holds d above it, d is
\* before e.
LEMMA ConsensusBefore ==
  ASSUME NEW S, NEW lists \in Seq(Seq(S)),
         NEW d \in Documents(lists), NEW e \in Documents(lists),
         \A n \in Ranked(e, lists) :
           d \in Members(lists[n]) /\ RankIn(d, lists[n]) < RankIn(e, lists[n])
  PROVE  Before(d, e, lists)
<1> DEFINE D == Ranked(d, lists)
           E == Ranked(e, lists)
           a == Shares(d, lists)
           b == Shares(e, lists)
<1>1. E \in SUBSET D /\ IsFiniteSet(D) /\ IsFiniteSet(E)
  BY RankedFinite DEF Ranked
<1>2. a \in [D -> Nat] /\ b \in [E -> Nat]
  BY ScoreIsTotal
<1>3. \A n \in E : b[n] <= a[n]
  <2> SUFFICES ASSUME NEW n \in E PROVE b[n] <= a[n]
    OBVIOUS
  <2>1. /\ RankIn(d, lists[n]) \in Nat /\ RankIn(e, lists[n]) \in Nat
        /\ RankIn(d, lists[n]) <= RankIn(e, lists[n])
    BY <1>1, RankedIn
  <2>2. Scale(lists) \div (rrfK + RankIn(e, lists[n]))
        <= Scale(lists) \div (rrfK + RankIn(d, lists[n]))
    BY <2>1, ScaleNat, ShareFalls
  <2>3. n \in D
    BY <1>1
  <2> QED
    BY <2>2, <2>3 DEF Shares
<1> HIDE DEF D, E, a, b
<1>4. Total(b, E) <= Total(a, E)
  <2>1. E \in SUBSET (E \cap D)
    BY <1>1
  <2> QED
    BY <1>1, <1>2, <1>3, <2>1, TotalAtMost
<1>5. Total(a, E) <= Total(a, D)
  BY <1>1, <1>2, TotalGrows
<1>6. Total(a, E) \in Nat
  BY <1>1, <1>2, TotalNat
<1>7. /\ Score(d, lists) = Total(a, D) /\ Score(d, lists) \in Nat
      /\ Score(e, lists) = Total(b, E) /\ Score(e, lists) \in Nat
  BY ScoreIsTotal DEF a, b, D, E
<1>8. Score(d, lists) >= Score(e, lists)
  BY <1>4, <1>5, <1>6, <1>7
<1>9. BestRank(d, lists) < BestRank(e, lists)
  <2>1. PICK n \in Ranked(e, lists) : BestRank(e, lists) = RankIn(e, lists[n])
    BY BestRankIs
  <2>2. n \in Ranked(d, lists)
    BY <1>1, <2>1 DEF D, E
  <2>3. /\ RankIn(d, lists[n]) \in Nat /\ RankIn(e, lists[n]) \in Nat
        /\ RankIn(d, lists[n]) < RankIn(e, lists[n])
    BY <2>2, RankedIn
  <2>4. BestRank(d, lists) \in Nat /\ BestRank(d, lists) <= RankIn(d, lists[n])
    BY <2>2, BestRankIs
  <2> QED
    BY <2>1, <2>3, <2>4
<1> QED
  BY <1>7, <1>8, <1>9 DEF Before

\* The order of sort.Slice as a set of pairs.
AheadOf(lists) ==
    {p \in Documents(lists) \X Documents(lists) : Before(p[1], p[2], lists)}

\* Score, best rank and id order the documents totally.
LEMMA BeforeOrders ==
  ASSUME NEW S, NEW lists, Fusable(lists, S)
  PROVE  Orders(AheadOf(lists), Documents(lists))
<1> DEFINE docs == Documents(lists)
<1>1. \A d \in docs :
        /\ Score(d, lists) \in Nat /\ BestRank(d, lists) \in Nat
        /\ d.serial \in Nat /\ d.index \in Nat
  BY ScoreIsTotal, BestRankIs, DocumentsFinite DEF Fusable
<1>2. \A d, e \in docs : <<d, e>> \in AheadOf(lists) <=> Before(d, e, lists)
  BY DEF AheadOf
<1> HIDE DEF docs
<1>3. \A d \in docs : ~Before(d, d, lists)
  BY <1>1 DEF Before, IdLess
<1>4. ASSUME NEW d \in docs, NEW e \in docs, d # e
      PROVE  Before(d, e, lists) \/ Before(e, d, lists)
  <2>1. d.serial # e.serial \/ d.index # e.index
    BY <1>4 DEF Fusable, Identified, docs
  <2>2. IdLess(d, e) \/ IdLess(e, d)
    BY <1>1, <2>1 DEF IdLess
  <2> QED
    BY <1>1, <2>2 DEF Before
<1>5. ASSUME NEW d \in docs, NEW e \in docs, NEW f \in docs,
             Before(d, e, lists), Before(e, f, lists)
      PROVE  Before(d, f, lists)
  <2>1. IdLess(d, e) /\ IdLess(e, f) => IdLess(d, f)
    BY <1>1 DEF IdLess
  <2> QED
    BY <1>1, <1>5, <2>1 DEF Before
<1> QED
  BY <1>2, <1>3, <1>4, <1>5 DEF Orders, docs

\* all ranks the n documents, and every fusion of the rankings is a first part
\* of it.
FusesFrom(all, n, lists) ==
    /\ \A i, j \in 1..n : all[i] = all[j] => i = j
    /\ \A d \in Documents(lists) : \E i \in 1..n : all[i] = d
    /\ \A i, j \in 1..n : Before(all[i], all[j], lists) => i < j
    /\ \A topK \in Nat :
         FuseRankings(lists, topK)
         = [k \in 1..(IF topK < n THEN topK ELSE n) |-> all[k]]

\* There is such a ranking.
LEMMA FusedFirst ==
  ASSUME NEW S, NEW lists, Fusable(lists, S)
  PROVE  \E n \in Nat : \E all \in [1..n -> Documents(lists)] :
           FusesFrom(all, n, lists)
<1> DEFINE docs == Documents(lists)
           n == Cardinality(docs)
           place == [d \in docs |-> 1 + Cardinality({e \in docs : Before(e, d, lists)})]
           all == [k \in 1..n |-> CHOOSE d \in docs : place[d] = k]
<1>1. IsFiniteSet(docs)
  BY DocumentsFinite DEF Fusable
<1>2. \A d \in docs : place[d] = 1 + Cardinality(Earlier(AheadOf(lists), docs, d))
  <2> SUFFICES ASSUME NEW d \in docs
               PROVE  place[d] = 1 + Cardinality(Earlier(AheadOf(lists), docs, d))
    OBVIOUS
  <2>1. {e \in docs : Before(e, d, lists)} = Earlier(AheadOf(lists), docs, d)
    BY DEF Earlier, AheadOf
  <2> QED
    BY <2>1
<1>3. Orders(AheadOf(lists), docs)
  BY BeforeOrders
<1> HIDE DEF place
<1>4. /\ n \in Nat
      /\ \A d \in docs : place[d] \in 1..n
      /\ \A d, e \in docs : <<d, e>> \in AheadOf(lists) => place[d] < place[e]
      /\ \A d, e \in docs : place[d] = place[e] => d = e
      /\ \A k \in 1..n : \E d \in docs : place[d] = k
  <2> HIDE DEF docs
  <2> QED
    BY <1>1, <1>2, <1>3, Places
<1>5. \A k \in 1..n : all[k] \in docs /\ place[all[k]] = k
  <2> SUFFICES ASSUME NEW k \in 1..n PROVE all[k] \in docs /\ place[all[k]] = k
    OBVIOUS
  <2>1. \E d \in docs : place[d] = k
    BY <1>4
  <2>2. all[k] = CHOOSE d \in docs : place[d] = k
    OBVIOUS
  <2> HIDE DEF all, docs
  <2> QED
    BY <2>1, <2>2
<1>6. ASSUME NEW topK \in Nat
      PROVE  FuseRankings(lists, topK)
             = [k \in 1..(IF topK < n THEN topK ELSE n) |-> all[k]]
  <2>1. FuseRankings(lists, topK)
        = [k \in {place[d] : d \in docs} \cap 1..topK |->
             CHOOSE d \in docs : place[d] = k]
    BY DEF FuseRankings, FusedUpTo, place, Documents
  <2>2. {place[d] : d \in docs} = 1..n
    <3> HIDE DEF docs, n
    <3> QED
      BY <1>4
  <2>3. 1..n \cap 1..topK = 1..(IF topK < n THEN topK ELSE n)
    BY <1>4
  <2>4. FuseRankings(lists, topK)
        = [k \in 1..(IF topK < n THEN topK ELSE n) |->
             CHOOSE d \in docs : place[d] = k]
    BY <2>1, <2>2, <2>3
  <2>5. \A k \in 1..(IF topK < n THEN topK ELSE n) : k \in 1..n
    BY <1>4
  <2> HIDE DEF n, docs
  <2> QED
    BY <2>4, <2>5
<1> HIDE DEF all, docs, n
<1>7. all \in [1..n -> docs]
  BY <1>5 DEF all
<1>8. \A i, j \in 1..n : all[i] = all[j] => i = j
  BY <1>5
<1>9. \A d \in docs : \E i \in 1..n : all[i] = d
  BY <1>4, <1>5
<1>10. \A i, j \in 1..n : Before(all[i], all[j], lists) => i < j
  <2> SUFFICES ASSUME NEW i \in 1..n, NEW j \in 1..n, Before(all[i], all[j], lists)
               PROVE  i < j
    OBVIOUS
  <2>1. <<all[i], all[j]>> \in AheadOf(lists)
    BY <1>5 DEF AheadOf, docs
  <2>2. place[all[i]] < place[all[j]]
    BY <1>4, <1>5, <2>1
  <2> QED
    BY <1>5, <2>2
<1> QED
  BY <1>4, <1>6, <1>7, <1>8, <1>9, <1>10 DEF docs, FusesFrom

\* A fused ranking is a ranking of the documents, no longer than asked.
LEMMA FusedRanking ==
  ASSUME NEW S, NEW lists, Fusable(lists, S), NEW topK \in Nat
  PROVE  /\ FuseRankings(lists, topK) \in Seq(Documents(lists))
         /\ FuseRankings(lists, topK) \in Seq(S)
         /\ Len(FuseRankings(lists, topK)) <= topK
<1>1. PICK n \in Nat : \E all \in [1..n -> Documents(lists)] :
        FusesFrom(all, n, lists)
  BY FusedFirst
<1>2. PICK all \in [1..n -> Documents(lists)] : FusesFrom(all, n, lists)
  BY <1>1
<1>3. PICK m \in Nat : m = (IF topK < n THEN topK ELSE n) /\ m <= n /\ m <= topK
  OBVIOUS
<1>4. FuseRankings(lists, topK) = [k \in 1..m |-> all[k]]
  BY <1>2, <1>3 DEF FusesFrom
<1>5. FuseRankings(lists, topK) \in Seq(Documents(lists))
      /\ Len(FuseRankings(lists, topK)) = m
  BY <1>3, <1>4
<1>6. Documents(lists) \subseteq S
  BY DocumentsFinite DEF Fusable
<1>7. \A k \in 1..m : all[k] \in S
  BY <1>3, <1>6
<1>8. FuseRankings(lists, topK) \in Seq(S)
  BY <1>4, <1>7
<1> QED
  BY <1>3, <1>5, <1>8

\* A document that is before one of the ranking is in it, further up.
LEMMA FusedAbove ==
  ASSUME NEW S, NEW lists, Fusable(lists, S), NEW topK \in Nat,
         NEW k \in DOMAIN FuseRankings(lists, topK), NEW d \in Documents(lists),
         Before(d, FuseRankings(lists, topK)[k], lists)
  PROVE  \E j \in 1..(k - 1) : FuseRankings(lists, topK)[j] = d
<1>1. PICK n \in Nat : \E all \in [1..n -> Documents(lists)] :
        FusesFrom(all, n, lists)
  BY FusedFirst
<1>2. PICK all \in [1..n -> Documents(lists)] : FusesFrom(all, n, lists)
  BY <1>1
<1>3. PICK i \in 1..n : all[i] = d
  BY <1>2 DEF FusesFrom
<1>4. k \in 1..n /\ k <= topK /\ FuseRankings(lists, topK)[k] = all[k]
  BY <1>2 DEF FusesFrom
<1>5. i < k
  BY <1>2, <1>3, <1>4 DEF FusesFrom
<1>6. i \in 1..(IF topK < n THEN topK ELSE n)
  BY <1>4, <1>5
<1>7. FuseRankings(lists, topK)[i] = d
  BY <1>2, <1>3, <1>6 DEF FusesFrom
<1> QED
  BY <1>4, <1>5, <1>7

\* The best document does not depend on the cut.
LEMMA FusedTop ==
  ASSUME NEW S, NEW lists, Fusable(lists, S), NEW topK \in Nat, topK # 0,
         Documents(lists) # {}
  PROVE  /\ FuseRankings(lists, topK) # <<>> /\ FuseRankings(lists, 1) # <<>>
         /\ FuseRankings(lists, topK)[1] = FuseRankings(lists, 1)[1]
<1>1. PICK n \in Nat : \E all \in [1..n -> Documents(lists)] :
        FusesFrom(all, n, lists)
  BY FusedFirst
<1>2. PICK all \in [1..n -> Documents(lists)] : FusesFrom(all, n, lists)
  BY <1>1
<1>3. n # 0
  BY <1>2 DEF FusesFrom
<1>4. FuseRankings(lists, topK) = [k \in 1..(IF topK < n THEN topK ELSE n) |-> all[k]]
  BY <1>2 DEF FusesFrom
<1>5. FuseRankings(lists, 1) = [k \in 1..(IF 1 < n THEN 1 ELSE n) |-> all[k]]
  BY <1>2 DEF FusesFrom
<1>6. 1 \in 1..(IF topK < n THEN topK ELSE n) /\ 1 \in 1..(IF 1 < n THEN 1 ELSE n)
  BY <1>3
<1>7. /\ DOMAIN FuseRankings(lists, topK) # {} /\ DOMAIN FuseRankings(lists, 1) # {}
      /\ FuseRankings(lists, topK)[1] = all[1] /\ FuseRankings(lists, 1)[1] = all[1]
  BY <1>4, <1>5, <1>6
<1> QED
  BY <1>7

------------------------------------------------------------------------------
(* Deduplication by section (retrieval.go).                                  *)

\* The key deduplication compares.
KeyOf(d) == Separated[PairOf(d)]

\* Deduplication keeps a part of a ranking, no two documents with the same key.
LEMMA DeduplicatedRanking ==
  ASSUME NEW S, NEW docs \in Seq(S)
  PROVE  /\ DeduplicateSections(docs) \in Seq(S)
         /\ Len(DeduplicateSections(docs)) <= Len(docs)
         /\ \A m, n \in DOMAIN DeduplicateSections(docs) :
              KeyOf(DeduplicateSections(docs)[m]) = KeyOf(DeduplicateSections(docs)[n])
              => m = n
<1> DEFINE P == {k \in DOMAIN docs : \A j \in 1..(k - 1) : KeyOf(docs[j]) # KeyOf(docs[k])}
           kept == DeduplicateSections(docs)
<1>1. kept = AtPositions(docs, P)
  BY DEF DeduplicateSections, KeyOf
<1>2. P \in SUBSET (DOMAIN docs) /\ DOMAIN docs = 1..Len(docs) /\ Len(docs) \in Nat
  OBVIOUS
<1>3. \A j, k \in P : j < k => KeyOf(docs[j]) # KeyOf(docs[k])
  BY <1>2
<1> HIDE DEF P, kept
<1>4. /\ Cardinality(P) \in Nat /\ Cardinality(P) <= Len(docs)
      /\ kept \in Seq(S) /\ Len(kept) = Cardinality(P)
      /\ \E at \in [1..Cardinality(P) -> P] :
           /\ \A n \in 1..Cardinality(P) : kept[n] = docs[at[n]]
           /\ \A m, n \in 1..Cardinality(P) : m < n => at[m] < at[n]
  BY <1>1, <1>2, PositionsInOrder
<1>5. PICK at \in [1..Cardinality(P) -> P] :
        /\ \A n \in 1..Cardinality(P) : kept[n] = docs[at[n]]
        /\ \A m, n \in 1..Cardinality(P) : m < n => at[m] < at[n]
  BY <1>4
<1>6. ASSUME NEW m \in DOMAIN kept, NEW n \in DOMAIN kept, m < n
      PROVE  KeyOf(kept[m]) # KeyOf(kept[n])
  <2>1. m \in 1..Cardinality(P) /\ n \in 1..Cardinality(P)
    BY <1>4
  <2> QED
    BY <1>3, <1>5, <1>6, <2>1
<1>7. \A m, n \in DOMAIN kept : KeyOf(kept[m]) = KeyOf(kept[n]) => m = n
  <2>1. \A m, n \in DOMAIN kept : m \in Nat /\ n \in Nat
    BY <1>4
  <2> QED
    BY <1>6, <2>1
<1> QED
  BY <1>4, <1>7 DEF kept

\* What is kept was in the ranking, and the key of all that was above it is
\* kept above it.
LEMMA DeduplicatedAbove ==
  ASSUME NEW S, NEW docs \in Seq(S), NEW k \in DOMAIN DeduplicateSections(docs)
  PROVE  \E p \in DOMAIN docs :
           /\ DeduplicateSections(docs)[k] = docs[p]
           /\ \A j \in 1..(p - 1) : \E m \in 1..(k - 1) :
                KeyOf(DeduplicateSections(docs)[m]) = KeyOf(docs[j])
<1> DEFINE P == {i \in DOMAIN docs : \A j \in 1..(i - 1) : KeyOf(docs[j]) # KeyOf(docs[i])}
           kept == DeduplicateSections(docs)
<1>1. kept = AtPositions(docs, P)
  BY DEF DeduplicateSections, KeyOf
<1>2. P \in SUBSET (DOMAIN docs) /\ DOMAIN docs = 1..Len(docs) /\ Len(docs) \in Nat
  OBVIOUS
<1>3. ASSUME NEW j \in DOMAIN docs
      PROVE  \E i \in P : i <= j /\ KeyOf(docs[i]) = KeyOf(docs[j])
  <2> DEFINE Q == {i \in 1..Len(docs) : KeyOf(docs[i]) = KeyOf(docs[j])}
  <2>1. Q \in SUBSET Nat /\ j \in Q
    BY <1>2
  <2>2. PICK i \in Q : \A l \in Q : i <= l
    <3> HIDE DEF Q
    <3> QED
      BY <2>1, LeastOf
  <2>3. i \in P
    BY <1>2, <2>2
  <2> QED
    BY <2>1, <2>2, <2>3
<1> HIDE DEF P, kept
<1>4. /\ Cardinality(P) \in Nat /\ Cardinality(P) <= Len(docs)
      /\ AtPositions(docs, P) \in Seq(S)
      /\ Len(AtPositions(docs, P)) = Cardinality(P)
      /\ \E at \in [1..Cardinality(P) -> P] :
           /\ \A n \in 1..Cardinality(P) : AtPositions(docs, P)[n] = docs[at[n]]
           /\ \A m, n \in 1..Cardinality(P) : m < n => at[m] < at[n]
           /\ \A i \in P : \E n \in 1..Cardinality(P) : at[n] = i
  BY <1>2, PositionsInOrder
<1>5. PICK at \in [1..Cardinality(P) -> P] :
        /\ \A n \in 1..Cardinality(P) : kept[n] = docs[at[n]]
        /\ \A m, n \in 1..Cardinality(P) : m < n => at[m] < at[n]
        /\ \A i \in P : \E n \in 1..Cardinality(P) : at[n] = i
  BY <1>1, <1>4
<1>6. k \in 1..Cardinality(P)
  BY <1>1, <1>4 DEF kept
<1>7. at[k] \in P /\ at[k] \in DOMAIN docs /\ at[k] \in Nat /\ kept[k] = docs[at[k]]
  BY <1>2, <1>5, <1>6
<1>8. ASSUME NEW j \in 1..(at[k] - 1)
      PROVE  \E m \in 1..(k - 1) : KeyOf(kept[m]) = KeyOf(docs[j])
  <2>1. j \in DOMAIN docs /\ j < at[k]
    BY <1>2, <1>7
  <2>2. PICK i \in P : i <= j /\ KeyOf(docs[i]) = KeyOf(docs[j])
    BY <1>3, <2>1
  <2>3. PICK m \in 1..Cardinality(P) : at[m] = i
    BY <1>5
  <2>4. i \in Nat /\ j \in Nat
    BY <1>2
  <2>5. m < k
    <3> SUFFICES ASSUME k <= m PROVE FALSE
      BY <1>6
    <3>1. at[k] <= at[m]
      BY <1>5, <1>6, <1>7, <2>3, <2>4
    <3> QED
      BY <1>7, <2>1, <2>2, <2>3, <2>4, <3>1
  <2>6. KeyOf(kept[m]) = KeyOf(docs[j])
    BY <1>5, <2>2, <2>3
  <2> QED
    BY <1>6, <2>5, <2>6
<1> QED
  BY <1>7, <1>8 DEF kept

\* The first document is kept first.
LEMMA DeduplicatedFirst ==
  ASSUME NEW S, NEW docs \in Seq(S)
  PROVE  /\ docs = <<>> => DeduplicateSections(docs) = <<>>
         /\ docs # <<>> =>
              /\ 1 \in DOMAIN DeduplicateSections(docs)
              /\ DeduplicateSections(docs)[1] = docs[1]
<1> DEFINE P == {i \in DOMAIN docs : \A j \in 1..(i - 1) : KeyOf(docs[j]) # KeyOf(docs[i])}
           kept == DeduplicateSections(docs)
<1>1. kept = AtPositions(docs, P)
  BY DEF DeduplicateSections, KeyOf
<1>2. P \in SUBSET (DOMAIN docs) /\ DOMAIN docs = 1..Len(docs) /\ Len(docs) \in Nat
  OBVIOUS
<1>3. docs # <<>> => 1 \in P
  BY <1>2
<1> HIDE DEF P, kept
<1>4. /\ Cardinality(P) \in Nat /\ Cardinality(P) <= Len(docs)
      /\ AtPositions(docs, P) \in Seq(S)
      /\ Len(AtPositions(docs, P)) = Cardinality(P)
      /\ \E at \in [1..Cardinality(P) -> P] :
           /\ \A n \in 1..Cardinality(P) : AtPositions(docs, P)[n] = docs[at[n]]
           /\ \A m, n \in 1..Cardinality(P) : m < n => at[m] < at[n]
           /\ \A i \in P : \E n \in 1..Cardinality(P) : at[n] = i
  BY <1>2, PositionsInOrder
<1>5. PICK at \in [1..Cardinality(P) -> P] :
        /\ \A n \in 1..Cardinality(P) : kept[n] = docs[at[n]]
        /\ \A m, n \in 1..Cardinality(P) : m < n => at[m] < at[n]
        /\ \A i \in P : \E n \in 1..Cardinality(P) : at[n] = i
  BY <1>1, <1>4
<1>6. ASSUME docs # <<>> PROVE 1 \in DOMAIN kept /\ kept[1] = docs[1]
  <2>1. PICK n \in 1..Cardinality(P) : at[n] = 1
    BY <1>3, <1>5, <1>6
  <2>2. 1 \in 1..Cardinality(P) /\ n \in Nat
    BY <1>4
  <2>3. at[1] \in Nat /\ at[1] >= 1
    BY <1>2, <1>5, <2>2
  <2>4. n = 1
    BY <1>5, <2>1, <2>2, <2>3
  <2> QED
    BY <1>1, <1>4, <1>5, <2>1, <2>2, <2>4
<1>7. ASSUME docs = <<>> PROVE kept = <<>>
  <2>1. kept \in Seq(S) /\ Len(kept) = 0
    BY <1>1, <1>4, <1>7
  <2> QED
    BY <2>1
<1> QED
  BY <1>6, <1>7 DEF kept
==============================================================================
