---------------------------- MODULE Subsequences ----------------------------
(***************************************************************************)
(* The elements of a sequence that are in a set, in their order.  (The     *)
(* provers know SelectSeq only by name, so the recursion is written out.)  *)
(*                                                                         *)
(* The lemmas say what it returns for sequences of any length.  The        *)
(* library's induction theorems take an operator as a parameter, which the *)
(* provers cannot instantiate; here induction is over a set: the elements  *)
(* a fact holds of contain zero or <<>> and are closed under the step.  It *)
(* rests on well-foundedness of the subset order on finite sets.           *)
(***************************************************************************)
EXTENDS Integers, Sequences, SequenceTheorems, FiniteSetTheorems, WellFoundedInduction, TLAPS

Extended(r, x, S) == IF x \in S THEN Append(r, x) ELSE r
Kept(s, S) ==
  LET kept[i \in 0..Len(s)] == IF i = 0 THEN <<>> ELSE Extended(kept[i - 1], s[i], S)
  IN  kept[Len(s)]

Increasing(s) == \A i, j \in 1..Len(s) : i < j => s[i] < s[j]

-----------------------------------------------------------------------------
(* The recursive function of Kept, for the first n elements.               *)
IsFilter(f, s, S, n) ==
  f = [i \in 0..n |-> IF i = 0 THEN <<>> ELSE Extended(f[i - 1], s[i], S)]

(* A set of natural numbers that is not empty has a least element.         *)
LEMMA LeastNumber ==
  ASSUME NEW T, T \subseteq Nat, T # {}
  PROVE  \E x \in T : \A y \in T : x <= y
<1> DEFINE F == {0..(x - 1) : x \in T}
<1>1. F \subseteq FiniteSubsetsOf(Nat)
  <2> SUFFICES ASSUME NEW x \in T PROVE 0..(x - 1) \in FiniteSubsetsOf(Nat)
    OBVIOUS
  <2>1. IsFiniteSet(0..(x - 1))
    BY FS_Interval
  <2>2. 0..(x - 1) \subseteq Nat
    OBVIOUS
  <2> QED BY <2>1, <2>2 DEF FiniteSubsetsOf
<1>2. F # {}
  OBVIOUS
<1>3. PICK A \in F : \A B \in F : ~(<<B, A>> \in StrictSubsetOrdering(Nat))
  <2> HIDE DEF F
  <2> QED BY <1>1, <1>2, FS_StrictSubsetOrderingWellFounded, WFMin
<1>4. PICK x \in T : A = 0..(x - 1)
  OBVIOUS
<1>5. ASSUME NEW y \in T, y < x PROVE FALSE
  <2>1. 0..(y - 1) \subseteq 0..(x - 1) /\ 0..(y - 1) # 0..(x - 1)
    <3>1. y \in 0..(x - 1) /\ y \notin 0..(y - 1)
      BY <1>5
    <3> QED BY <3>1, <1>5
  <2>2. <<0..(y - 1), 0..(x - 1)>> \in StrictSubsetOrdering(Nat)
    BY <2>1, SMTT(30) DEF StrictSubsetOrdering
  <2> QED BY <1>3, <1>4, <2>2
<1> QED BY <1>5

(* A filter of the first n elements extends to one of the first n + 1.     *)
LEMMA FilterStep ==
  ASSUME NEW s, NEW S, NEW n \in Nat, NEW f, IsFilter(f, s, S, n)
  PROVE  \E g : IsFilter(g, s, S, n + 1)
<1> DEFINE g == [i \in 0..(n + 1) |->
                  IF i = n + 1 THEN Extended(f[n], s[i], S) ELSE f[i]]
<1>1. \A i \in 0..(n + 1) : g[i] = IF i = 0 THEN <<>> ELSE Extended(g[i - 1], s[i], S)
  <2> TAKE i \in 0..(n + 1)
  <2>1. CASE i = n + 1
    <3>1. g[i - 1] = f[n] /\ i # 0
      BY <2>1
    <3> QED BY <3>1, <2>1
  <2>2. CASE i # n + 1
    <3>1. i \in 0..n /\ g[i] = f[i] /\ (i # 0 => g[i - 1] = f[i - 1])
      BY <2>2
    <3>2. f[i] = IF i = 0 THEN <<>> ELSE Extended(f[i - 1], s[i], S)
      BY <3>1 DEF IsFilter
    <3> QED BY <3>1, <3>2
  <2> QED BY <2>1, <2>2
<1>2. IsFilter(g, s, S, n + 1)
  BY <1>1 DEF IsFilter
<1> QED BY <1>2

(* Induction over the natural numbers: a set with 0 and successors has all.*)
LEMMA NatInduct ==
  ASSUME NEW G, 0 \in G, \A n \in Nat : n \in G => n + 1 \in G
  PROVE  Nat \subseteq G
<1>1. SUFFICES ASSUME Nat \ G # {} PROVE FALSE
  OBVIOUS
<1>2. PICK m \in Nat \ G : \A k \in Nat \ G : m <= k
  BY <1>1, LeastNumber
<1>3. m - 1 \in Nat /\ m - 1 \in G
  BY <1>2
<1> QED BY <1>2, <1>3

(* Induction over sequences: a set with <<>> and appended ones has all.    *)
LEMMA SeqInduct ==
  ASSUME NEW X, NEW G, <<>> \in G,
         \A s \in Seq(X), x \in X : s \in G => Append(s, x) \in G
  PROVE  Seq(X) \subseteq G
<1> DEFINE N == {n \in Nat : \A s \in Seq(X) : Len(s) = n => s \in G}
<1>1. 0 \in N
  BY EmptySeq
<1>2. ASSUME NEW n \in Nat, n \in N PROVE n + 1 \in N
  <2>1. SUFFICES ASSUME NEW s \in Seq(X), Len(s) = n + 1 PROVE s \in G
    OBVIOUS
  <2> DEFINE t == SubSeq(s, 1, n)
  <2>2. t \in Seq(X) /\ Len(t) = n /\ s[n + 1] \in X /\ s = Append(t, s[n + 1])
    BY <2>1
  <2> QED BY <2>2, <1>2
<1> HIDE DEF N
<1>3. Nat \subseteq N
  BY <1>1, <1>2, NatInduct
<1> QED BY <1>3 DEF N

(* There is a filter of the first n elements, so CHOOSE finds one.         *)
LEMMA FilterExists ==
  ASSUME NEW s, NEW S, NEW n \in Nat
  PROVE  \E f : IsFilter(f, s, S, n)
<1> DEFINE G == {m \in Nat : \E f : IsFilter(f, s, S, m)}
<1>1. 0 \in G
  <2>1. IsFilter([i \in 0..0 |-> <<>>], s, S, 0)
    BY DEF IsFilter
  <2> QED BY <2>1
<1>2. \A m \in Nat : m \in G => m + 1 \in G
  BY FilterStep
<1> HIDE DEF G
<1>3. Nat \subseteq G
  BY <1>1, <1>2, NatInduct
<1> QED BY <1>3 DEF G

(* Kept is the value of a filter of the whole sequence.                    *)
LEMMA KeptIsFilter ==
  ASSUME NEW s, NEW S, Len(s) \in Nat
  PROVE  \E f : IsFilter(f, s, S, Len(s)) /\ Kept(s, S) = f[Len(s)]
<1> DEFINE g == CHOOSE f : IsFilter(f, s, S, Len(s))
<1>1. Kept(s, S) = g[Len(s)]
  BY DEF Kept, IsFilter
<1>2. IsFilter(g, s, S, Len(s))
  BY FilterExists
<1> QED BY <1>1, <1>2

(* A filter obeys its recursion.                                           *)
LEMMA FilterValue ==
  ASSUME NEW s, NEW S, NEW n \in Nat, NEW f, IsFilter(f, s, S, n), NEW i \in 1..n
  PROVE  f[0] = <<>> /\ f[i] = Extended(f[i - 1], s[i], S)
<1>1. i \in 0..n /\ 0 \in 0..n /\ i # 0
  OBVIOUS
<1> QED BY <1>1 DEF IsFilter

(* Filters of sequences with a common prefix agree on it.                  *)
LEMMA FiltersAgree ==
  ASSUME NEW s, NEW t, NEW S, NEW f, NEW g, NEW m \in Nat, NEW n \in Nat, m <= n,
         IsFilter(f, s, S, m), IsFilter(g, t, S, n), \A i \in 1..m : s[i] = t[i]
  PROVE  \A i \in 0..m : f[i] = g[i]
<1> DEFINE G == {i \in Nat : i <= m => f[i] = g[i]}
<1>1. 0 \in G
  BY DEF IsFilter
<1>2. ASSUME NEW i \in Nat, i \in G PROVE i + 1 \in G
  <2>1. SUFFICES ASSUME i + 1 <= m PROVE f[i + 1] = g[i + 1]
    OBVIOUS
  <2> DEFINE j == i + 1
  <2>2. j \in 1..m /\ j \in 1..n /\ f[j - 1] = g[j - 1] /\ s[j] = t[j]
    BY <2>1, <1>2
  <2> HIDE DEF j
  <2>3. f[j] = Extended(f[j - 1], s[j], S) /\ g[j] = Extended(g[j - 1], t[j], S)
    BY <2>2, FilterValue
  <2> QED BY <2>2, <2>3 DEF j
<1> HIDE DEF G
<1>3. Nat \subseteq G
  BY <1>1, <1>2, NatInduct
<1> QED BY <1>3 DEF G

(* Nothing is kept of nothing.                                             *)
LEMMA KeptEmpty ==
  ASSUME NEW S
  PROVE  Kept(<<>>, S) = <<>>
<1>1. Len(<<>>) = 0
  OBVIOUS
<1> QED BY <1>1, KeptIsFilter DEF IsFilter

(* One more element is appended to what is kept, or dropped.               *)
LEMMA KeptAppend ==
  ASSUME NEW X, NEW s \in Seq(X), NEW x \in X, NEW S
  PROVE  Kept(Append(s, x), S) = Extended(Kept(s, S), x, S)
<1> DEFINE n == Len(s)
           m == n + 1
           t == Append(s, x)
<1>1. /\ n \in Nat /\ m \in Nat /\ n <= m /\ m - 1 = n /\ m \in 1..m /\ n \in 0..n
      /\ Len(t) = m /\ t[m] = x /\ \A i \in 1..n : s[i] = t[i]
  OBVIOUS
<1> HIDE DEF n, m, t
<1>2. PICK f : IsFilter(f, s, S, n) /\ Kept(s, S) = f[n]
  BY <1>1, KeptIsFilter DEF n
<1>3. PICK g : IsFilter(g, t, S, m) /\ Kept(t, S) = g[m]
  BY <1>1, KeptIsFilter
<1>4. f[n] = g[n]
  <2>1. \A i \in 0..n : f[i] = g[i]
    BY <1>1, <1>2, <1>3, FiltersAgree
  <2> QED BY <2>1, <1>1
<1>5. g[m] = Extended(g[m - 1], t[m], S)
  BY <1>1, <1>3, FilterValue
<1> QED BY <1>1, <1>2, <1>3, <1>4, <1>5 DEF t

(* Extending keeps the type.                                               *)
LEMMA ExtendedType ==
  ASSUME NEW X, NEW S, NEW r \in Seq(X), NEW x \in X
  PROVE  Extended(r, x, S) \in Seq(X)
BY DEF Extended

(* What is kept of a sequence over X is one over X.                        *)
LEMMA KeptType ==
  ASSUME NEW X, NEW S, NEW s \in Seq(X)
  PROVE  Kept(s, S) \in Seq(X)
<1> DEFINE G == {r \in Seq(X) : Kept(r, S) \in Seq(X)}
<1>1. <<>> \in G
  BY KeptEmpty, EmptySeq
<1>2. ASSUME NEW r \in Seq(X), NEW x \in X, r \in G PROVE Append(r, x) \in G
  <2>1. Extended(Kept(r, S), x, S) \in Seq(X)
    BY <1>2, ExtendedType
  <2>2. Append(r, x) \in Seq(X)
    OBVIOUS
  <2> QED BY <2>1, <2>2, KeptAppend
<1> HIDE DEF G
<1>3. Seq(X) \subseteq G
  BY <1>1, <1>2, SeqInduct
<1> QED BY <1>3 DEF G

(* A sequence inside the set is kept whole.                                *)
LEMMA KeptAll ==
  ASSUME NEW X, NEW S, NEW s \in Seq(X), \A i \in 1..Len(s) : s[i] \in S
  PROVE  Kept(s, S) = s
<1> DEFINE G == {r \in Seq(X) : (\A i \in 1..Len(r) : r[i] \in S) => Kept(r, S) = r}
<1>1. <<>> \in G
  BY KeptEmpty, EmptySeq
<1>2. ASSUME NEW r \in Seq(X), NEW x \in X, r \in G PROVE Append(r, x) \in G
  <2> DEFINE t == Append(r, x)
  <2>1. /\ t \in Seq(X) /\ Len(t) = Len(r) + 1 /\ t[Len(r) + 1] = x
        /\ \A i \in 1..Len(r) : t[i] = r[i] /\ i \in 1..Len(t)
        /\ Len(r) + 1 \in 1..Len(t)
    OBVIOUS
  <2>2. Kept(t, S) = Extended(Kept(r, S), x, S)
    BY KeptAppend
  <2> HIDE DEF t
  <2>3. SUFFICES ASSUME \A i \in 1..Len(t) : t[i] \in S PROVE Kept(t, S) = t
    BY <2>1 DEF t
  <2>4. x \in S /\ \A i \in 1..Len(r) : r[i] \in S
    BY <2>1, <2>3
  <2> QED BY <2>2, <2>4, <1>2 DEF t, Extended
<1> HIDE DEF G
<1>3. Seq(X) \subseteq G
  BY <1>1, <1>2, SeqInduct
<1> QED BY <1>3 DEF G

(* Sets that agree on the elements keep the same.                          *)
LEMMA KeptSame ==
  ASSUME NEW X, NEW S, NEW R, NEW s \in Seq(X),
         \A i \in 1..Len(s) : s[i] \in S <=> s[i] \in R
  PROVE  Kept(s, S) = Kept(s, R)
<1> DEFINE Alike(r) == \A i \in 1..Len(r) : r[i] \in S <=> r[i] \in R
           G == {r \in Seq(X) : Alike(r) => Kept(r, S) = Kept(r, R)}
<1>1. <<>> \in G
  BY KeptEmpty, EmptySeq
<1>2. ASSUME NEW r \in Seq(X), NEW x \in X, r \in G PROVE Append(r, x) \in G
  <2> DEFINE t == Append(r, x)
  <2>1. /\ t \in Seq(X) /\ Len(t) = Len(r) + 1 /\ t[Len(r) + 1] = x
        /\ \A i \in 1..Len(r) : t[i] = r[i] /\ i \in 1..Len(t)
        /\ Len(r) + 1 \in 1..Len(t)
    OBVIOUS
  <2>2. Kept(t, S) = Extended(Kept(r, S), x, S) /\ Kept(t, R) = Extended(Kept(r, R), x, R)
    BY KeptAppend
  <2> HIDE DEF t
  <2>3. SUFFICES ASSUME Alike(t) PROVE Kept(t, S) = Kept(t, R)
    BY <2>1 DEF t
  <2>4. (x \in S <=> x \in R) /\ Alike(r)
    BY <2>1, <2>3
  <2>5. Kept(r, S) = Kept(r, R)
    BY <2>4, <1>2
  <2> QED BY <2>2, <2>4, <2>5 DEF Extended
<1> HIDE DEF G
<1>3. Seq(X) \subseteq G
  BY <1>1, <1>2, SeqInduct
<1> QED BY <1>3 DEF G

(* Filtering distributes over concatenation.                               *)
LEMMA KeptConcat ==
  ASSUME NEW X, NEW S, NEW s \in Seq(X), NEW t \in Seq(X)
  PROVE  Kept(s \o t, S) = Kept(s, S) \o Kept(t, S)
<1> DEFINE G == {r \in Seq(X) : Kept(s \o r, S) = Kept(s, S) \o Kept(r, S)}
<1>1. <<>> \in G
  <2>1. s \o <<>> = s /\ Kept(s, S) \o <<>> = Kept(s, S) /\ <<>> \in Seq(X)
    BY KeptType, ConcatEmptySeq, EmptySeq
  <2> QED BY <2>1, KeptEmpty
<1>2. ASSUME NEW r \in Seq(X), NEW x \in X, r \in G PROVE Append(r, x) \in G
  <2>1. s \o Append(r, x) = Append(s \o r, x) /\ Append(r, x) \in Seq(X) /\ s \o r \in Seq(X)
    OBVIOUS
  <2>2. Kept(s \o Append(r, x), S) = Extended(Kept(s \o r, S), x, S)
    BY <2>1, KeptAppend
  <2>3. Kept(Append(r, x), S) = Extended(Kept(r, S), x, S)
    BY KeptAppend
  <2>4. Kept(s \o r, S) = Kept(s, S) \o Kept(r, S)
    BY <1>2
  <2>5. Kept(s, S) \in Seq(X) /\ Kept(r, S) \in Seq(X)
    BY KeptType
  <2>6. ASSUME NEW p \in Seq(X), NEW q \in Seq(X)
        PROVE  Extended(p \o q, x, S) = p \o Extended(q, x, S)
    <3>1. p \o Append(q, x) = Append(p \o q, x)
      OBVIOUS
    <3> QED BY <3>1 DEF Extended
  <2>7. Extended(Kept(s, S) \o Kept(r, S), x, S) = Kept(s, S) \o Extended(Kept(r, S), x, S)
    <3>1. Kept(s, S) \in Seq(X)
      BY KeptType
    <3> QED BY <3>1, <2>5, <2>6
  <2>8. Kept(s \o Append(r, x), S) = Kept(s, S) \o Kept(Append(r, x), S)
    BY <2>2, <2>3, <2>4, <2>7
  <2> QED BY <2>1, <2>8
<1> HIDE DEF G
<1>3. Seq(X) \subseteq G
  BY <1>1, <1>2, SeqInduct
<1> QED BY <1>3 DEF G

(* What is kept has the elements that are in the set, and no others.       *)
LEMMA KeptMembers ==
  ASSUME NEW X, NEW S, NEW s \in Seq(X)
  PROVE  Range(Kept(s, S)) = Range(s) \intersect S
<1> DEFINE G == {r \in Seq(X) : Range(Kept(r, S)) = Range(r) \intersect S}
<1>1. <<>> \in G
  BY KeptEmpty, EmptySeq DEF Range
<1>2. ASSUME NEW r \in Seq(X), NEW x \in X, r \in G PROVE Append(r, x) \in G
  <2>1. ASSUME NEW q \in Seq(X) PROVE Range(Append(q, x)) = Range(q) \union {x}
    BY DEF Range
  <2>2. Kept(r, S) \in Seq(X)
    BY KeptType
  <2>3. Range(Extended(Kept(r, S), x, S)) = Range(Append(r, x)) \intersect S
    BY <2>1, <2>2, <1>2 DEF Extended
  <2> QED BY <2>3, KeptAppend
<1> HIDE DEF G
<1>3. Seq(X) \subseteq G
  BY <1>1, <1>2, SeqInduct
<1> QED BY <1>3 DEF G

(* What is kept is in the order of the sequence.                           *)
LEMMA KeptOrder ==
  ASSUME NEW X, NEW S, NEW s \in Seq(X),
         NEW i \in 1..Len(Kept(s, S)), NEW j \in 1..Len(Kept(s, S)), i < j
  PROVE  \E a, b \in 1..Len(s) : a < b /\ s[a] = Kept(s, S)[i] /\ s[b] = Kept(s, S)[j]
<1> DEFINE InOrder(r, k) ==
             \A p, q \in 1..Len(k) : p < q => \E a, b \in 1..Len(r) : a < b /\ r[a] = k[p] /\ r[b] = k[q]
           G == {r \in Seq(X) : InOrder(r, Kept(r, S))}
<1>1. <<>> \in G
  BY KeptEmpty, EmptySeq
<1>2. ASSUME NEW r \in Seq(X), NEW x \in X, r \in G PROVE Append(r, x) \in G
  <2> DEFINE t == Append(r, x)
             k == Kept(r, S)
             m == Extended(k, x, S)
  <2>1. /\ t \in Seq(X) /\ Len(t) = Len(r) + 1 /\ Len(r) \in Nat /\ t[Len(r) + 1] = x
        /\ \A a \in 1..Len(r) : t[a] = r[a]
    OBVIOUS
  <2>2. k \in Seq(X) /\ Range(k) \subseteq Range(r) /\ Kept(t, S) = m /\ InOrder(r, k)
    BY <1>2, KeptType, KeptMembers, KeptAppend
  <2> SUFFICES InOrder(t, m)
    <3>1. m = Kept(t, S) /\ t \in Seq(X)
      BY <2>1, <2>2
    <3> HIDE DEF InOrder, m
    <3>2. InOrder(t, Kept(t, S)) => t \in G
      BY <3>1
    <3> QED BY <3>1, <3>2
  <2> SUFFICES ASSUME NEW p \in 1..Len(m), NEW q \in 1..Len(m), p < q
               PROVE  \E a, b \in 1..Len(t) : a < b /\ t[a] = m[p] /\ t[b] = m[q]
    OBVIOUS
  <2> HIDE DEF k, t
  <2>3. CASE p \in 1..Len(k) /\ q \in 1..Len(k)
    <3>1. m[p] = k[p] /\ m[q] = k[q]
      BY <2>2, <2>3 DEF Extended
    <3>2. PICK a \in 1..Len(r), b \in 1..Len(r) : a < b /\ r[a] = k[p] /\ r[b] = k[q]
      BY <2>2, <2>3
    <3> QED BY <2>1, <3>1, <3>2
  <2>4. CASE ~(p \in 1..Len(k) /\ q \in 1..Len(k))
    <3>1. p \in 1..Len(k) /\ q = Len(k) + 1 /\ m[p] = k[p] /\ m[q] = x
      BY <2>2, <2>4 DEF Extended
    <3>2. k[p] \in Range(r)
      <4>1. p \in DOMAIN k
        BY <2>2, <3>1
      <4>2. k[p] \in Range(k)
        BY <4>1 DEF Range
      <4> QED BY <2>2, <4>2
    <3>3. PICK a \in 1..Len(r) : r[a] = k[p]
      BY <3>2 DEF Range
    <3> QED BY <2>1, <3>1, <3>3, SMTT(30)
  <2> QED BY <2>3, <2>4
<1> HIDE DEF G
<1>3. Seq(X) \subseteq G
  BY <1>1, <1>2, SeqInduct
<1> QED BY <1>3 DEF G

(* What is kept of a sequence without repetition has none.                 *)
LEMMA KeptInjective ==
  ASSUME NEW X, NEW S, NEW s \in Seq(X), IsInjective(s)
  PROVE  IsInjective(Kept(s, S))
<1> DEFINE k == Kept(s, S)
<1>1. k \in Seq(X)
  BY KeptType
<1>2. ASSUME NEW i \in 1..Len(k), NEW j \in 1..Len(k), i < j PROVE k[i] # k[j]
  BY <1>2, KeptOrder DEF IsInjective
<1> HIDE DEF k
<1>3. \A i, j \in DOMAIN k : k[i] = k[j] => i = j
  BY <1>1, <1>2
<1> QED BY <1>3 DEF IsInjective, k

(* What is kept of an increasing sequence increases.                       *)
LEMMA KeptIncreasing ==
  ASSUME NEW S, NEW s \in Seq(Int), Increasing(s)
  PROVE  Increasing(Kept(s, S))
<1> DEFINE G == {r \in Seq(Int) : Increasing(r) => Increasing(Kept(r, S))}
<1>1. <<>> \in G
  BY KeptEmpty, EmptySeq DEF Increasing
<1>2. ASSUME NEW r \in Seq(Int), NEW x \in Int, r \in G PROVE Append(r, x) \in G
  <2>1. SUFFICES ASSUME Increasing(Append(r, x)) PROVE Increasing(Extended(Kept(r, S), x, S))
    BY KeptAppend
  <2>2. Increasing(r) /\ \A y \in Range(r) : y < x
    <3> DEFINE t == Append(r, x)
               n == Len(r)
    <3>1. /\ n \in Nat /\ DOMAIN r = 1..n /\ Len(t) = n + 1 /\ t[n + 1] = x
          /\ \A i \in 1..n : t[i] = r[i] /\ i \in 1..(n + 1) /\ i < n + 1
          /\ n + 1 \in 1..(n + 1)
      OBVIOUS
    <3>2. \A i, j \in 1..(n + 1) : i < j => t[i] < t[j]
      BY <2>1, <3>1 DEF Increasing
    <3> HIDE DEF t
    <3>3. Increasing(r)
      BY <3>1, <3>2 DEF Increasing
    <3>4. \A i \in 1..n : r[i] < x
      BY <3>1, <3>2
    <3> QED BY <3>1, <3>3, <3>4 DEF Range
  <2>3. Kept(r, S) \in Seq(Int) /\ Increasing(Kept(r, S)) /\ \A y \in Range(Kept(r, S)) : y < x
    BY <2>2, <1>2, KeptType, KeptMembers
  <2>4. ASSUME NEW q \in Seq(Int), Increasing(q), \A y \in Range(q) : y < x
        PROVE  Increasing(Append(q, x))
    BY <2>4 DEF Increasing, Range
  <2> QED BY <2>3, <2>4 DEF Extended
<1> HIDE DEF G
<1>3. Seq(Int) \subseteq G
  BY <1>1, <1>2, SeqInduct
<1> QED BY <1>3 DEF G

(* Keeping twice keeps what is in both sets.                               *)
LEMMA KeptTwice ==
  ASSUME NEW X, NEW S, NEW R, NEW s \in Seq(X)
  PROVE  Kept(Kept(s, S), R) = Kept(s, S \intersect R)
<1> DEFINE B == S \intersect R
           G == {r \in Seq(X) : Kept(Kept(r, S), R) = Kept(r, B)}
<1>1. <<>> \in G
  BY KeptEmpty, EmptySeq
<1>2. ASSUME NEW r \in Seq(X), NEW x \in X, r \in G PROVE Append(r, x) \in G
  <2>1. Kept(Append(r, x), S) = Extended(Kept(r, S), x, S) /\ Kept(Append(r, x), B) = Extended(Kept(r, B), x, B)
    BY KeptAppend
  <2>2. Kept(r, S) \in Seq(X) /\ Kept(Kept(r, S), R) = Kept(r, B)
    BY <1>2, KeptType
  <2>3. Kept(Append(Kept(r, S), x), R) = Extended(Kept(r, B), x, R)
    BY <2>2, KeptAppend
  <2>4. Kept(Append(r, x), B) = Kept(Extended(Kept(r, S), x, S), R)
    BY <2>1, <2>2, <2>3 DEF Extended
  <2> QED BY <2>1, <2>4
<1> HIDE DEF G
<1>3. Seq(X) \subseteq G
  BY <1>1, <1>2, SeqInduct
<1> QED BY <1>3 DEF G

(* An element that is elsewhere in no place goes without a trace.          *)
LEMMA KeptWithoutLast ==
  ASSUME NEW X, NEW S, NEW s \in Seq(X), NEW x \in X, x \notin Range(s)
  PROVE  Kept(Append(s, x), S \ {x}) = Kept(s, S)
<1> DEFINE R == S \ {x}
<1>1. \A i \in 1..Len(s) : s[i] \in R <=> s[i] \in S
  BY RangeEquality
<1> HIDE DEF R
<1>2. Kept(s, R) = Kept(s, S)
  BY <1>1, KeptSame
<1>3. Kept(Append(s, x), R) = Extended(Kept(s, R), x, R)
  BY KeptAppend
<1> QED BY <1>2, <1>3 DEF Extended, R

-----------------------------------------------------------------------------
(* The top of a stack *)

(* What a push adds.                                                       *)
LEMMA PushFacts ==
  ASSUME NEW X, NEW s \in Seq(X), NEW x \in X
  PROVE  /\ Append(s, x) \in Seq(X) /\ Len(Append(s, x)) = Len(s) + 1
         /\ Range(Append(s, x)) = Range(s) \union {x}
         /\ IsInjective(s) /\ x \notin Range(s) => IsInjective(Append(s, x))
<1> DEFINE t == Append(s, x)
           n == Len(s)
<1>1. /\ t \in Seq(X) /\ Len(t) = n + 1 /\ n \in Nat /\ t[n + 1] = x
      /\ \A i \in 1..n : t[i] = s[i]
      /\ DOMAIN s = 1..n /\ DOMAIN t = 1..(n + 1)
  BY AppendProperties, LenProperties
<1> HIDE DEF t, n
<1>2. Range(t) = Range(s) \union {x}
  <2>1. n + 1 \in 1..(n + 1) /\ \A i \in 1..(n + 1) : i \in 1..n \/ i = n + 1
    BY <1>1
  <2>2. 1..n \subseteq 1..(n + 1)
    BY <1>1
  <2>3. \A y \in Range(t) : y \in Range(s) \union {x}
    BY <1>1, <2>1 DEF Range
  <2>4. \A y \in Range(s) : y \in Range(t)
    BY <1>1, <2>2 DEF Range
  <2>5. x \in Range(t)
    BY <1>1, <2>1 DEF Range
  <2> QED BY <2>3, <2>4, <2>5
<1>3. ASSUME IsInjective(s), x \notin Range(s) PROVE IsInjective(t)
  <2>1. SUFFICES ASSUME NEW i \in 1..(n + 1), NEW j \in 1..(n + 1), t[i] = t[j] PROVE i = j
    BY <1>1 DEF IsInjective
  <2>2. \A k \in 1..n : s[k] # x
    BY <1>1, <1>3 DEF Range
  <2>3. \A k \in 1..(n + 1) : k \in 1..n \/ k = n + 1
    BY <1>1
  <2> QED BY <1>1, <1>3, <2>1, <2>2, <2>3 DEF IsInjective
<1> QED BY <1>1, <1>2, <1>3 DEF t, n

(* A stack that is not empty is what is below its top, and its top.        *)
LEMMA PopFacts ==
  ASSUME NEW X, NEW s \in Seq(X), s # <<>>
  PROVE  LET front == SubSeq(s, 1, Len(s) - 1)
             top   == s[Len(s)]
         IN  /\ front \in Seq(X) /\ top \in X /\ s = Append(front, top)
             /\ Len(s) \in Nat \ {0} /\ Len(front) = Len(s) - 1
             /\ Range(s) = Range(front) \union {top}
             /\ IsInjective(s) => IsInjective(front) /\ top \notin Range(front)
<1> DEFINE front == SubSeq(s, 1, Len(s) - 1)
           top   == s[Len(s)]
           n     == Len(s)
<1>1. n \in Nat \ {0} /\ DOMAIN s = 1..n /\ top \in X
  BY EmptySeq, LenProperties, ElementOfSeq
<1>2. front \in Seq(X) /\ Len(front) = n - 1 /\ \A i \in 1..(n - 1) : front[i] = s[i]
  BY <1>1
<1>3. s = Append(front, top)
  BY <1>1, <1>2
<1> HIDE DEF front, top
<1>4. Range(s) = Range(front) \union {top}
  <2>1. Range(Append(front, top)) = Range(front) \union {top}
    BY <1>1, <1>2, PushFacts
  <2> QED BY <1>3, <2>1
<1>5. ASSUME IsInjective(s) PROVE IsInjective(front) /\ top \notin Range(front)
  <2>1. /\ DOMAIN front = 1..(n - 1) /\ n \in 1..n
        /\ \A i \in 1..(n - 1) : i \in 1..n /\ i # n
    <3>1. DOMAIN front = 1..Len(front)
      BY <1>2, LenProperties
    <3> HIDE DEF n
    <3> QED BY <1>1, <1>2, <3>1
  <2>2. IsInjective(front)
    BY <1>1, <1>2, <1>5, <2>1 DEF IsInjective
  <2>3. \A i \in 1..(n - 1) : front[i] # top
    BY <1>1, <1>2, <1>5, <2>1 DEF IsInjective, top
  <2> QED BY <2>1, <2>2, <2>3 DEF Range
<1> QED BY <1>1, <1>2, <1>3, <1>4, <1>5 DEF front, top
=============================================================================
