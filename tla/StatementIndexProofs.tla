------------------------ MODULE StatementIndexProofs ------------------------
(***************************************************************************)
(* What a range scan returns, for every set of terms, hash function and    *)
(* pattern.                                                                *)
(***************************************************************************)
EXTENDS StatementIndex, FiniteSets, TLAPS

\* The time the provers have for a step.
USE SMTT(30), ZenonT(30)

\* memcmp on four blocks, written out.
LEMMA LessUnrolled ==
    ASSUME NEW k \in [1 .. 4 -> Nat], NEW l \in [1 .. 4 -> Nat]
    PROVE  Less(k, l) <=> \/ k[1] < l[1]
                          \/ k[1] = l[1] /\ k[2] < l[2]
                          \/ k[1] = l[1] /\ k[2] = l[2] /\ k[3] < l[3]
                          \/ k[1] = l[1] /\ k[2] = l[2] /\ k[3] = l[3] /\ k[4] < l[4]
<1>1. 1 .. 4 = {1, 2, 3, 4}
  OBVIOUS
<1>2. 1 .. 0 = {} /\ 1 .. 1 = {1} /\ 1 .. 2 = {1, 2} /\ 1 .. 3 = {1, 2, 3}
  OBVIOUS
<1>3. Less(k, l) <=> \E i \in {1, 2, 3, 4} : k[i] < l[i] /\ \A j \in 1 .. (i - 1) : k[j] = l[j]
  BY <1>1 DEF Less
<1>4. 1 - 1 = 0 /\ 2 - 1 = 1 /\ 3 - 1 = 2 /\ 4 - 1 = 3
  OBVIOUS
<1> QED
  BY <1>2, <1>3, <1>4

\* Filling the blocks behind a bound prefix with the least and the greatest
\* value makes the closed key range the set of keys with that prefix.
LEMMA FilledRange ==
    ASSUME NEW M \in Nat,
           NEW B \in [1 .. 4 -> BOOLEAN], B[2] => B[1], B[3] => B[2], B[4] => B[3],
           NEW v \in [1 .. 4 -> 0 .. M], NEW k \in [1 .. 4 -> 0 .. M],
           NEW lo, lo = [i \in 1 .. 4 |-> IF B[i] THEN v[i] ELSE 0],
           NEW hi, hi = [i \in 1 .. 4 |-> IF B[i] THEN v[i] ELSE M]
    PROVE  Leq(lo, k) /\ Leq(k, hi) <=> \A i \in 1 .. 4 : B[i] => k[i] = v[i]
<1>1. /\ lo \in [1 .. 4 -> 0 .. M] /\ hi \in [1 .. 4 -> 0 .. M]
      /\ lo \in [1 .. 4 -> Nat] /\ hi \in [1 .. 4 -> Nat] /\ k \in [1 .. 4 -> Nat]
  OBVIOUS
<1>2. 1 .. 4 = {1, 2, 3, 4}
  OBVIOUS
<1>3. \A a, b \in [1 .. 4 -> 0 .. M] :
          a = b <=> a[1] = b[1] /\ a[2] = b[2] /\ a[3] = b[3] /\ a[4] = b[4]
  BY <1>2
<1>4. /\ lo[1] = (IF B[1] THEN v[1] ELSE 0) /\ hi[1] = (IF B[1] THEN v[1] ELSE M)
      /\ lo[2] = (IF B[2] THEN v[2] ELSE 0) /\ hi[2] = (IF B[2] THEN v[2] ELSE M)
      /\ lo[3] = (IF B[3] THEN v[3] ELSE 0) /\ hi[3] = (IF B[3] THEN v[3] ELSE M)
      /\ lo[4] = (IF B[4] THEN v[4] ELSE 0) /\ hi[4] = (IF B[4] THEN v[4] ELSE M)
  OBVIOUS
<1>5. /\ k[1] \in 0 .. M /\ k[2] \in 0 .. M /\ k[3] \in 0 .. M /\ k[4] \in 0 .. M
      /\ v[1] \in 0 .. M /\ v[2] \in 0 .. M /\ v[3] \in 0 .. M /\ v[4] \in 0 .. M
  OBVIOUS
<1>6. (\A i \in 1 .. 4 : B[i] => k[i] = v[i])
         <=> /\ B[1] => k[1] = v[1]
             /\ B[2] => k[2] = v[2]
             /\ B[3] => k[3] = v[3]
             /\ B[4] => k[4] = v[4]
  BY <1>2
<1>7. Leq(lo, k) <=> (lo = k \/ Less(lo, k))
  BY DEF Leq
<1>8. Leq(k, hi) <=> (k = hi \/ Less(k, hi))
  BY DEF Leq
<1> QED
  BY <1>1, <1>3, <1>4, <1>5, <1>6, <1>7, <1>8, LessUnrolled

\* The components of statements and patterns.
LEMMA Components ==
    ASSUME NEW pat \in Pattern, NEW x \in Statement, NEW f \in {"s", "p", "o", "c"}
    PROVE  x[f] \in Term /\ pat[f] \in Term \cup {Unset}
BY DEF Pattern, Statement, Term

\* The two places of the code that order the blocks of a key agree.
LEMMA Orders ==
    ASSUME NEW d \in StmtDB, NEW i \in 1 .. 4
    PROVE  /\ KeyOrder[d][i] \in {"s", "p", "o", "c"}
           /\ PatternOrder[d][i] = KeyOrder[d][i]
<1>1. i \in {1, 2, 3, 4}
  OBVIOUS
<1>2. CASE d = "spoc"
  BY <1>1, <1>2 DEF KeyOrder, PatternOrder
<1>3. CASE d = "cspo"
  BY <1>1, <1>3 DEF KeyOrder, PatternOrder
<1>4. CASE d = "opsc"
  BY <1>1, <1>4 DEF KeyOrder, PatternOrder
<1>5. CASE d = "pcos"
  BY <1>1, <1>5 DEF KeyOrder, PatternOrder
<1> QED
  BY <1>2, <1>3, <1>4, <1>5 DEF StmtDB

\* Terms may be in any field.
LEMMA RangeOfTerms ==
    ASSUME NEW d \in StmtDB, NEW pat, NEW x \in Statement,
           \A f \in {"s", "p", "o", "c"} : pat[f] \in Term \cup {Unset}
    PROVE  InRange(d, pat, x)
              <=> \A i \in 1 .. 4 : Bound(d, pat, i) => x[KeyOrder[d][i]] = pat[KeyOrder[d][i]]
<1> DEFINE B == [i \in 1 .. 4 |-> Bound(d, pat, i)]
           v == [i \in 1 .. 4 |-> IF Bound(d, pat, i) THEN Hash[pat[PatternOrder[d][i]]] ELSE 0]
           k == StatementKey(d, x)
<1>1. \A i \in 1 .. 4 : Bound(d, pat, i) => pat[PatternOrder[d][i]] # Unset
  BY DEF Bound
<1>2. \A i \in 1 .. 4 : /\ x[KeyOrder[d][i]] \in Term
                        /\ PatternOrder[d][i] = KeyOrder[d][i]
                        /\ Bound(d, pat, i) => pat[PatternOrder[d][i]] \in Term
  <2>1. \A f \in {"s", "p", "o", "c"} : x[f] \in Term
    BY DEF Statement, Term
  <2> QED
    BY <1>1, <2>1, Orders
<1>3. B \in [1 .. 4 -> BOOLEAN] /\ (B[2] => B[1]) /\ (B[3] => B[2]) /\ (B[4] => B[3])
  <2>1. \A i \in 1 .. 4 : Bound(d, pat, i) \in BOOLEAN
    BY DEF Bound
  <2>2. /\ Bound(d, pat, 2) => Bound(d, pat, 1)
        /\ Bound(d, pat, 3) => Bound(d, pat, 2)
        /\ Bound(d, pat, 4) => Bound(d, pat, 3)
    BY DEF Bound
  <2> QED
    BY <2>1, <2>2
<1>4. MaxHash \in Nat /\ \A t \in Term : Hash[t] \in 0 .. MaxHash
  BY HashAssumption
<1>5. v \in [1 .. 4 -> 0 .. MaxHash] /\ k \in [1 .. 4 -> 0 .. MaxHash]
  BY <1>2, <1>4 DEF StatementKey
<1>6. /\ MinKey(d, pat) = [i \in 1 .. 4 |-> IF B[i] THEN v[i] ELSE 0]
      /\ MaxKey(d, pat) = [i \in 1 .. 4 |-> IF B[i] THEN v[i] ELSE MaxHash]
  BY DEF MinKey, MaxKey, computeKey
<1>7. InRange(d, pat, x) <=> \A i \in 1 .. 4 : B[i] => k[i] = v[i]
  <2> HIDE DEF B, v, k
  <2>1. Leq(MinKey(d, pat), k) /\ Leq(k, MaxKey(d, pat)) <=> \A i \in 1 .. 4 : B[i] => k[i] = v[i]
    BY <1>3, <1>4, <1>5, <1>6, FilledRange
  <2> QED
    BY <2>1 DEF InRange, k
<1>8. \A i \in 1 .. 4 : Bound(d, pat, i) => (k[i] = v[i] <=> x[KeyOrder[d][i]] = pat[KeyOrder[d][i]])
  BY <1>2, HashInjective DEF StatementKey
<1> QED
  BY <1>7, <1>8

\* A scan of index d over the range of a pattern returns the statements that
\* agree with the pattern on the fields computeKey gets to, and no others.
THEOREM RangeIsPrefix ==
    ASSUME NEW d \in StmtDB, NEW pat \in Pattern, NEW x \in Statement
    PROVE  InRange(d, pat, x)
              <=> \A i \in 1 .. 4 : Bound(d, pat, i) => x[KeyOrder[d][i]] = pat[KeyOrder[d][i]]
  BY Components, RangeOfTerms

LEMMA TypeOfType ==
    ASSUME NEW pat
    PROVE  TypeOf(pat) \in StmtDB
BY DEF TypeOf, StmtDB

LEMMA MatchesOfTerms ==
    ASSUME NEW pat, NEW x \in Statement, matches(x, pat),
           \A f \in {"s", "p", "o", "c"} : pat[f] \in Term \cup {Unset}
    PROVE  InRange(TypeOf(pat), pat, x)
<1>1. TypeOf(pat) \in StmtDB
  BY TypeOfType
<1>2. \A i \in 1 .. 4 : Bound(TypeOf(pat), pat, i)
                           => x[KeyOrder[TypeOf(pat)][i]] = pat[KeyOrder[TypeOf(pat)][i]]
  BY <1>1, Orders DEF matches, Bound
<1> QED
  BY <1>1, <1>2, RangeOfTerms

\* GetStatements loses no result: a statement that matches a pattern is in the
\* key range of the index the pattern is answered from.
THEOREM MatchesInRange ==
    ASSUME NEW pat \in Pattern, NEW x \in Statement, matches(x, pat)
    PROVE  InRange(TypeOf(pat), pat, x)
  BY Components, MatchesOfTerms

LEMMA PrefixOfTerms ==
    ASSUME NEW pat, NEW x \in Statement, PrefixPattern(pat),
           \A f \in {"s", "p", "o", "c"} : pat[f] \in Term \cup {Unset},
           InRange(TypeOf(pat), pat, x)
    PROVE  matches(x, pat)
<1> DEFINE d == TypeOf(pat)
<1>1. d \in StmtDB
  BY TypeOfType
<1>2. ASSUME NEW f \in {"s", "p", "o", "c"}, pat[f] # Unset
      PROVE  x[f] = pat[f]
  <2>1. PICK i \in 1 .. 4 : KeyOrder[d][i] = f
    <3>1. CASE d = "spoc"
      BY <3>1 DEF KeyOrder
    <3>2. CASE d = "cspo"
      BY <3>2 DEF KeyOrder
    <3>3. CASE d = "opsc"
      BY <3>3 DEF KeyOrder
    <3>4. CASE d = "pcos"
      BY <3>4 DEF KeyOrder
    <3> QED
      BY <1>1, <3>1, <3>2, <3>3, <3>4 DEF StmtDB
  <2>2. Bound(d, pat, i)
    BY <1>1, <1>2, <2>1, Orders DEF PrefixPattern
  <2> QED
    BY <1>1, <1>2, <2>1, <2>2, RangeOfTerms
<1> QED
  BY <1>2 DEF matches

\* When the set fields of the pattern are a prefix of its index's order, the
\* scan returns exactly the statements that match.
THEOREM PrefixScanExact ==
    ASSUME NEW pat \in Pattern, NEW x \in Statement, PrefixPattern(pat)
    PROVE  InRange(TypeOf(pat), pat, x) <=> matches(x, pat)
  BY Components, MatchesInRange, PrefixOfTerms

-----------------------------------------------------------------------------
(* The iterator over an index *)

\* What the library's theorems say of sets of numbers and of finite sets.  Their
\* module is large and each step of a proof that sees it is slow: the lemmas take
\* what they need of it as an assumption, and the theorems at the end of a module
\* rest on SetFacts itself.
SetFacts ==
    /\ \A T \in SUBSET Nat : T # {} => \E m \in T : \A n \in T : m <= n
    /\ IsFiniteSet({}) /\ Cardinality({}) = 0
    /\ \A n \in Nat : IsFiniteSet(1 .. n)
    /\ \A S : IsFiniteSet(S) => Cardinality(S) \in Nat
    /\ \A S : IsFiniteSet(S) => \A T \in SUBSET S : IsFiniteSet(T)
    /\ \A S, x : IsFiniteSet(S) =>
          /\ IsFiniteSet(S \cup {x})
          /\ x \notin S => Cardinality(S \cup {x}) = Cardinality(S) + 1
    /\ \A S, T : IsFiniteSet(S) /\ IsFiniteSet(T) /\ S \cap T = {} =>
          /\ IsFiniteSet(S \cup T)
          /\ Cardinality(S \cup T) = Cardinality(S) + Cardinality(T)

\* A set of numbers that is not empty has a smallest one.
LEMMA Smallest ==
    ASSUME SetFacts, NEW T \in SUBSET Nat, T # {}
    PROVE  \E m \in T : \A n \in T : m <= n
BY ZenonT(30) DEF SetFacts

LEMMA EmptyFinite ==
    ASSUME SetFacts
    PROVE  IsFiniteSet({}) /\ Cardinality({}) = 0
BY ZenonT(30) DEF SetFacts

LEMMA IntervalFinite ==
    ASSUME SetFacts, NEW n \in Nat
    PROVE  IsFiniteSet(1 .. n)
BY ZenonT(30) DEF SetFacts

LEMMA CardinalityType ==
    ASSUME SetFacts, NEW S, IsFiniteSet(S)
    PROVE  Cardinality(S) \in Nat
BY ZenonT(30) DEF SetFacts

LEMMA SubsetFinite ==
    ASSUME SetFacts, NEW S, IsFiniteSet(S), NEW T \in SUBSET S
    PROVE  IsFiniteSet(T)
BY ZenonT(30) DEF SetFacts

LEMMA OneElementMore ==
    ASSUME SetFacts, NEW S, NEW x, IsFiniteSet(S)
    PROVE  /\ IsFiniteSet(S \cup {x})
           /\ x \notin S => Cardinality(S \cup {x}) = Cardinality(S) + 1
BY ZenonT(30) DEF SetFacts

LEMMA UnionFinite ==
    ASSUME SetFacts, NEW S, NEW T, IsFiniteSet(S), IsFiniteSet(T), S \cap T = {}
    PROVE  /\ IsFiniteSet(S \cup T)
           /\ Cardinality(S \cup T) = Cardinality(S) + Cardinality(T)
BY ZenonT(30) DEF SetFacts

\* Key is what the code compares with memcmp: an order on four blocks.
LEMMA KeyType ==
    ASSUME NEW d \in StmtDB, NEW x \in Statement
    PROVE  /\ StatementKey(d, x) \in [1 .. 4 -> 0 .. MaxHash]
           /\ StatementKey(d, x) \in [1 .. 4 -> Nat]
<1>1. \A i \in 1 .. 4 : x[KeyOrder[d][i]] \in Term
  BY Orders DEF Statement, Term
<1> QED
  BY <1>1, HashAssumption DEF StatementKey

LEMMA LessOrder ==
    ASSUME NEW j \in [1 .. 4 -> Nat], NEW k \in [1 .. 4 -> Nat], NEW l \in [1 .. 4 -> Nat]
    PROVE  /\ Less(j, k) /\ Less(k, l) => Less(j, l)
           /\ ~(Less(j, k) /\ Less(k, j))
           /\ ~Less(j, j)
           /\ j # k => Less(j, k) \/ Less(k, j)
<1>1. j # k => j[1] # k[1] \/ j[2] # k[2] \/ j[3] # k[3] \/ j[4] # k[4]
  <2>1. 1 .. 4 = {1, 2, 3, 4}
    OBVIOUS
  <2> QED
    BY <2>1
<1>2. \A i \in {1, 2, 3, 4} : j[i] \in Nat /\ k[i] \in Nat /\ l[i] \in Nat
  OBVIOUS
<1>3. Less(j, k) /\ Less(k, l) => Less(j, l)
  BY <1>2, LessUnrolled
<1>4. ~(Less(j, k) /\ Less(k, j)) /\ ~Less(j, j)
  BY <1>2, LessUnrolled
<1>5. j # k => Less(j, k) \/ Less(k, j)
  BY <1>1, <1>2, LessUnrolled
<1> QED
  BY <1>3, <1>4, <1>5

\* No two statements have the same key.
LEMMA KeyInjective ==
    ASSUME NEW d \in StmtDB, NEW x \in Statement, NEW y \in Statement,
           StatementKey(d, x) = StatementKey(d, y)
    PROVE  x = y
<1>1. \A i \in 1 .. 4 : x[KeyOrder[d][i]] \in Term /\ y[KeyOrder[d][i]] \in Term
  BY Orders DEF Statement, Term
<1>2. \A i \in 1 .. 4 : x[KeyOrder[d][i]] = y[KeyOrder[d][i]]
  <2> TAKE i \in 1 .. 4
  <2>1. StatementKey(d, x)[i] = StatementKey(d, y)[i]
    OBVIOUS
  <2> QED
    BY <1>1, <2>1, HashInjective, ZenonT(30) DEF StatementKey
<1>3. x.s = y.s /\ x.p = y.p /\ x.o = y.o /\ x.c = y.c
  <2>1. /\ x[KeyOrder[d][1]] = y[KeyOrder[d][1]] /\ x[KeyOrder[d][2]] = y[KeyOrder[d][2]]
        /\ x[KeyOrder[d][3]] = y[KeyOrder[d][3]] /\ x[KeyOrder[d][4]] = y[KeyOrder[d][4]]
    BY <1>2
  <2> QED
    BY <2>1 DEF StmtDB, KeyOrder
<1> QED
  BY <1>3 DEF Statement

\* Seek and Next always have an entry to stop at, unless none is left.
LEMMA LeastEntry ==
    ASSUME SetFacts, NEW d \in StmtDB, NEW T \in SUBSET Statement, T # {}
    PROVE  \E x \in T : \A y \in T : Leq(StatementKey(d, x), StatementKey(d, y))
<1> DEFINE k(x) == StatementKey(d, x)
<1>1. \A x \in Statement : k(x) \in [1 .. 4 -> Nat]
  BY KeyType
<1> HIDE DEF k
<1>2. ASSUME NEW S \in SUBSET T, S # {}, NEW i \in 1 .. 4
      PROVE  \E x \in S : \A y \in S : k(x)[i] <= k(y)[i]
  <2>1. {k(x)[i] : x \in S} \in SUBSET Nat /\ {k(x)[i] : x \in S} # {}
    BY <1>1, <1>2
  <2>2. PICK m \in {k(x)[i] : x \in S} : \A n \in {k(x)[i] : x \in S} : m <= n
    BY <2>1, Smallest, ZenonT(30)
  <2> QED
    BY <2>2
<1>3. PICK x1 \in T : \A y \in T : k(x1)[1] <= k(y)[1]
  <2>1. T \in SUBSET T /\ 1 \in 1 .. 4
    OBVIOUS
  <2> QED
    BY <1>2, <2>1
<1> DEFINE T1 == {y \in T : k(y)[1] = k(x1)[1]}
<1>4. PICK x2 \in T1 : \A y \in T1 : k(x2)[2] <= k(y)[2]
   <2>1. T1 \in SUBSET T /\ x1 \in T1 /\ 2 \in 1 .. 4
    BY <1>3
  <2> HIDE DEF T1
  <2> QED
    BY <1>2, <2>1, ZenonT(30)
<1> DEFINE T2 == {y \in T1 : k(y)[2] = k(x2)[2]}
<1>5. PICK x3 \in T2 : \A y \in T2 : k(x3)[3] <= k(y)[3]
   <2>1. T2 \in SUBSET T /\ x2 \in T2 /\ 3 \in 1 .. 4
    BY <1>4
  <2> HIDE DEF T2
  <2> QED
    BY <1>2, <2>1, ZenonT(30)
<1> DEFINE T3 == {y \in T2 : k(y)[3] = k(x3)[3]}
<1>6. PICK x4 \in T3 : \A y \in T3 : k(x4)[4] <= k(y)[4]
   <2>1. T3 \in SUBSET T /\ x3 \in T3 /\ 4 \in 1 .. 4
    BY <1>5
  <2> HIDE DEF T3
  <2> QED
    BY <1>2, <2>1, ZenonT(30)
<1>7. ASSUME NEW y \in T PROVE Leq(k(x4), k(y))
  <2>1. /\ k(x4) \in [1 .. 4 -> Nat] /\ k(y) \in [1 .. 4 -> Nat]
        /\ k(x4)[1] \in Nat /\ k(x4)[2] \in Nat /\ k(x4)[3] \in Nat /\ k(x4)[4] \in Nat
        /\ k(y)[1] \in Nat /\ k(y)[2] \in Nat /\ k(y)[3] \in Nat /\ k(y)[4] \in Nat
    BY <1>1, <1>6
  <2>2. /\ k(x4)[1] <= k(y)[1]
        /\ k(x4)[1] = k(y)[1] => k(x4)[2] <= k(y)[2]
        /\ k(x4)[1] = k(y)[1] /\ k(x4)[2] = k(y)[2] => k(x4)[3] <= k(y)[3]
        /\ k(x4)[1] = k(y)[1] /\ k(x4)[2] = k(y)[2] /\ k(x4)[3] = k(y)[3] => k(x4)[4] <= k(y)[4]
    BY <1>3, <1>4, <1>5, <1>6
  <2>3. ~Less(k(y), k(x4))
    BY <2>1, <2>2, LessUnrolled
  <2> QED
    BY <2>1, <2>3, LessOrder DEF Leq
<1> QED
  BY <1>6, <1>7 DEF k

LEMMA FirstIsLeast ==
    ASSUME SetFacts, NEW d \in StmtDB, NEW T \in SUBSET Statement, T # {}
    PROVE  /\ First(d, T) \in T
           /\ \A y \in T : Leq(StatementKey(d, First(d, T)), StatementKey(d, y))
<1>1. \E x \in T : \A y \in T : Leq(StatementKey(d, x), StatementKey(d, y))
  BY LeastEntry
<1> QED
  BY <1>1, ZenonT(30) DEF First
=============================================================================
