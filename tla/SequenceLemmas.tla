--------------------------- MODULE SequenceLemmas ---------------------------
(***************************************************************************)
(* Facts about numbers and sequences that the proofs of several components *)
(* rest on.  Induction is used in the form that a set of natural numbers   *)
(* that is not empty has a least element: the set of the counterexamples.  *)
(***************************************************************************)
EXTENDS Integers, Sequences, FiniteSets, FiniteSetTheorems, SequenceTheorems,
        WellFoundedInduction, TLAPS

-----------------------------------------------------------------------------
(* Induction and recursion.                                                *)

\* A set of natural numbers that is not empty has a least element.
LEMMA LeastElement ==
    ASSUME NEW T \in SUBSET Nat, T # {}
    PROVE  \E x \in T : \A y \in T : x <= y
<1>1. IsWellFoundedOn(OpToRel(<, Nat), Nat)
  BY NatLessThanWellFounded
<1>2. PICK x \in T : \A y \in T : ~(<<y, x>> \in OpToRel(<, Nat))
  BY <1>1, WFMin
<1>3. \A y \in T : ~(y < x)
  BY <1>2 DEF OpToRel
<1> QED
  BY <1>3

\* Counting up from the front, the elements of S come to an end somewhere.
LEMMA LongestPrefix ==
    ASSUME NEW n \in Nat, NEW S
    PROVE  \E k \in 0..n : (\A i \in 1..k : i \in S) /\ (k < n => k + 1 \notin S)
<1> DEFINE T == {i \in 1..n : i \notin S}
<1>1. CASE T = {}
  BY <1>1
<1>2. CASE T # {}
  <2>0. T \in SUBSET Nat
    OBVIOUS
  <2>1. PICK x \in T : \A y \in T : x <= y
    <3> HIDE DEF T
    <3> QED
      BY <2>0, <1>2, LeastElement
  <2>2. x - 1 \in 0..n /\ \A i \in 1..(x - 1) : i \in S
    BY <2>1
  <2> QED
    BY <2>1, <2>2
<1> QED
  BY <1>1, <1>2

\* The functions on 0..n given by their value at 0, and by g each value from the
\* one before.
Steps(n, T) == [(1..n) \X T -> T]
Recursion(n, T, a, g) ==
    {f \in [0..n -> T] : f[0] = a /\ \A i \in 1..n : f[i] = g[<<i, f[i - 1]>>]}

\* There is one.
LEMMA RecursionExists ==
    ASSUME NEW n \in Nat, NEW T, NEW a \in T, NEW g \in Steps(n, T)
    PROVE  Recursion(n, T, a, g) # {}
<1> DEFINE
      Upto(k) == \E f \in [0..k -> T] : f[0] = a /\ \A i \in 1..k : f[i] = g[<<i, f[i - 1]>>]
      Bad == {k \in 0..n : ~Upto(k)}
<1> USE DEF Steps
<1> SUFFICES Upto(n)
  BY DEF Recursion
<1> HIDE DEF Upto
<1> SUFFICES ASSUME Bad # {} PROVE FALSE
  OBVIOUS
<1>1. PICK k \in Bad : \A j \in Bad : k <= j
  <2>1. Bad \in SUBSET Nat
    OBVIOUS
  <2> HIDE DEF Bad
  <2> QED
    BY <2>1, LeastElement
<1>2. Upto(0)
  <2>1. [i \in 0..0 |-> a] \in [0..0 -> T]
    OBVIOUS
  <2> DEFINE e == [i \in 0..0 |-> a]
  <2>2. e[0] = a /\ \A i \in 1..0 : e[i] = g[<<i, e[i - 1]>>]
    OBVIOUS
  <2> QED
    BY <2>1, <2>2 DEF Upto
<1>3. k - 1 \in 0..n /\ Upto(k - 1) /\ k \in 1..n
  <2>1. k \in 0..n /\ k # 0
    BY <1>1, <1>2
  <2>2. k - 1 \in 0..n /\ ~(k <= k - 1)
    BY <2>1
  <2> QED
    BY <1>1, <2>1, <2>2
<1>4. PICK f \in [0..(k - 1) -> T] :
        f[0] = a /\ \A i \in 1..(k - 1) : f[i] = g[<<i, f[i - 1]>>]
  BY <1>3 DEF Upto
<1> DEFINE h == [i \in 0..k |-> IF i = k THEN g[<<k, f[k - 1]>>] ELSE f[i]]
<1>5. h \in [0..k -> T]
  <2>1. f[k - 1] \in T
    BY <1>3, <1>4
  <2>2. g[<<k, f[k - 1]>>] \in T
    BY <2>1, <1>3
  <2>3. \A i \in 0..k : i # k => i \in 0..(k - 1)
    BY <1>3
  <2> QED
    BY <2>2, <2>3, <1>4
<1>6. h[0] = a
  BY <1>3, <1>4
<1>7. \A i \in 1..k : h[i] = g[<<i, h[i - 1]>>]
  <2> SUFFICES ASSUME NEW i \in 1..k PROVE h[i] = g[<<i, h[i - 1]>>]
    OBVIOUS
  <2>1. h[i - 1] = f[i - 1]
    BY <1>3
  <2>2. CASE i = k
    <3>1. h[i] = g[<<i, f[i - 1]>>]
      BY <2>2, <1>3
    <3> QED
      BY <2>1, <3>1
  <2>3. CASE i # k
    <3>1. i \in 1..(k - 1) /\ h[i] = f[i]
      BY <2>3, <1>3
    <3> QED
      BY <2>1, <3>1, <1>4
  <2> QED
    BY <2>2, <2>3
<1> HIDE DEF h
<1>8. Upto(k)
  BY <1>5, <1>6, <1>7 DEF Upto
<1> QED
  BY <1>1, <1>8

-----------------------------------------------------------------------------
(* Counting the later elements of a sequence of times.                     *)

\* The positions of the times after x.
After(s, x) == {i \in DOMAIN s : s[i] > x}

HowMany(s, x) == Cardinality(After(s, x))

\* Any set of positions of a sequence is finite.
LEMMA PositionsFinite ==
    ASSUME NEW X, NEW s \in Seq(X), NEW I \in SUBSET DOMAIN s
    PROVE  IsFiniteSet(I) /\ Cardinality(I) \in Nat
<1>1. DOMAIN s = 1..Len(s) /\ Len(s) \in Nat
  OBVIOUS
<1>2. IsFiniteSet(1..Len(s))
  BY <1>1, FS_Interval
<1>3. IsFiniteSet(I)
  BY <1>1, <1>2, FS_Subset
<1> QED
  BY <1>3, FS_CardinalityType

LEMMA HowManyType ==
    ASSUME NEW s \in Seq(Int), NEW x \in Int
    PROVE  IsFiniteSet(After(s, x)) /\ HowMany(s, x) \in Nat
BY PositionsFinite DEF After, HowMany

\* A time that is added counts if it is after x, and no other does.
LEMMA HowManyAppended ==
    ASSUME NEW s \in Seq(Int), NEW v \in Int, NEW x \in Int
    PROVE  HowMany(Append(s, v), x) = HowMany(s, x) + (IF v > x THEN 1 ELSE 0)
<1>1. /\ Append(s, v) \in Seq(Int) /\ Len(s) \in Nat
      /\ DOMAIN Append(s, v) = 1..(Len(s) + 1) /\ DOMAIN s = 1..Len(s)
      /\ Append(s, v)[Len(s) + 1] = v
      /\ \A i \in 1..Len(s) : Append(s, v)[i] = s[i]
  BY AppendProperties
<1>2. IsFiniteSet(After(s, x)) /\ Cardinality(After(s, x)) \in Nat
  BY HowManyType DEF HowMany
<1>3. Len(s) + 1 \notin After(s, x)
  BY <1>1 DEF After
<1>4. CASE v > x
  <2>1. After(Append(s, v), x) = After(s, x) \cup {Len(s) + 1}
    BY <1>1, <1>4 DEF After
  <2>2. Cardinality(After(s, x) \cup {Len(s) + 1}) = Cardinality(After(s, x)) + 1
    BY <1>2, <1>3, FS_AddElement
  <2> QED
    BY <2>1, <2>2, <1>4 DEF HowMany
<1>5. CASE ~(v > x)
  <2>1. After(Append(s, v), x) = After(s, x)
    BY <1>1, <1>5 DEF After
  <2> QED
    BY <2>1, <1>2, <1>5 DEF HowMany
<1> QED
  BY <1>4, <1>5

\* The later the time, the fewer are after it.
LEMMA HowManyFewer ==
    ASSUME NEW s \in Seq(Int), NEW x \in Int, NEW y \in Int, x <= y
    PROVE  HowMany(s, y) <= HowMany(s, x)
<1>1. After(s, y) \subseteq After(s, x)
  BY ElementOfSeq DEF After
<1> QED
  BY <1>1, HowManyType, FS_Subset DEF HowMany

\* A smaller set of positions counts no more.
LEMMA HowManyOf ==
    ASSUME NEW s \in Seq(Int), NEW x \in Int, NEW I \in SUBSET After(s, x)
    PROVE  Cardinality(I) \in Nat /\ Cardinality(I) <= HowMany(s, x)
BY HowManyType, FS_Subset, FS_CardinalityType DEF HowMany

\* No time of the sequence is to come.
NoneAfter(s, now) == \A i \in DOMAIN s : s[i] <= now

LastIsLatest(s) == \A i \in DOMAIN s : s[i] <= s[Len(s)]

LEMMA NowAppended ==
    ASSUME NEW s \in Seq(Int), NEW now \in Int, NoneAfter(s, now)
    PROVE  NoneAfter(Append(s, now), now) /\ LastIsLatest(Append(s, now))
<1>1. /\ Len(s) \in Nat /\ Len(Append(s, now)) = Len(s) + 1
      /\ DOMAIN Append(s, now) = 1..(Len(s) + 1) /\ DOMAIN s = 1..Len(s)
      /\ Append(s, now)[Len(s) + 1] = now
      /\ \A i \in 1..Len(s) : Append(s, now)[i] = s[i]
  BY AppendProperties
<1>2. \A i \in 1..Len(s) : s[i] <= now
  BY <1>1 DEF NoneAfter
<1>3. ASSUME NEW i \in 1..(Len(s) + 1) PROVE Append(s, now)[i] <= now
  BY <1>1, <1>2
<1> QED
  BY <1>1, <1>3 DEF NoneAfter, LastIsLatest

LEMMA NoneAfterLater ==
    ASSUME NEW s \in Seq(Int), NEW now \in Int, NEW later \in Int, now <= later,
           NoneAfter(s, now)
    PROVE  NoneAfter(s, later)
<1>1. \A i \in DOMAIN s : s[i] \in Int
  OBVIOUS
<1> QED
  BY <1>1 DEF NoneAfter

=============================================================================
