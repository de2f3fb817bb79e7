----------------------------- MODULE DAGProofs ------------------------------
(***************************************************************************)
(* Facts about fan-out lists, sequences and naturals that the proofs of    *)
(* several components share.                                               *)
(***************************************************************************)
EXTENDS DAG, FiniteSetTheorems, WellFoundedInduction, TLAPS

\* Appending to a sequence adds one element to its range and keeps the
\* others in place.
LEMMA RangeOfAppend ==
    ASSUME NEW S, NEW s \in Seq(S), NEW e \in S
    PROVE  /\ Append(s, e) \in Seq(S)
           /\ Range(Append(s, e)) = Range(s) \cup {e}
           /\ DOMAIN Append(s, e) = 1 .. (Len(s) + 1)
           /\ \A p \in 1 .. Len(s) : Append(s, e)[p] = s[p]
           /\ Append(s, e)[Len(s) + 1] = e
  <1>1. /\ Append(s, e) \in Seq(S)
        /\ Len(s) \in Nat
        /\ DOMAIN s = 1 .. Len(s)
        /\ DOMAIN Append(s, e) = 1 .. (Len(s) + 1)
        /\ \A p \in 1 .. Len(s) : Append(s, e)[p] = s[p]
        /\ Append(s, e)[Len(s) + 1] = e
    OBVIOUS
  <1>2. Range(Append(s, e)) = Range(s) \cup {e}
    BY <1>1 DEF Range
  <1> QED BY <1>1, <1>2

\* A send of a node that is not in the channel keeps its content distinct.
LEMMA AppendDistinct ==
    ASSUME NEW S, NEW s \in Seq(S), NEW e \in S, NoDuplicates(s), e \notin Range(s)
    PROVE  NoDuplicates(Append(s, e))
  <1>1. \A p \in 1 .. Len(s) : s[p] # e
    BY DEF Range
  <1> QED BY <1>1, RangeOfAppend DEF NoDuplicates

\* A receive takes the head and leaves the rest, still distinct.
LEMMA TailDistinct ==
    ASSUME NEW S, NEW s \in Seq(S), s # << >>, NoDuplicates(s)
    PROVE  /\ Head(s) \in Range(s) /\ Head(s) \in S
           /\ Tail(s) \in Seq(S)
           /\ Range(Tail(s)) = Range(s) \ {Head(s)}
           /\ NoDuplicates(Tail(s))
  <1>1. /\ Len(s) \in Nat /\ Len(s) >= 1 /\ DOMAIN s = 1 .. Len(s)
        /\ Head(s) = s[1] /\ 1 \in DOMAIN s
        /\ Tail(s) \in Seq(S)
        /\ DOMAIN Tail(s) = 1 .. (Len(s) - 1)
        /\ \A p \in 1 .. (Len(s) - 1) : Tail(s)[p] = s[p + 1]
    OBVIOUS
  <1>2. Head(s) \in Range(s) /\ Head(s) \in S
    BY <1>1 DEF Range
  <1>3. NoDuplicates(Tail(s))
    BY <1>1 DEF NoDuplicates
  <1>4. ASSUME NEW x \in Range(Tail(s)) PROVE x \in Range(s) \ {Head(s)}
    BY <1>1, <1>4 DEF Range, NoDuplicates
  <1>5. ASSUME NEW x \in Range(s) \ {Head(s)} PROVE x \in Range(Tail(s))
    <2>1. PICK p \in DOMAIN s : x = s[p]
      BY DEF Range
    <2>2. p - 1 \in 1 .. (Len(s) - 1) /\ Tail(s)[p - 1] = x
      BY <1>1, <1>5, <2>1
    <2> QED BY <1>1, <2>2 DEF Range
  <1> QED BY <1>1, <1>2, <1>3, <1>4, <1>5

\* A sequence without duplicates is as long as its range is large.
LEMMA DistinctLength ==
    ASSUME NEW S, NEW s \in Seq(S), NoDuplicates(s)
    PROVE  IsFiniteSet(Range(s)) /\ Cardinality(Range(s)) = Len(s)
  <1>1. Len(s) \in Nat /\ DOMAIN s = 1 .. Len(s)
    OBVIOUS
  <1>2. s \in Bijection(1 .. Len(s), Range(s))
    BY <1>1 DEF NoDuplicates, Range, Bijection, Injection, Surjection, IsInjective
  <1>3. ExistsBijection(1 .. Len(s), Range(s))
    BY <1>2 DEF ExistsBijection
  <1> QED BY <1>1, <1>3, FS_Bijection, FS_Interval

\* Every nonempty set of naturals has a least element.
LEMMA LeastNatural ==
    ASSUME NEW T \in SUBSET Nat, T # {}
    PROVE  \E x \in T : \A y \in T : x <= y
  <1>1. \E x \in T : \A y \in T : ~(<<y, x>> \in OpToRel(<, Nat))
    BY WFMin, NatLessThanWellFounded
  <1>2. \A x, y \in Nat : y < x => <<y, x>> \in OpToRel(<, Nat)
    BY DEF OpToRel
  <1>3. \E R : /\ \E x \in T : \A y \in T : ~(<<y, x>> \in R)
               /\ \A x, y \in Nat : y < x => <<y, x>> \in R
    BY <1>1, <1>2, Zenon
  <1>4. \E x \in T : \A y \in T : ~(y < x)
    BY <1>3
  <1> QED BY <1>4

\* A nonempty set of naturals up to a bound has a greatest element: the
\* distances of its elements to the bound have a least one.
LEMMA GreatestNatural ==
    ASSUME NEW n \in Nat, NEW S \in SUBSET (1 .. n), S # {}
    PROVE  \E x \in S : \A y \in S : y <= x
  <1> DEFINE T == {d \in Nat : \E x \in S : d = n - x}
  <1>1. T \in SUBSET Nat /\ T # {}
    <2>1. PICK x \in S : TRUE
      OBVIOUS
    <2>2. n - x \in Nat
      OBVIOUS
    <2> QED BY <2>2
  <1>2. PICK t \in T : \A u \in T : t <= u
    <2> HIDE DEF T
    <2> QED BY <1>1, LeastNatural
  <1>3. PICK x \in S : t = n - x
    BY <1>2
  <1>4. ASSUME NEW y \in S PROVE y <= x
    <2>1. n - y \in T
      OBVIOUS
    <2> QED BY <2>1, <1>2, <1>3
  <1> QED BY <1>4
=============================================================================
