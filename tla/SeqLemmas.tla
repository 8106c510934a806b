------------------------------ MODULE SeqLemmas ------------------------------
(***************************************************************************)
(* Facts about sequences without repetition, the form in which the crawl   *)
(* frontier is kept: what taking the head, removing one element, appending *)
(* and cutting off a prefix do to the set of elements.                     *)
(*                                                                         *)
(* And induction over data.  The numbers are well ordered (WFMin), so what *)
(* holds of some number holds of a least one; a recursion over the subsets *)
(* of a finite set therefore has a solution, and the folds of the          *)
(* community modules, which are defined as such a recursion, compute what  *)
(* their steps say.                                                        *)
(***************************************************************************)
EXTENDS Integers, FiniteSets, SequencesExt, SequenceTheorems, FiniteSetTheorems,
  WellFoundedInduction, TLAPS

(* An element of a sequence, by its index.                                 *)
LEMMA RangeDef ==
  ASSUME NEW S, NEW q \in Seq(S)
  PROVE  /\ Range(q) = {q[i] : i \in 1..Len(q)}
         /\ Range(q) \subseteq S
         /\ DOMAIN q = 1..Len(q)
         /\ Len(q) \in Nat
BY LenProperties, ElementOfSeq DEF Range

(* The empty sequence has no element and no repetition.                    *)
LEMMA EmptyRange ==
  ASSUME NEW S
  PROVE  /\ <<>> \in Seq(S)
         /\ Range(<<>>) = {}
         /\ IsInjective(<<>>)
         /\ \A q \in Seq(S) : Range(q) = {} => q = <<>>
<1>1. <<>> \in Seq(S) /\ Len(<<>>) = 0
  BY EmptySeq
<1>2. Range(<<>>) = {}
  <2>1. DOMAIN <<>> = 1..0
    BY <1>1, LenProperties
  <2>2. 1..0 = {}
    OBVIOUS
  <2> QED BY <2>1, <2>2 DEF Range
<1>3. IsInjective(<<>>)
  BY <1>1, RangeDef DEF IsInjective
<1>4. ASSUME NEW q \in Seq(S), Range(q) = {} PROVE q = <<>>
  <2>1. Len(q) \in Nat /\ (q # <<>> => Len(q) > 0)
    BY EmptySeq, LenProperties
  <2>2. q # <<>> => q[1] \in Range(q)
    BY <2>1, RangeDef
  <2> QED BY <2>2, <1>4
<1> QED BY <1>1, <1>2, <1>3, <1>4

(* Taking the head moves exactly one element out of the sequence.          *)
LEMMA TailRange ==
  ASSUME NEW S, NEW q \in Seq(S), q # <<>>, IsInjective(q)
  PROVE  /\ Tail(q) \in Seq(S)
         /\ Head(q) \in Range(q)
         /\ Range(Tail(q)) = Range(q) \ {Head(q)}
         /\ IsInjective(Tail(q))
<1>1. /\ Len(q) \in Nat /\ Len(q) > 0
      /\ DOMAIN q = 1..Len(q)
      /\ Head(q) = q[1]
      /\ Tail(q) \in Seq(S)
      /\ Len(Tail(q)) = Len(q) - 1
      /\ \A i \in 1..Len(Tail(q)) : Tail(q)[i] = q[i + 1]
  BY HeadTailProperties, LenProperties, EmptySeq
<1>2. Range(q) = {q[i] : i \in 1..Len(q)}
  BY RangeDef
<1>3. /\ Range(Tail(q)) = {Tail(q)[i] : i \in 1..Len(Tail(q))}
      /\ DOMAIN Tail(q) = 1..Len(Tail(q))
  BY <1>1, RangeDef
<1>4. ASSUME NEW x PROVE x \in Range(Tail(q)) <=> x \in Range(q) \ {Head(q)}
  <2>1. CASE x \in Range(Tail(q))
    <3>1. PICK i \in 1..Len(Tail(q)) : x = Tail(q)[i]
      BY <2>1, <1>3
    <3>2. i + 1 \in 1..Len(q) /\ x = q[i + 1] /\ i + 1 # 1
      BY <1>1, <3>1
    <3>3. x # q[1]
      BY <3>2, <1>1 DEF IsInjective
    <3> QED BY <2>1, <3>2, <3>3, <1>1, <1>2
  <2>2. CASE x \in Range(q) \ {Head(q)}
    <3>1. PICK j \in 1..Len(q) : x = q[j]
      BY <2>2, <1>2
    <3>2. j # 1
      BY <2>2, <3>1, <1>1
    <3>3. j - 1 \in 1..Len(Tail(q)) /\ Tail(q)[j - 1] = x
      BY <3>1, <3>2, <1>1
    <3> QED BY <2>2, <3>3, <1>3
  <2> QED BY <2>1, <2>2
<1>5. IsInjective(Tail(q))
  <2>1. SUFFICES ASSUME NEW i \in 1..Len(Tail(q)), NEW j \in 1..Len(Tail(q)),
                        Tail(q)[i] = Tail(q)[j]
                 PROVE  i = j
    BY <1>3 DEF IsInjective
  <2>2. i + 1 \in 1..Len(q) /\ j + 1 \in 1..Len(q) /\ q[i + 1] = q[j + 1]
    BY <1>1, <2>1
  <2>3. i + 1 = j + 1
    BY <2>2, <1>1 DEF IsInjective
  <2> QED BY <2>3, <1>1
<1> QED BY <1>1, <1>2, <1>4, <1>5

(* Appending new elements adds them and repeats nothing.                   *)
LEMMA ConcatRange ==
  ASSUME NEW S, NEW q \in Seq(S), NEW r \in Seq(S)
  PROVE  /\ q \o r \in Seq(S)
         /\ Range(q \o r) = Range(q) \cup Range(r)
         /\ (IsInjective(q) /\ IsInjective(r) /\ Range(q) \cap Range(r) = {})
              => IsInjective(q \o r)
<1>1. /\ q \o r \in Seq(S)
      /\ Len(q \o r) = Len(q) + Len(r)
      /\ \A i \in 1..Len(q) + Len(r) :
           (q \o r)[i] = IF i <= Len(q) THEN q[i] ELSE r[i - Len(q)]
  BY ConcatProperties
<1>2. /\ Len(q) \in Nat /\ Len(r) \in Nat
      /\ DOMAIN q = 1..Len(q) /\ DOMAIN r = 1..Len(r)
      /\ DOMAIN (q \o r) = 1..Len(q) + Len(r)
      /\ Range(q) = {q[i] : i \in 1..Len(q)}
      /\ Range(r) = {r[i] : i \in 1..Len(r)}
      /\ Range(q \o r) = {(q \o r)[i] : i \in 1..Len(q) + Len(r)}
  BY <1>1, RangeDef
<1>3. ASSUME NEW x PROVE x \in Range(q \o r) <=> x \in Range(q) \cup Range(r)
  <2>1. CASE x \in Range(q \o r)
    <3>1. PICK i \in 1..Len(q) + Len(r) : x = (q \o r)[i]
      BY <2>1, <1>2
    <3>2. CASE i <= Len(q)
      BY <3>1, <3>2, <1>1, <1>2
    <3>3. CASE i > Len(q)
      <4>1. i - Len(q) \in 1..Len(r) /\ x = r[i - Len(q)]
        BY <3>1, <3>3, <1>1, <1>2
      <4> QED BY <4>1, <1>2, <2>1
    <3> QED BY <3>2, <3>3, <1>2
  <2>2. CASE x \in Range(q)
    <3>1. PICK i \in 1..Len(q) : x = q[i]
      BY <2>2, <1>2
    <3>2. i \in 1..Len(q) + Len(r) /\ (q \o r)[i] = x
      BY <3>1, <1>1, <1>2
    <3> QED BY <3>2, <1>2, <2>2
  <2>3. CASE x \in Range(r)
    <3>1. PICK i \in 1..Len(r) : x = r[i]
      BY <2>3, <1>2
    <3>2. i + Len(q) \in 1..Len(q) + Len(r) /\ (q \o r)[i + Len(q)] = x
      BY <3>1, <1>1, <1>2
    <3> QED BY <3>2, <1>2, <2>3
  <2> QED BY <2>1, <2>2, <2>3
<1>4. ASSUME IsInjective(q), IsInjective(r), Range(q) \cap Range(r) = {}
      PROVE  IsInjective(q \o r)
  <2>1. SUFFICES ASSUME NEW i \in 1..Len(q) + Len(r),
                        NEW j \in 1..Len(q) + Len(r),
                        (q \o r)[i] = (q \o r)[j], i <= j
                 PROVE  i = j
    <3>1. \A i, j \in 1..Len(q) + Len(r) : i <= j \/ j <= i
      BY <1>2
    <3> QED BY <2>1, <3>1, <1>2 DEF IsInjective
  <2>2. CASE j <= Len(q)
    <3>1. i \in 1..Len(q) /\ j \in 1..Len(q) /\ q[i] = q[j]
      BY <2>1, <2>2, <1>1, <1>2
    <3> QED BY <3>1, <1>2, <1>4 DEF IsInjective
  <2>3. CASE i > Len(q)
    <3>1. /\ i - Len(q) \in 1..Len(r) /\ j - Len(q) \in 1..Len(r)
          /\ r[i - Len(q)] = r[j - Len(q)]
      BY <2>1, <2>3, <1>1, <1>2
    <3>2. i - Len(q) = j - Len(q)
      BY <3>1, <1>2, <1>4 DEF IsInjective
    <3> QED BY <3>2, <1>2
  <2>4. CASE i <= Len(q) /\ j > Len(q)
    <3>1. /\ i \in 1..Len(q) /\ j - Len(q) \in 1..Len(r)
          /\ q[i] = r[j - Len(q)]
      BY <2>1, <2>4, <1>1, <1>2
    <3>2. q[i] \in Range(q) \cap Range(r)
      BY <3>1, <1>2
    <3> QED BY <3>2, <1>4
  <2> QED BY <2>2, <2>3, <2>4, <1>2
<1> QED BY <1>1, <1>3, <1>4
(* Cutting a prefix off leaves the elements of the rest.                   *)
LEMMA SuffixRange ==
  ASSUME NEW S, NEW q \in Seq(S), NEW n \in 0..Len(q)
  PROVE  /\ SubSeq(q, n + 1, Len(q)) \in Seq(S)
         /\ Range(SubSeq(q, n + 1, Len(q))) = {q[i] : i \in n + 1..Len(q)}
         /\ Range(SubSeq(q, n + 1, Len(q))) \subseteq Range(q)
         /\ IsInjective(q) => IsInjective(SubSeq(q, n + 1, Len(q)))
         /\ n = Len(q) => SubSeq(q, n + 1, Len(q)) = <<>>
<1> DEFINE m == Len(q)
           t == SubSeq(q, n + 1, m)
<1>1. /\ m \in Nat /\ n \in Nat /\ n <= m
      /\ DOMAIN q = 1..m
      /\ Range(q) = {q[i] : i \in 1..m}
      /\ \A i \in 1..m : q[i] \in S
  BY RangeDef, ElementOfSeq
<1>2. \A i \in n + 1..m : q[i] \in S
  BY <1>1
<1>3. /\ t \in Seq(S)
      /\ Len(t) = m - n
      /\ \A i \in 1..m - n : t[i] = q[n + i]
  <2> HIDE DEF m
  <2>1. /\ t \in Seq(S)
        /\ Len(t) = IF n + 1 <= m THEN m - (n + 1) + 1 ELSE 0
        /\ \A i \in 1..m - (n + 1) + 1 : t[i] = q[n + 1 + i - 1]
    BY <1>1, <1>2, SubSeqProperties
  <2> HIDE DEF t
  <2>2. m - (n + 1) + 1 = m - n /\ \A i \in 1..m - n : n + 1 + i - 1 = n + i
    BY <1>1
  <2> QED BY <2>1, <2>2, <1>1
<1> HIDE DEF m, t
<1>4. Range(t) = {t[i] : i \in 1..m - n} /\ DOMAIN t = 1..m - n
  BY <1>3, RangeDef
<1>5. Range(t) = {q[i] : i \in n + 1..m}
  <2>1. ASSUME NEW i \in 1..m - n PROVE n + i \in n + 1..m /\ t[i] = q[n + i]
    BY <1>1, <1>3
  <2>2. ASSUME NEW i \in n + 1..m PROVE i - n \in 1..m - n /\ t[i - n] = q[i]
    <3>1. i - n \in 1..m - n /\ n + (i - n) = i
      BY <1>1
    <3> QED BY <3>1, <1>3
  <2> QED BY <2>1, <2>2, <1>4
<1>6. Range(t) \subseteq Range(q)
  BY <1>5, <1>1
<1>7. ASSUME IsInjective(q) PROVE IsInjective(t)
  <2>1. SUFFICES ASSUME NEW i \in 1..m - n, NEW j \in 1..m - n, t[i] = t[j]
                 PROVE  i = j
    BY <1>4 DEF IsInjective
  <2>2. n + i \in 1..m /\ n + j \in 1..m /\ q[n + i] = q[n + j]
    BY <2>1, <1>1, <1>3
  <2>3. n + i = n + j
    BY <2>2, <1>1, <1>7 DEF IsInjective
  <2> QED BY <2>3, <1>1
<1>8. n = m => t = <<>>
  BY <1>1, <1>3, EmptySeq
<1> QED BY <1>3, <1>5, <1>6, <1>7, <1>8 DEF m, t

(* What is appended belongs to every suffix that starts before it.         *)
LEMMA SuffixOfConcat ==
  ASSUME NEW S, NEW q \in Seq(S), NEW r \in Seq(S), NEW n \in 0..Len(q)
  PROVE  /\ n \in 0..Len(q \o r)
         /\ Range(SubSeq(q \o r, n + 1, Len(q \o r)))
              = Range(SubSeq(q, n + 1, Len(q))) \cup Range(r)
<1> DEFINE k == Len(q)
           l == Len(r)
           c == q \o r
<1>1. /\ c \in Seq(S)
      /\ Len(c) = k + l
      /\ \A i \in 1..k + l : c[i] = IF i <= k THEN q[i] ELSE r[i - k]
  BY ConcatProperties
<1>2. k \in Nat /\ l \in Nat /\ n \in Nat /\ n <= k
  BY RangeDef
<1>3. Range(r) = {r[i] : i \in 1..l}
  BY RangeDef
<1>4. Range(SubSeq(q, n + 1, k)) = {q[i] : i \in n + 1..k}
  BY SuffixRange
<1> HIDE DEF c
<1>5. n \in 0..Len(c)
  BY <1>1, <1>2
<1> HIDE DEF k, l
<1>6. Range(SubSeq(c, n + 1, Len(c))) = {c[i] : i \in n + 1..k + l}
  <2>1. Range(SubSeq(c, n + 1, Len(c))) = {c[i] : i \in n + 1..Len(c)}
    BY <1>1, <1>5, SuffixRange
  <2> QED BY <2>1, <1>1
<1>7. {c[i] : i \in n + 1..k + l} = {q[i] : i \in n + 1..k} \cup {r[i] : i \in 1..l}
  <2>1. ASSUME NEW i \in n + 1..k PROVE i \in n + 1..k + l /\ c[i] = q[i]
    BY <1>1, <1>2
  <2>2. ASSUME NEW i \in 1..l PROVE i + k \in n + 1..k + l /\ c[i + k] = r[i]
    <3>1. PICK j \in Int : j = i + k
      BY <1>2
    <3>2. j \in 1..k + l /\ j \in n + 1..k + l /\ ~(j <= k) /\ j - k = i
      BY <3>1, <1>2
    <3>3. c[j] = r[i]
      BY <3>2, <1>1
    <3> QED BY <3>1, <3>2, <3>3
  <2>3. ASSUME NEW i \in n + 1..k + l
        PROVE  \/ i \in n + 1..k /\ c[i] = q[i]
               \/ i - k \in 1..l /\ c[i] = r[i - k]
    <3>1. i \in 1..k + l /\ (i <= k => i \in n + 1..k)
          /\ (~(i <= k) => i - k \in 1..l)
      BY <1>2
    <3> QED BY <3>1, <1>1
  <2> QED BY <2>1, <2>2, <2>3, SMTT(30)
<1> QED BY <1>3, <1>4, <1>5, <1>6, <1>7 DEF k, l, c

(* Removing the one occurrence of an element removes nothing else.         *)
LEMMA RemoveAtRange ==
  ASSUME NEW S, NEW q \in Seq(S), IsInjective(q), NEW k \in 1..Len(q)
  PROVE  /\ RemoveAt(q, k) \in Seq(S)
         /\ Range(RemoveAt(q, k)) = Range(q) \ {q[k]}
         /\ IsInjective(RemoveAt(q, k))
<1> DEFINE n == Len(q)
           a == SubSeq(q, 1, k - 1)
           b == SubSeq(q, k + 1, n)
<1>1. /\ n \in Nat /\ k \in 1..n
      /\ DOMAIN q = 1..n
      /\ Range(q) = {q[i] : i \in 1..n}
      /\ \A i \in 1..n : q[i] \in S
  BY RangeDef, ElementOfSeq
<1>2. /\ a \in Seq(S)
      /\ Len(a) = k - 1
      /\ \A i \in 1..k - 1 : a[i] = q[i]
  <2>1. \A i \in 1..k - 1 : q[i] \in S
    BY <1>1
  <2>2. k - 1 \in Int /\ 1 \in Int
    BY <1>1
  <2>3. /\ a \in Seq(S)
        /\ Len(a) = IF 1 <= k - 1 THEN k - 1 - 1 + 1 ELSE 0
        /\ \A i \in 1..k - 1 - 1 + 1 : a[i] = q[1 + i - 1]
    BY <2>1, <2>2, SubSeqProperties
  <2> HIDE DEF a, n
  <2>4. k - 1 - 1 + 1 = k - 1 /\ \A i \in 1..k - 1 : 1 + i - 1 = i
    BY <1>1
  <2> QED BY <2>3, <2>4, <1>1
<1>3. /\ b \in Seq(S)
      /\ Range(b) = {q[i] : i \in k + 1..n}
      /\ IsInjective(b)
  BY <1>1, SuffixRange
<1>4. RemoveAt(q, k) = a \o b
  BY DEF RemoveAt
<1> HIDE DEF a, b, n
<1>5. /\ Range(a) = {a[i] : i \in 1..k - 1}
      /\ DOMAIN a = 1..k - 1
  BY <1>2, RangeDef
<1>6. Range(a) = {q[i] : i \in 1..k - 1}
  BY <1>2, <1>5
<1>7. IsInjective(a)
  BY <1>1, <1>2, <1>5 DEF IsInjective
<1>8. Range(a) \cap Range(b) = {}
  <2>1. \A i \in 1..k - 1, j \in k + 1..n : q[i] # q[j]
    BY <1>1 DEF IsInjective
  <2> QED BY <2>1, <1>3, <1>6
<1>9. Range(a) \cup Range(b) = Range(q) \ {q[k]}
  <2>1. \A i \in 1..n : i # k => q[i] # q[k]
    BY <1>1 DEF IsInjective
  <2>2. \A i \in 1..n : i = k \/ i \in 1..k - 1 \/ i \in k + 1..n
    BY <1>1
  <2>3. /\ \A i \in 1..k - 1 : i \in 1..n /\ i # k
        /\ \A i \in k + 1..n : i \in 1..n /\ i # k
    BY <1>1
  <2> QED BY <2>1, <2>2, <2>3, <1>1, <1>3, <1>6
<1>10. /\ a \o b \in Seq(S)
       /\ Range(a \o b) = Range(a) \cup Range(b)
       /\ IsInjective(a \o b)
  BY <1>2, <1>3, <1>7, <1>8, ConcatRange
<1> QED BY <1>4, <1>9, <1>10
(* A function on 1..n is a sequence over any superset of its values.       *)
LEMMA FunIsSeq ==
  ASSUME NEW S, NEW T \in SUBSET S, NEW n \in Nat, NEW q \in [1..n -> T]
  PROVE  q \in Seq(S) /\ Range(q) \subseteq T
<1>1. q \in Seq(T)
  BY SeqDef
<1> QED BY <1>1, RangeDef, SeqMonotonic

-----------------------------------------------------------------------------
(* Induction over data.                                                    *)

(* A counterexample, if there is one, is least somewhere.                  *)
LEMMA LeastNatural ==
  ASSUME NEW T, T \subseteq Nat, T # {}
  PROVE  \E x \in T : \A y \in T : x <= y
<1>1. PICK x \in T : \A y \in T : ~(<<y, x>> \in OpToRel(<, Nat))
  BY NatLessThanWellFounded, WFMin, Zenon
<1>2. \A y \in T : ~(y < x)
  BY <1>1, Zenon DEF OpToRel
<1> QED BY <1>2

(* So what goes on from each number to the next goes on to all of them.    *)
LEMMA InductionUpTo ==
  ASSUME NEW n \in Nat, NEW T, 0 \in T, \A k \in 1..n : k - 1 \in T => k \in T
  PROVE  \A k \in 0..n : k \in T
<1> DEFINE Bad == {k \in 0..n : k \notin T}
<1>1. SUFFICES ASSUME Bad # {} PROVE FALSE
  OBVIOUS
<1>2. Bad \subseteq Nat
  OBVIOUS
<1>3. PICK k \in Bad : \A j \in Bad : k <= j
  <2> HIDE DEF Bad
  <2> QED BY <1>1, <1>2, LeastNatural
<1>4. k \in 1..n /\ k - 1 \in 0..n /\ ~(k <= k - 1)
  OBVIOUS
<1> QED BY <1>3, <1>4

(* And what goes on from the smaller sets to a set goes on to every set.   *)
LEMMA InductionOnSubsets ==
  ASSUME NEW S, IsFiniteSet(S), NEW T, {} \in T,
         \A s \in SUBSET S : s # {} /\ (\A x \in s : s \ {x} \in T) => s \in T
  PROVE  \A s \in SUBSET S : s \in T
<1> DEFINE Good == {k \in Nat : \A s \in SUBSET S : Cardinality(s) = k => s \in T}
<1>1. \A s \in SUBSET S : IsFiniteSet(s) /\ Cardinality(s) \in Nat
  BY FS_Subset, FS_CardinalityType
<1>2. 0 \in Good
  BY <1>1, FS_EmptySet
<1>3. ASSUME NEW k \in Nat, k # 0, k - 1 \in Good
      PROVE  k \in Good
  <2>1. ASSUME NEW s \in SUBSET S, Cardinality(s) = k
        PROVE  s \in T
    <3>1. s # {}
      BY <1>1, <1>3, <2>1, FS_EmptySet
    <3>2. ASSUME NEW x \in s PROVE s \ {x} \in T
      <4>1. Cardinality(s \ {x}) = k - 1
        BY <1>1, <2>1, FS_RemoveElement
      <4> QED BY <4>1, <1>3
    <3> QED BY <3>1, <3>2
  <2> QED BY <2>1
<1>4. ASSUME NEW n \in Nat PROVE n \in Good
  <2> HIDE DEF Good
  <2>1. \A k \in 1..n : k - 1 \in Good => k \in Good
    BY <1>3
  <2>2. \A k \in 0..n : k \in Good
    BY <1>2, <2>1, InductionUpTo
  <2> QED BY <2>2
<1> QED BY <1>1, <1>4

(* The index a fold from the left takes next, Max(s) of FiniteSetsExt.     *)
LEMMA MaxOfIndices ==
  ASSUME NEW n \in Nat, NEW s \in SUBSET (1..n), s # {}
  PROVE  Max(s) \in s /\ \A i \in s : i <= Max(s)
<1> DEFINE T == {n - i : i \in s}
<1>0. T \subseteq Nat /\ T # {}
  <2>1. \A i \in s : n - i \in Nat
    OBVIOUS
  <2> QED BY <2>1
<1>1. PICK x \in T : \A y \in T : x <= y
  <2> HIDE DEF T
  <2> QED BY <1>0, LeastNatural
<1>2. PICK m \in s : x = n - m
  BY <1>1
<1>3. \A i \in s : n - m <= n - i
  BY <1>1, <1>2
<1>4. \A i \in s : m >= i
  <2> TAKE i \in s
  <2>1. i \in Int /\ m \in Int
    OBVIOUS
  <2> QED BY <2>1, <1>3
<1>5. \E x_ \in s : \A y_ \in s : x_ >= y_
  BY <1>4
<1>6. Max(s) \in s /\ \A y_ \in s : Max(s) >= y_
  BY <1>5, Zenon DEF Max
<1> QED BY <1>6

(* ch names an element of every nonempty set.                              *)
Chooses(ch, S) == \A s \in SUBSET S : s # {} => ch[s] \in s

(* The iteration of MapThenFoldSet: take one element, fold the others.     *)
HasRecursion(S, V, base, H, ch) ==
  \E g \in [SUBSET S -> V] :
    \A s \in SUBSET S :
      g[s] = IF s = {} THEN base ELSE H[<<ch[s], g[s \ {ch[s]}]>>]

(* It has a solution: one for the sets of k elements at most, for every k. *)
LEMMA RecursionOnSubsets ==
  ASSUME NEW S, IsFiniteSet(S), NEW V, NEW base \in V, NEW H \in [S \X V -> V],
         NEW ch, Chooses(ch, S)
  PROVE  HasRecursion(S, V, base, H, ch)
<1> DEFINE U == SUBSET S
           Step(g, s) == IF s = {} THEN base ELSE H[<<ch[s], g[s \ {ch[s]}]>>]
           Fits(g, k) == \A s \in U : Cardinality(s) <= k => g[s] = Step(g, s)
           n == Cardinality(S)
           T == {k \in 0..n : \E g \in [U -> V] : Fits(g, k)}
<1>0. /\ n \in Nat
      /\ \A s \in U : IsFiniteSet(s) /\ Cardinality(s) \in Nat /\ Cardinality(s) <= n
      /\ \A s \in U : s # {} => /\ s \ {ch[s]} \in U
                                /\ Cardinality(s \ {ch[s]}) = Cardinality(s) - 1
      /\ \A s \in U : Cardinality(s) = 0 => s = {}
  <2>1. n \in Nat
    BY FS_CardinalityType
  <2>2. \A s \in U : IsFiniteSet(s) /\ Cardinality(s) \in Nat /\ Cardinality(s) <= n
    BY FS_Subset, FS_CardinalityType
  <2>3. ASSUME NEW s \in U, s # {}
        PROVE  s \ {ch[s]} \in U /\ Cardinality(s \ {ch[s]}) = Cardinality(s) - 1
    <3>1. ch[s] \in s /\ IsFiniteSet(s)
      BY <2>2, <2>3 DEF Chooses
    <3> QED BY <3>1, FS_RemoveElement
  <2>4. \A s \in U : Cardinality(s) = 0 => s = {}
    BY <2>2, FS_EmptySet
  <2> QED BY <2>1, <2>2, <2>3, <2>4
<1> HIDE DEF n
<1>1. 0 \in T
  <2>1. [s \in U |-> base] \in [U -> V] /\ Fits([s \in U |-> base], 0)
    BY <1>0
  <2>2. 0 \in 0..n
    BY <1>0
  <2> HIDE DEF Fits
  <2> QED BY <2>1, <2>2
<1>2. ASSUME NEW k \in 1..n, k - 1 \in T
      PROVE  k \in T
  <2>1. PICK g \in [U -> V] : Fits(g, k - 1)
    <3> HIDE DEF Fits
    <3> QED BY <1>2
  <2> DEFINE h == [s \in U |-> IF Cardinality(s) <= k - 1 THEN g[s] ELSE Step(g, s)]
  <2>2. h \in [U -> V]
    <3>1. ASSUME NEW s \in U PROVE h[s] \in V
      <4>1. CASE s = {}
        BY <4>1
      <4>2. CASE s # {}
        BY <1>0, <4>2
      <4> QED BY <4>1, <4>2
    <3> QED BY <3>1
  <2>3. Fits(h, k)
    <3>1. ASSUME NEW s \in U, Cardinality(s) <= k
          PROVE  h[s] = Step(h, s)
      <4>1. CASE s = {}
        BY <2>1, <4>1
      <4>2. CASE s # {}
        <5>1. h[s \ {ch[s]}] = g[s \ {ch[s]}]
          BY <1>0, <4>2, <3>1
        <5>2. CASE Cardinality(s) <= k - 1
          BY <2>1, <5>1, <5>2, <4>2
        <5>3. CASE ~(Cardinality(s) <= k - 1)
          BY <5>1, <5>3, <4>2
        <5> QED BY <5>2, <5>3
      <4> QED BY <4>1, <4>2
    <3> QED BY <3>1
  <2> HIDE DEF h, Fits
  <2> QED BY <2>2, <2>3
<1>3. PICK g \in [U -> V] : Fits(g, n)
  <2> HIDE DEF T
  <2>1. n \in T
    <3>1. n \in 0..n /\ \A k \in 0..n : k \in T
      BY <1>0, <1>1, <1>2, InductionUpTo
    <3> QED BY <3>1
  <2> HIDE DEF Fits
  <2> QED BY <2>1 DEF T
<1>4. \A s \in U : g[s] = Step(g, s)
  BY <1>0, <1>3
<1> QED BY <1>4 DEF HasRecursion

(* f is such an iteration, known to compute H where what it has is in V.   *)
FoldsSubsets(f, S, V, base, H, ch) ==
  /\ f[{}] = base
  /\ \A s \in SUBSET S : s # {} /\ f[s \ {ch[s]}] \in V => f[s] = H[<<ch[s], f[s \ {ch[s]}]>>]

(* What it computes, set by set.                                           *)
LEMMA SubsetFold ==
  ASSUME NEW S, IsFiniteSet(S), NEW V, NEW base \in V, NEW H \in [S \X V -> V],
         NEW ch, Chooses(ch, S), NEW f, FoldsSubsets(f, S, V, base, H, ch)
  PROVE  \A s \in SUBSET S :
           f[s] \in V /\ f[s] = IF s = {} THEN base ELSE H[<<ch[s], f[s \ {ch[s]}]>>]
<1> DEFINE T == {s \in SUBSET S : f[s] \in V}
<1>1. {} \in T
  BY DEF FoldsSubsets
<1>2. ASSUME NEW s \in SUBSET S, s # {}, \A x \in s : s \ {x} \in T
      PROVE  s \in T /\ f[s] = H[<<ch[s], f[s \ {ch[s]}]>>]
  <2>1. ch[s] \in s /\ f[s \ {ch[s]}] \in V
    BY <1>2 DEF Chooses
  <2>2. f[s] = H[<<ch[s], f[s \ {ch[s]}]>>]
    BY <1>2, <2>1 DEF FoldsSubsets
  <2> QED BY <2>1, <2>2
<1>3. \A s \in SUBSET S : s \in T
  <2> HIDE DEF T
  <2> QED BY <1>1, <1>2, InductionOnSubsets
<1>4. ASSUME NEW s \in SUBSET S
      PROVE  f[s] \in V /\ f[s] = IF s = {} THEN base ELSE H[<<ch[s], f[s \ {ch[s]}]>>]
  <2>1. \A x \in s : s \ {x} \in T
    <3>1. \A x \in s : s \ {x} \in SUBSET S
      OBVIOUS
    <3> HIDE DEF T
    <3> QED BY <3>1, <1>3
  <2> HIDE DEF T
  <2>2. CASE s = {}
    BY <1>3, <2>2 DEF FoldsSubsets, T
  <2>3. CASE s # {}
    BY <1>2, <1>3, <2>1, <2>3 DEF T
  <2> QED BY <2>2, <2>3
<1> QED BY <1>4

(* The same when the greatest index is taken, as a fold from the left does. *)
HasPrefixRecursion(n, V, base, H) ==
  \E g \in [SUBSET (1..n) -> V] :
    \A s \in SUBSET (1..n) :
      g[s] = IF s = {} THEN base ELSE H[<<Max(s), g[s \ {Max(s)}]>>]

LEMMA RecursionOnPrefixes ==
  ASSUME NEW n \in Nat, NEW V, NEW base \in V, NEW H \in [(1..n) \X V -> V]
  PROVE  HasPrefixRecursion(n, V, base, H)
<1> DEFINE ch == [s \in SUBSET (1..n) |-> Max(s)]
<1>1. \A s \in SUBSET (1..n) : ch[s] = Max(s)
  OBVIOUS
<1>2. \A s \in SUBSET (1..n) : s # {} => ch[s] \in s
  BY <1>1, MaxOfIndices
<1>3. IsFiniteSet(1..n)
  BY FS_Interval
<1> HIDE DEF ch
<1>4. Chooses(ch, 1..n)
  BY <1>2 DEF Chooses
<1>5. HasRecursion(1..n, V, base, H, ch)
  BY <1>3, <1>4, RecursionOnSubsets
<1> QED BY <1>5, <1>1, ZenonT(40) DEF HasRecursion, HasPrefixRecursion

(* f is the iteration of a fold from the left, known to compute H where    *)
(* what it has is in V.                                                    *)
FoldsPrefixes(f, n, V, base, H) ==
  /\ f[{}] = base
  /\ \A k \in 1..n : f[1..k-1] \in V => f[1..k] = H[<<k, f[1..k-1]>>]

(* What such a fold computes, prefix by prefix.                            *)
LEMMA PrefixFold ==
  ASSUME NEW n \in Nat, NEW V, NEW base \in V, NEW H \in [(1..n) \X V -> V],
         NEW f, FoldsPrefixes(f, n, V, base, H)
  PROVE  /\ \A k \in 0..n : f[1..k] \in V
         /\ f[1..0] = base
         /\ \A k \in 1..n : f[1..k] = H[<<k, f[1..k-1]>>]
<1> USE DEF FoldsPrefixes
<1> DEFINE T == {k \in 0..n : f[1..k] \in V}
<1>1. 1..0 = {}
  OBVIOUS
<1>2. 0 \in T /\ \A k \in 1..n : k - 1 \in T => k \in T
  <2>1. 0 \in T
    BY <1>1
  <2>2. ASSUME NEW k \in 1..n, k - 1 \in T
        PROVE  k \in T
    <3>1. f[1..k-1] \in V /\ k \in 0..n
      BY <2>2
    <3>2. f[1..k] = H[<<k, f[1..k-1]>>]
      BY <3>1
    <3> QED BY <3>1, <3>2
  <2> QED BY <2>1, <2>2
<1>3. \A k \in 0..n : f[1..k] \in V
  <2> HIDE DEF T
  <2>1. \A k \in 0..n : k \in T
    BY <1>2, InductionUpTo
  <2> QED BY <2>1 DEF T
<1>4. \A k \in 1..n : k - 1 \in 0..n
  OBVIOUS
<1> QED BY <1>1, <1>3, <1>4

(* A prefix without its last index is the prefix before it.                *)
LEMMA PrefixMax ==
  ASSUME NEW n \in Nat, NEW k \in 1..n
  PROVE  /\ 1..k \in SUBSET (1..n) /\ 1..k # {}
         /\ Max(1..k) = k /\ (1..k) \ {Max(1..k)} = 1..k-1
<1>1. 1..k \in SUBSET (1..n) /\ 1..k # {} /\ k \in 1..k
  OBVIOUS
<1>2. Max(1..k) \in 1..k /\ k <= Max(1..k)
  BY <1>1, MaxOfIndices
<1>3. Max(1..k) = k
  BY <1>2
<1>4. (1..k) \ {k} = 1..k-1
  OBVIOUS
<1> QED BY <1>1, <1>3, <1>4

-----------------------------------------------------------------------------
(* Counting and order.                                                     *)

(* What tells its indices apart has as many values.                        *)
LEMMA ImageCount ==
  ASSUME NEW q, NEW T, IsFiniteSet(T), \A i, j \in T : q[i] = q[j] => i = j
  PROVE  Cardinality({q[i] : i \in T}) = Cardinality(T)
<1> DEFINE f == [i \in T |-> q[i]]
<1>1. f \in Bijection(T, {q[i] : i \in T})
  BY DEF Bijection, Injection, Surjection, IsInjective
<1> QED BY <1>1, FS_Bijection DEF ExistsBijection

(* before[x] is what comes before x in a total order of a finite set.      *)
Ranks(before, S) ==
  /\ before \in [S -> SUBSET S]
  /\ \A x \in S : x \notin before[x]
  /\ \A x, y \in S : x \in before[y] => before[x] \subseteq before[y]
  /\ \A x, y \in S : x = y \/ x \in before[y] \/ y \in before[x]

(* The i-th element has i - 1 before it.                                   *)
RankOf(before, S) == [x \in S |-> Cardinality(before[x]) + 1]

LEMMA RanksAreDense ==
  ASSUME NEW S, IsFiniteSet(S), NEW before, Ranks(before, S)
  PROVE  RankOf(before, S) \in Bijection(S, 1..Cardinality(S))
<1> DEFINE n == Cardinality(S)
           rank == RankOf(before, S)
<1>1. n \in Nat
  BY FS_CardinalityType
<1>2. ASSUME NEW x \in S
      PROVE  /\ IsFiniteSet(before[x]) /\ Cardinality(before[x]) \in Nat
             /\ Cardinality(before[x]) + 1 \in 1..n
  <2>1. before[x] \in SUBSET S /\ x \notin before[x]
    BY DEF Ranks
  <2>2. IsFiniteSet(before[x]) /\ Cardinality(before[x]) <= n
        /\ (n = Cardinality(before[x]) => S = before[x])
    BY <2>1, FS_Subset
  <2>3. Cardinality(before[x]) \in Nat
    BY <2>2, FS_CardinalityType
  <2>4. Cardinality(before[x]) # n
    BY <2>1, <2>2
  <2> QED BY <1>1, <2>2, <2>3, <2>4
<1>3. ASSUME NEW x \in S, NEW y \in S, x \in before[y]
      PROVE  Cardinality(before[x]) < Cardinality(before[y])
  <2>1. before[x] \subseteq before[y] /\ x \notin before[x]
    BY <1>3 DEF Ranks
  <2>2. Cardinality(before[x]) <= Cardinality(before[y])
        /\ (Cardinality(before[y]) = Cardinality(before[x]) => before[y] = before[x])
    BY <1>2, <2>1, FS_Subset
  <2> QED BY <1>2, <1>3, <2>1, <2>2
<1>4. \A x \in S : rank[x] = Cardinality(before[x]) + 1
  BY DEF RankOf
<1>5. rank \in [S -> 1..n]
  BY <1>2 DEF RankOf
<1>6. ASSUME NEW x \in S, NEW y \in S, rank[x] = rank[y] PROVE x = y
  <2>1. Cardinality(before[x]) = Cardinality(before[y])
    BY <1>2, <1>4, <1>6
  <2>2. x \notin before[y] /\ y \notin before[x]
    BY <1>2, <1>3, <2>1
  <2> QED BY <2>2 DEF Ranks
<1> HIDE DEF rank, n
<1>7. rank \in Injection(S, 1..n)
  BY <1>5, <1>6 DEF Injection, IsInjective
<1>8. IsFiniteSet(1..n) /\ Cardinality(1..n) = n
  BY <1>1, FS_Interval
<1>9. rank \in Surjection(S, 1..n)
  BY <1>7, <1>8, FS_Injection DEF n
<1> QED BY <1>7, <1>9 DEF Bijection, rank, n

(* What takes the elements by their ranks enumerates the set in that order. *)
Enumeration(before, S) == [i \in 1..Cardinality(S) |-> CHOOSE x \in S : Cardinality(before[x]) = i - 1]

LEMMA SortedEnumerates ==
  ASSUME NEW S, IsFiniteSet(S), NEW before, Ranks(before, S)
  PROVE  LET q == Enumeration(before, S)
         IN /\ q \in [1..Cardinality(S) -> S]
            /\ \A i, k \in 1..Cardinality(S) : q[i] = q[k] => i = k
            /\ S = {q[i] : i \in 1..Cardinality(S)}
            /\ \A i \in 1..Cardinality(S) : Cardinality(before[q[i]]) = i - 1
<1> DEFINE n == Cardinality(S)
           rank == RankOf(before, S)
           q == Enumeration(before, S)
<1>1. rank \in [S -> 1..n] /\ (\A i \in 1..n : \E x \in S : rank[x] = i)
      /\ (\A x, y \in S : rank[x] = rank[y] => x = y)
  BY RanksAreDense DEF Bijection, Injection, Surjection, IsInjective
<1>2. q = [i \in 1..n |-> CHOOSE x \in S : Cardinality(before[x]) = i - 1]
  BY DEF Enumeration
<1>3. n \in Nat /\ \A x \in S : Cardinality(before[x]) \in Nat
  BY FS_CardinalityType, FS_Subset DEF Ranks
<1>4. \A x \in S : rank[x] = Cardinality(before[x]) + 1
  BY DEF RankOf
<1> HIDE DEF rank, q, n
<1>5. ASSUME NEW i \in 1..n PROVE q[i] \in S /\ rank[q[i]] = i /\ Cardinality(before[q[i]]) = i - 1
  <2>1. PICK x \in S : rank[x] = i
    BY <1>1
  <2>2. Cardinality(before[x]) = i - 1
    BY <1>3, <1>4, <2>1
  <2>3. q[i] = CHOOSE y \in S : Cardinality(before[y]) = i - 1
    BY <1>2
  <2>4. q[i] \in S /\ Cardinality(before[q[i]]) = i - 1
    BY <2>2, <2>3
  <2> QED BY <1>3, <1>4, <2>4
<1>6. q \in [1..n -> S]
  BY <1>2, <1>5
<1>7. \A i, k \in 1..n : q[i] = q[k] => i = k
  BY <1>5
<1>8. ASSUME NEW x \in S PROVE \E i \in 1..n : x = q[i]
  <2>1. rank[x] \in 1..n
    BY <1>1
  <2>2. q[rank[x]] = x
    BY <1>1, <1>5, <2>1
  <2> QED BY <2>1, <2>2
<1>9. S = {q[i] : i \in 1..n}
  BY <1>5, <1>8
<1> QED BY <1>5, <1>6, <1>7, <1>9 DEF n, q

LEMMA Successor ==
  ASSUME NEW n \in Nat
  PROVE  /\ (n + 1) - 1 = n /\ n + 1 > 0 /\ n + 1 \in 0..n + 1
         /\ \A k \in 0..n : k \in 0..n + 1 /\ k # n + 1
  OBVIOUS

LEMMA TwoOrMore ==
  ASSUME NEW S, IsFiniteSet(S)
  PROVE  Cardinality(S) > 1 <=> \E x, y \in S : x # y
<1>1. Cardinality(S) \in Nat
  BY FS_CardinalityType
<1>2. ASSUME NEW x \in S
      PROVE  Cardinality(S) > 1 <=> \E y \in S : x # y
  <2>1. /\ IsFiniteSet(S \ {x})
        /\ Cardinality(S \ {x}) = Cardinality(S) - 1
    BY <1>2, FS_RemoveElement
  <2>2. Cardinality(S \ {x}) = 0 <=> S \ {x} = {}
    BY <2>1, FS_EmptySet
  <2>3. Cardinality(S \ {x}) \in Nat
    BY <2>1, FS_CardinalityType
  <2>4. Cardinality(S) > 1 <=> Cardinality(S \ {x}) # 0
    BY <1>1, <2>1, <2>3
  <2>5. S \ {x} # {} <=> \E y \in S : x # y
    OBVIOUS
  <2> QED BY <2>2, <2>4, <2>5
<1>3. CASE S = {}
  BY <1>3, FS_EmptySet
<1>4. CASE S # {}
  BY <1>2, <1>4
<1> QED BY <1>3, <1>4

LEMMA FourAreFinite ==
  ASSUME NEW a, NEW b, NEW c, NEW d
  PROVE  IsFiniteSet({a, b, c, d})
<1>1. IsFiniteSet({a})
  BY FS_Singleton
<1>2. IsFiniteSet({a} \cup {b})
  BY <1>1, FS_AddElement
<1>3. IsFiniteSet({a} \cup {b} \cup {c})
  BY <1>2, FS_AddElement
<1>4. IsFiniteSet({a} \cup {b} \cup {c} \cup {d})
  BY <1>3, FS_AddElement
<1>5. {a} \cup {b} \cup {c} \cup {d} = {a, b, c, d}
  BY Zenon
<1> QED BY <1>4, <1>5

LEMMA MembershipIsTrueOrFalse ==
  ASSUME NEW x, NEW u, NEW S, x = (u \in S)
  PROVE  x \in BOOLEAN
<1>1. CASE u \in S
  BY <1>1
<1>2. CASE u \notin S
  BY <1>2
<1> QED BY <1>1, <1>2

LEMMA FunctionLength ==
  ASSUME NEW n \in Nat, NEW q, DOMAIN q = 1..n, q = [i \in 1..n |-> q[i]]
  PROVE  Len(q) = n
<1> DEFINE T == {q[i] : i \in 1..n}
<1>1. q \in [1..n -> T]
  OBVIOUS
<1> HIDE DEF T
<1>2. q \in Seq(T)
  BY <1>1, FunIsSeq
<1>3. DOMAIN q = 1..Len(q) /\ Len(q) \in Nat
  BY <1>2, LenProperties
<1> QED BY <1>3

LEMMA AppendIs ==
  ASSUME NEW S, NEW q \in Seq(S), NEW x \in S
  PROVE  /\ Append(q, x) \in Seq(S) /\ Len(Append(q, x)) = Len(q) + 1
         /\ Range(Append(q, x)) = Range(q) \cup {x}
         /\ IsInjective(q) /\ x \notin Range(q) => IsInjective(Append(q, x))
<1> DEFINE a == Append(q, x)
           n == Len(q)
<1>1. n \in Nat /\ DOMAIN q = 1..n
  BY LenProperties
<1>2. a \in Seq(S) /\ Len(a) = n + 1 /\ a[n+1] = x /\ \A i \in 1..n : a[i] = q[i]
  BY AppendProperties
<1>3. DOMAIN a = 1..n+1
  BY <1>2, LenProperties
<1> HIDE DEF a, n
<1>4. Range(a) = Range(q) \cup {x}
  <2>1. 1..n+1 = 1..n \cup {n+1}
    BY <1>1
  <2>2. Range(a) = {a[i] : i \in 1..n} \cup {a[n+1]}
    BY <1>3, <2>1 DEF Range
  <2>3. Range(q) = {q[i] : i \in 1..n}
    BY <1>1 DEF Range
  <2> QED BY <1>2, <2>2, <2>3
<1>5. ASSUME IsInjective(q), x \notin Range(q) PROVE IsInjective(a)
  <2>1. \A i, k \in 1..n : q[i] = q[k] => i = k
    BY <1>1, <1>5 DEF IsInjective
  <2>2. \A i \in 1..n : q[i] # x
    BY <1>1, <1>5 DEF Range
  <2>3. ASSUME NEW i \in 1..n+1, NEW k \in 1..n+1, a[i] = a[k] PROVE i = k
    <3>1. i \in 1..n \/ i = n+1
      BY <1>1
    <3>2. k \in 1..n \/ k = n+1
      BY <1>1
    <3> QED BY <1>2, <2>1, <2>2, <2>3, <3>1, <3>2
  <2> QED BY <1>3, <2>3 DEF IsInjective
<1> QED BY <1>2, <1>4, <1>5 DEF a, n

(* A prefix of a sequence, cut where the sequence ends before.             *)
LEMMA PrefixIs ==
  ASSUME NEW S, NEW q \in Seq(S), NEW m \in Nat
  PROVE  LET n == IF Len(q) < m THEN Len(q) ELSE m
             c == SubSeq(q, 1, n)
         IN /\ n \in Nat /\ n <= Len(q) /\ n <= m
            /\ c = [i \in 1..n |-> q[i]]
            /\ c \in Seq(S) /\ Len(c) = n
            /\ \A i \in 1..n : c[i] = q[i]
<1> DEFINE n == IF Len(q) < m THEN Len(q) ELSE m
           c == SubSeq(q, 1, n)
<1>1. Len(q) \in Nat /\ DOMAIN q = 1..Len(q)
  BY LenProperties
<1>2. n \in Nat /\ n <= Len(q) /\ n <= m
  BY <1>1
<1> HIDE DEF n
<1>4. c \in Seq(S) /\ Len(c) = n /\ \A i \in 1..n : c[i] = q[i]
  <2>1. \A i \in 1..n : q[i] \in S
    BY <1>1, <1>2, ElementOfSeq
  <2> QED BY <1>1, <1>2, <2>1, SubSeqProperties
<1> HIDE DEF c
<1>5. c = [i \in 1..n |-> q[i]]
  <2>1. DOMAIN c = 1..n /\ c = [i \in DOMAIN c |-> c[i]]
    BY <1>4, LenProperties, SeqDef
  <2> QED BY <2>1, <1>4
<1> QED BY <1>2, <1>4, <1>5 DEF n, c

-----------------------------------------------------------------------------
(* The walk over single steps. It stops within as many steps as there are  *)
(* nodes, and all it passed goes on for ever or nothing of it does.        *)

\* A recursion over the numbers has a solution.
HasRecursionUpTo(n, V, base, G) ==
  \E f \in [0..n -> V] : f[0] = base /\ \A k \in 1..n : f[k] = G[f[k - 1]]

(* Every recursion that stays within a set does.                           *)
LEMMA RecursionUpTo ==
  ASSUME NEW n \in Nat, NEW V, NEW base \in V, NEW G \in [V -> V]
  PROVE  HasRecursionUpTo(n, V, base, G)
<1> DEFINE H == [p \in (1..n) \X V |-> G[p[2]]]
<1>1. H \in [(1..n) \X V -> V] /\ \A k \in 1..n, v \in V : H[<<k, v>>] = G[v]
  OBVIOUS
<1> HIDE DEF H
<1>2. PICK g \in [SUBSET (1..n) -> V] : \A s \in SUBSET (1..n) :
         g[s] = IF s = {} THEN base ELSE H[<<Max(s), g[s \ {Max(s)}]>>]
  <2>1. HasPrefixRecursion(n, V, base, H)
    BY <1>1, RecursionOnPrefixes
  <2> QED BY <2>1 DEF HasPrefixRecursion
<1> DEFINE f == [k \in 0..n |-> g[1..k]]
<1>3. \A k \in 0..n : 1..k \in SUBSET (1..n)
  OBVIOUS
<1>4. f \in [0..n -> V]
  BY <1>3
<1>5. f[0] = base
  <2>1. 1..0 = {} /\ {} \in SUBSET (1..n) /\ 0 \in 0..n
    OBVIOUS
  <2> QED BY <1>2, <2>1
<1>6. ASSUME NEW k \in 1..n PROVE f[k] = G[f[k - 1]]
  <2>1. /\ 1..k \in SUBSET (1..n) /\ 1..k # {}
        /\ Max(1..k) = k /\ (1..k) \ {Max(1..k)} = 1..k-1
    BY PrefixMax
  <2>2. k \in 0..n /\ k - 1 \in 0..n
    OBVIOUS
  <2>3. g[1..k] = H[<<k, g[1..k-1]>>]
    BY <1>2, <2>1
  <2>4. g[1..k-1] \in V
    BY <1>3, <2>2
  <2> QED BY <1>1, <2>2, <2>3, <2>4
<1> HIDE DEF f
<1> QED BY <1>4, <1>5, <1>6 DEF HasRecursionUpTo

\* Every node leads to a node or to 0.
SingleSteps(next) ==
  /\ Len(next) \in Nat /\ DOMAIN next = 1..Len(next)
  /\ \A x \in 1..Len(next) : next[x] \in 0..Len(next)

\* The nodes from which one can walk on for ever.
Endless(next) ==
  {i \in 1..Len(next) : \E S \in SUBSET (1..Len(next)) : i \in S /\ \A x \in S : next[x] \in S}

LEMMA EndlessStep ==
  ASSUME NEW next, SingleSteps(next)
  PROVE  \A x \in 1..Len(next) : x \in Endless(next) <=> next[x] \in Endless(next)
<1> SUFFICES ASSUME NEW x \in 1..Len(next) PROVE x \in Endless(next) <=> next[x] \in Endless(next)
  OBVIOUS
<1>1. ASSUME x \in Endless(next) PROVE next[x] \in Endless(next)
  <2>1. PICK S \in SUBSET (1..Len(next)) : x \in S /\ \A y \in S : next[y] \in S
    BY <1>1 DEF Endless
  <2> QED BY <2>1 DEF Endless
<1>2. ASSUME next[x] \in Endless(next) PROVE x \in Endless(next)
  <2>1. PICK S \in SUBSET (1..Len(next)) : next[x] \in S /\ \A y \in S : next[y] \in S
    BY <1>2 DEF Endless
  <2>2. S \cup {x} \in SUBSET (1..Len(next)) /\ x \in S \cup {x} /\ \A y \in S \cup {x} : next[y] \in S \cup {x}
    BY <2>1
  <2> QED BY <2>2 DEF Endless
<1> QED BY <1>1, <1>2

\* What a walk from i knows after some steps, and where it stops.
Walks(next, seen, i, w) ==
  /\ w.path \in SUBSET (1..Len(next) \ seen) /\ w.end \in 0..Len(next)
  /\ i \in w.path \cup {w.end}
  /\ \A x \in w.path : next[x] \in w.path \cup {w.end}
  /\ \A x \in w.path : x \in Endless(next) <=> w.end \in Endless(next)

WalkStops(seen, w) == w.end = 0 \/ w.end \in seen \cup w.path

Walked(next, seen, i, w) == Walks(next, seen, i, w) /\ WalkStops(seen, w) /\ i \in w.path

LEMMA WalkGoesOn ==
  ASSUME NEW next, SingleSteps(next), NEW seen \in SUBSET (1..Len(next)), NEW i,
         NEW w, Walks(next, seen, i, w), ~WalkStops(seen, w)
  PROVE  /\ Walks(next, seen, i, [path |-> w.path \cup {w.end}, end |-> next[w.end]])
         /\ w.end \notin w.path
<1> DEFINE v == [path |-> w.path \cup {w.end}, end |-> next[w.end]]
<1>1. v.path = w.path \cup {w.end} /\ v.end = next[w.end]
  OBVIOUS
<1> HIDE DEF v
<1>2. w.end \in 1..Len(next) \ seen /\ w.end \notin w.path
  BY DEF Walks, WalkStops, SingleSteps
<1>3. v.path \in SUBSET (1..Len(next) \ seen) /\ v.end \in 0..Len(next)
  BY <1>1, <1>2 DEF Walks, SingleSteps
<1>4. i \in v.path \cup {v.end} /\ \A x \in v.path : next[x] \in v.path \cup {v.end}
  BY <1>1 DEF Walks
<1>5. \A x \in v.path : x \in Endless(next) <=> w.end \in Endless(next)
  BY <1>1 DEF Walks
<1>6. w.end \in Endless(next) <=> v.end \in Endless(next)
  BY <1>1, <1>2, EndlessStep
<1> QED BY <1>2, <1>3, <1>4, <1>5, <1>6 DEF Walks, v

\* One step more of a walk that has not stopped.
WalkedOn(next, seen, w) ==
  IF w.end = 0 \/ w.end \in seen \cup w.path THEN w
  ELSE [path |-> w.path \cup {w.end}, end |-> next[w.end]]

\* The walk from i, step by step.
IsWalk(next, seen, i, after) ==
  after = [k \in 0..Len(next) |->
            IF k = 0 THEN [path |-> {}, end |-> i] ELSE WalkedOn(next, seen, after[k - 1])]
HasWalk(next, seen, i) == \E after : IsWalk(next, seen, i, after)

\* The walks from i that have taken so many steps.
WalksFrom(next, seen, i) ==
  {w \in [path : SUBSET (1..Len(next)), end : 0..Len(next)] : Walks(next, seen, i, w)}

LEMMA WalkedOnWalks ==
  ASSUME NEW next, SingleSteps(next), NEW seen \in SUBSET (1..Len(next)), NEW i \in 1..Len(next) \ seen
  PROVE  /\ [path |-> {}, end |-> i] \in WalksFrom(next, seen, i)
         /\ \A w \in WalksFrom(next, seen, i) : WalkedOn(next, seen, w) \in WalksFrom(next, seen, i)
<1> DEFINE n == Len(next)
           Onward(w) == WalkedOn(next, seen, w)
           base == [path |-> {}, end |-> i]
           V == WalksFrom(next, seen, i)
<1>1. n \in Nat
  BY DEF SingleSteps
<1>3. base \in V
  <2>1. /\ base \in [path : SUBSET (1..n), end : 0..n] /\ i \notin seen
        /\ base.path = {} /\ base.end = i
    BY <1>1
  <2> QED BY <2>1 DEF Walks, WalksFrom
<1>4. ASSUME NEW w \in V PROVE Onward(w) \in V
  <2>1. CASE WalkStops(seen, w)
    BY <2>1 DEF WalkStops, WalkedOn
  <2>2. CASE ~WalkStops(seen, w)
    <3> DEFINE v == [path |-> w.path \cup {w.end}, end |-> next[w.end]]
    <3>1. Onward(w) = v
      BY <2>2 DEF WalkStops, WalkedOn
    <3>2. Walks(next, seen, i, v)
      BY <2>2, WalkGoesOn DEF WalksFrom
    <3>3. v \in [path : SUBSET (1..n), end : 0..n]
      <4>1. w.path \in SUBSET (1..n) /\ w.end \in 1..n
        BY <2>2 DEF WalkStops, WalksFrom
      <4> QED BY <4>1 DEF SingleSteps
    <3> HIDE DEF v, Onward
    <3> QED BY <3>1, <3>2, <3>3 DEF WalksFrom
  <2> QED BY <2>1, <2>2
<1> HIDE DEF V, base, Onward
<1>5. base \in V /\ \A w \in V : Onward(w) \in V
  BY <1>3, <1>4
<1> QED BY <1>5 DEF V, base, Onward

LEMMA WalkExists ==
  ASSUME NEW next, SingleSteps(next), NEW seen \in SUBSET (1..Len(next)), NEW i \in 1..Len(next) \ seen
  PROVE  HasWalk(next, seen, i)
<1> DEFINE n == Len(next)
           Onward(w) == WalkedOn(next, seen, w)
           base == [path |-> {}, end |-> i]
           V == WalksFrom(next, seen, i)
           G == [w \in V |-> Onward(w)]
           Step(f, k) == IF k = 0 THEN base ELSE Onward(f[k - 1])
           Is(f) == f = [k \in 0..n |-> Step(f, k)]
<1>1. n \in Nat
  BY DEF SingleSteps
<1>2. base \in V /\ \A w \in V : Onward(w) \in V
  BY WalkedOnWalks
<1> HIDE DEF base, V, n
<1>3. G \in [V -> V]
  <2> HIDE DEF Onward
  <2> QED BY <1>2
<1>4. \E f : Is(f)
  <2>1. PICK f \in [0..n -> V] : f[0] = base /\ \A k \in 1..n : f[k] = G[f[k - 1]]
    <3> HIDE DEF G
    <3>1. HasRecursionUpTo(n, V, base, G)
      BY <1>1, <1>2, <1>3, RecursionUpTo
    <3> QED BY <3>1 DEF HasRecursionUpTo
  <2>2. ASSUME NEW k \in 0..n PROVE f[k] = Step(f, k)
    <3>1. CASE k = 0
      BY <2>1, <3>1
    <3>2. CASE k # 0
      <4>1. k \in 1..n /\ k - 1 \in 0..n
        BY <1>1, <3>2
      <4>2. f[k] = G[f[k - 1]] /\ f[k - 1] \in V
        BY <2>1, <4>1
      <4> HIDE DEF Onward
      <4> QED BY <3>2, <4>2
    <3> QED BY <3>1, <3>2
  <2>3. f = [k \in 0..n |-> f[k]]
    OBVIOUS
  <2> HIDE DEF Step
  <2> QED BY <2>2, <2>3
<1> QED BY <1>4 DEF HasWalk, IsWalk, n, base

(* A walk stops within as many steps as there are nodes.                   *)
LEMMA WalkIsWalked ==
  ASSUME NEW next, SingleSteps(next), NEW seen \in SUBSET (1..Len(next)), NEW i \in 1..Len(next) \ seen,
         NEW after, IsWalk(next, seen, i, after)
  PROVE  Walked(next, seen, i, after[Len(next)])
<1> DEFINE n == Len(next)
           Onward(w) == WalkedOn(next, seen, w)
           base == [path |-> {}, end |-> i]
           V == WalksFrom(next, seen, i)
           Step(k) == IF k = 0 THEN base ELSE Onward(after[k - 1])
<1>1. n \in Nat
  BY DEF SingleSteps
<1>3. base \in V
  BY WalkedOnWalks
<1>4. ASSUME NEW w \in V PROVE Onward(w) \in V
  BY WalkedOnWalks
<1>7. after = [k \in 0..n |-> Step(k)]
  BY DEF IsWalk
<1> HIDE DEF base, V, n
<1>8. after[0] = base /\ \A k \in 1..n : after[k] = Onward(after[k - 1])
  <2>1. \A k \in 0..n : after[k] = Step(k)
    <3> HIDE DEF Step
    <3> QED BY <1>7
  <2>2. 0 \in 0..n /\ \A k \in 1..n : k \in 0..n /\ k # 0
    BY <1>1
  <2> HIDE DEF Onward
  <2> QED BY <2>1, <2>2
<1> DEFINE T == {k \in 0..n : /\ after[k] \in V
                              /\ WalkStops(seen, after[k]) \/ Cardinality(after[k].path) = k}
<1>9. 0 \in T
  <2>1. base.path = {}
    BY DEF base
  <2>2. Cardinality(base.path) = 0
    BY <2>1, FS_EmptySet
  <2> QED BY <1>1, <1>3, <1>8, <2>2
<1>10. ASSUME NEW k \in 1..n, k - 1 \in T PROVE k \in T
  <2> DEFINE w == after[k - 1]
  <2>1. w \in V /\ (WalkStops(seen, w) \/ Cardinality(w.path) = k - 1) /\ after[k] = Onward(w) /\ k \in 0..n
    BY <1>8, <1>10
  <2> HIDE DEF w
  <2>2. after[k] \in V
    BY <1>4, <2>1
  <2>3. CASE WalkStops(seen, w)
    BY <2>1, <2>2, <2>3 DEF WalkStops, WalkedOn
  <2>4. CASE ~WalkStops(seen, w)
    <3>1. after[k].path = w.path \cup {w.end} /\ w.end \notin w.path
      BY <2>1, <2>4 DEF WalkStops, WalkedOn
    <3>2. IsFiniteSet(w.path)
      <4>1. w.path \in SUBSET (1..n)
        BY <2>1 DEF V, WalksFrom, n
      <4>2. IsFiniteSet(1..n)
        BY <1>1, FS_Interval
      <4> QED BY <4>1, <4>2, FS_Subset
    <3>3. Cardinality(after[k].path) = (k - 1) + 1
      <4>1. Cardinality(w.path \cup {w.end}) = Cardinality(w.path) + 1
        BY <3>1, <3>2, FS_AddElement
      <4> QED BY <2>1, <2>4, <3>1, <4>1
    <3>4. Cardinality(after[k].path) = k
      <4>1. (k - 1) + 1 = k
        BY <1>1
      <4> QED BY <3>3, <4>1
    <3> QED BY <2>1, <2>2, <3>4
  <2> QED BY <2>3, <2>4
<1>11. n \in T
  <2> HIDE DEF T
  <2>1. \A k \in 0..n : k \in T
    BY <1>1, <1>9, <1>10, InductionUpTo
  <2> QED BY <1>1, <2>1
<1> DEFINE w == after[n]
<1>12. w \in V /\ (WalkStops(seen, w) \/ Cardinality(w.path) = n)
  BY <1>11
<1> HIDE DEF w, Onward, T
<1>13. Walks(next, seen, i, w)
  BY <1>12 DEF V, WalksFrom, n
<1>14. WalkStops(seen, w)
  <2> SUFFICES ASSUME Cardinality(w.path) = n PROVE WalkStops(seen, w)
    BY <1>12
  <2>1. w.path \in SUBSET (1..n) /\ w.end \in 0..n
    BY <1>12 DEF V, WalksFrom, n
  <2>2. IsFiniteSet(1..n) /\ Cardinality(1..n) = n
    BY <1>1, FS_Interval
  <2>3. w.path = 1..n
    BY <2>1, <2>2, FS_Subset
  <2> QED BY <1>1, <2>1, <2>3 DEF WalkStops
<1>15. i \in w.path
  <2>1. i \in 1..n /\ i \notin seen /\ i # 0
    BY <1>1 DEF n
  <2>2. i \in w.path \cup {w.end}
    BY <1>13 DEF Walks
  <2> QED BY <1>14, <2>1, <2>2 DEF WalkStops
<1> QED BY <1>13, <1>14, <1>15 DEF Walked, w, n

\* One step of a walk that stays where it ends.
Onto(next, x) == IF next[x] = 0 THEN x ELSE next[x]

\* A walk of as many steps as there are nodes leads from i to m.
IsWayTo(next, i, m, at) ==
  LET n == Len(next)
  IN /\ at \in [0..n -> 1..n] /\ at[0] = i /\ at[n] = m
     /\ \A k \in 1..n : at[k] = Onto(next, at[k - 1])
HasWayTo(next, i, m) == \E at : IsWayTo(next, i, m, at)

\* Such a walk, step by step.
IsCourse(next, i, at) ==
  at = [k \in 0..Len(next) |-> IF k = 0 THEN i ELSE Onto(next, at[k - 1])]
HasCourse(next, i) == \E at : IsCourse(next, i, at)

LEMMA CourseExists ==
  ASSUME NEW next, SingleSteps(next), NEW i \in 1..Len(next)
  PROVE  HasCourse(next, i)
<1> DEFINE n == Len(next)
           V == 1..n
           G == [x \in V |-> Onto(next, x)]
           Step(f, k) == IF k = 0 THEN i ELSE Onto(next, f[k - 1])
           IsWalkOf(f) == f = [k \in 0..n |-> Step(f, k)]
<1>1. n \in Nat /\ i \in V
  BY DEF SingleSteps
<1>3. \A x \in V : Onto(next, x) \in V
  <2> SUFFICES ASSUME NEW x \in V PROVE Onto(next, x) \in V
    OBVIOUS
  <2>1. next[x] \in 0..n
    BY DEF SingleSteps
  <2> HIDE DEF n
  <2> QED BY <1>1, <2>1 DEF Onto
<1> HIDE DEF V, n
<1>4. G \in [V -> V]
  BY <1>3
<1>5. PICK f \in [0..n -> V] : f[0] = i /\ \A k \in 1..n : f[k] = G[f[k - 1]]
  <2> HIDE DEF G
  <2>1. HasRecursionUpTo(n, V, i, G)
    BY <1>1, <1>4, RecursionUpTo
  <2> QED BY <2>1 DEF HasRecursionUpTo
<1>6. ASSUME NEW k \in 1..n PROVE f[k] = Onto(next, f[k - 1])
  <2>1. k - 1 \in 0..n
    BY <1>1
  <2>2. f[k] = G[f[k - 1]] /\ f[k - 1] \in V
    BY <1>5, <2>1
  <2> QED BY <2>2
<1>7. IsWalkOf(f)
  <2>1. ASSUME NEW k \in 0..n PROVE f[k] = Step(f, k)
    <3>1. CASE k = 0
      BY <1>5, <3>1
    <3>2. CASE k # 0
      <4>1. k \in 1..n
        BY <1>1, <3>2
      <4> QED BY <1>6, <3>2, <4>1
    <3> QED BY <3>1, <3>2
  <2>2. f = [k \in 0..n |-> f[k]]
    OBVIOUS
  <2> HIDE DEF Step
  <2> QED BY <2>1, <2>2
<1> QED BY <1>7 DEF HasCourse, IsCourse, n

LEMMA CourseIsWay ==
  ASSUME NEW next, SingleSteps(next), NEW i \in 1..Len(next), NEW at, IsCourse(next, i, at)
  PROVE  HasWayTo(next, i, at[Len(next)])
<1> DEFINE n == Len(next)
           V == 1..n
           Step(k) == IF k = 0 THEN i ELSE Onto(next, at[k - 1])
<1>1. n \in Nat /\ i \in V
  BY DEF SingleSteps
<1>3. \A x \in V : Onto(next, x) \in V
  <2> SUFFICES ASSUME NEW x \in V PROVE Onto(next, x) \in V
    OBVIOUS
  <2>1. next[x] \in 0..n
    BY DEF SingleSteps
  <2> HIDE DEF n
  <2> QED BY <1>1, <2>1 DEF Onto
<1>8. at = [k \in 0..n |-> Step(k)]
  BY DEF IsCourse
<1> HIDE DEF V, n
<1>9. at[0] = i /\ \A k \in 1..n : at[k] = Onto(next, at[k - 1])
  <2>1. \A k \in 0..n : at[k] = Step(k)
    <3> HIDE DEF Step
    <3> QED BY <1>8
  <2>2. 0 \in 0..n /\ \A k \in 1..n : k \in 0..n /\ k # 0
    BY <1>1
  <2> QED BY <2>1, <2>2
<1>10. at = [k \in 0..n |-> at[k]]
  <2> HIDE DEF Step
  <2>1. DOMAIN at = 0..n
    BY <1>8
  <2> QED BY <1>8
<1> DEFINE T == {k \in 0..n : at[k] \in V}
<1>11. \A k \in 0..n : k \in T
  <2>1. 0 \in T
    BY <1>1, <1>9
  <2>2. ASSUME NEW k \in 1..n, k - 1 \in T PROVE k \in T
    <3>1. k \in 0..n
      BY <1>1
    <3> QED BY <1>3, <1>9, <2>2, <3>1
  <2> HIDE DEF T
  <2> QED BY <1>1, <2>1, <2>2, InductionUpTo
<1>12. at \in [0..n -> V]
  BY <1>10, <1>11
<1>13. IsWayTo(next, i, at[n], at)
  BY <1>9, <1>12 DEF IsWayTo, V, n
<1> QED BY <1>13 DEF HasWayTo, n

(* Where a walk stops it stays.                                            *)
LEMMA StopsForGood ==
  ASSUME NEW next, SingleSteps(next), NEW i, NEW m, NEW at, IsWayTo(next, i, m, at),
         NEW k \in 0..Len(next), next[at[k]] = 0
  PROVE  at[k] = m
<1> DEFINE n == Len(next)
           T == {d \in 0..n - k : at[k + d] = at[k]}
<1>1. n \in Nat /\ k \in Nat /\ n - k \in Nat /\ at[n] = m /\ \A d \in 1..n : at[d] = Onto(next, at[d - 1])
  BY DEF SingleSteps, IsWayTo
<1> HIDE DEF n
<1>2. 0 \in T
  BY <1>1
<1>3. ASSUME NEW d \in 1..n - k, d - 1 \in T PROVE d \in T
  <2>1. k + d \in 1..n /\ (k + d) - 1 = k + (d - 1) /\ d \in 0..n - k
    BY <1>1
  <2>2. at[k + d] = Onto(next, at[k])
    BY <1>1, <1>3, <2>1
  <2> QED BY <2>1, <2>2 DEF Onto
<1>4. \A d \in 0..n - k : d \in T
  <2> HIDE DEF T
  <2> QED BY <1>1, <1>2, <1>3, InductionUpTo
<1>5. n - k \in 0..n - k /\ k + (n - k) = n
  BY <1>1
<1>6. n - k \in T
  BY <1>4, <1>5
<1>7. at[k + (n - k)] = at[k]
  BY <1>6
<1> QED BY <1>1, <1>5, <1>7

(* A walk that does not end is endless from its start.                     *)
LEMMA WayEnds ==
  ASSUME NEW next, SingleSteps(next), NEW i, NEW m, NEW at, IsWayTo(next, i, m, at), next[m] # 0
  PROVE  i \in Endless(next)
<1> DEFINE n == Len(next)
<1>1. /\ n \in Nat /\ at \in [0..n -> 1..n] /\ at[0] = i /\ at[n] = m
      /\ \A k \in 1..n : at[k] = Onto(next, at[k - 1])
  BY DEF SingleSteps, IsWayTo
<1>2. \A k \in 0..n : next[at[k]] # 0
  BY StopsForGood
<1>3. \A k \in 1..n : at[k] = next[at[k - 1]]
  <2> SUFFICES ASSUME NEW k \in 1..n PROVE at[k] = next[at[k - 1]]
    OBVIOUS
  <2>1. k - 1 \in 0..n
    BY <1>1
  <2> QED BY <1>1, <1>2, <2>1 DEF Onto
<1> HIDE DEF n
<1>4. \E x, y \in 0..n : x # y /\ at[x] = at[y]
  <2>1. IsFiniteSet(0..n) /\ Cardinality(0..n) = n + 1 /\ IsFiniteSet(1..n) /\ Cardinality(1..n) = n
    BY <1>1, FS_Interval
  <2> DEFINE A == 0..n
             B == 1..n
  <2>2. IsFiniteSet(A) /\ IsFiniteSet(B)
    BY <2>1
  <2>3. Cardinality(B) < Cardinality(A)
    <3>1. n < n + 1
      BY <1>1
    <3> HIDE DEF n
    <3> QED BY <2>1, <3>1
  <2>4. at \in [A -> B]
    BY <1>1
  <2> HIDE DEF A, B
  <2>5. \E x, y \in A : x # y /\ at[x] = at[y]
    BY <2>2, <2>3, <2>4, FS_PigeonHole
  <2> QED BY <2>5 DEF A
<1>5. PICK j \in 0..n, k \in 0..n : j < k /\ at[j] = at[k]
  <2>1. PICK x \in 0..n, y \in 0..n : x # y /\ at[x] = at[y]
    BY <1>4
  <2>2. x < y \/ y < x
    BY <1>1, <2>1
  <2> QED BY <2>1, <2>2
<1> DEFINE S == {at[d] : d \in j..k - 1}
<1>6. at[j] \in Endless(next)
  <2>1. j..k - 1 \subseteq 0..n /\ j \in j..k - 1
    BY <1>1, <1>5
  <2>2. S \in SUBSET (1..n) /\ at[j] \in S
    BY <1>1, <2>1
  <2>3. ASSUME NEW d \in j..k - 1 PROVE next[at[d]] \in S
    <3>1. d + 1 \in 1..n /\ (d + 1) - 1 = d /\ (d + 1 = k \/ d + 1 \in j..k - 1)
      BY <1>1, <1>5
    <3>2. at[d + 1] = next[at[d]]
      BY <1>3, <3>1
    <3>3. at[d + 1] \in S
      BY <1>5, <2>2, <3>1
    <3> HIDE DEF S
    <3> QED BY <3>2, <3>3
  <2>4. \A x \in S : next[x] \in S
    BY <2>3
  <2>5. at[j] \in 1..n
    BY <2>2
  <2> HIDE DEF S
  <2> QED BY <2>2, <2>4, <2>5 DEF Endless, n
<1> DEFINE T == {d \in 0..j : at[j - d] \in Endless(next)}
<1>7. \A d \in 0..j : d \in T
  <2>1. 0 \in T
    BY <1>1, <1>6
  <2>2. ASSUME NEW d \in 1..j, d - 1 \in T PROVE d \in T
    <3>1. j - d \in 0..n /\ (j - d) + 1 = j - (d - 1) /\ (j - d) + 1 \in 1..n /\ ((j - d) + 1) - 1 = j - d /\ d \in 0..j
      BY <1>1
    <3>2. at[(j - d) + 1] = next[at[j - d]] /\ at[(j - d) + 1] \in Endless(next)
      BY <1>3, <2>2, <3>1
    <3>3. at[j - d] \in 1..Len(next)
      BY <1>1, <3>1 DEF n
    <3>4. at[j - d] \in Endless(next)
      BY <3>2, <3>3, EndlessStep
    <3> QED BY <3>1, <3>4
  <2>3. j \in Nat
    BY <1>1
  <2> HIDE DEF T
  <2> QED BY <2>1, <2>2, <2>3, InductionUpTo
<1>8. j \in 0..j /\ j - j = 0
  BY <1>1
<1> QED BY <1>1, <1>7, <1>8
=============================================================================
