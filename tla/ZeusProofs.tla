------------------------------- MODULE ZeusProofs -------------------------------
(***************************************************************************)
(* The safety properties of Zeus, for identifiers of any number of bits,   *)
(* any table and any number of requests, and what the functions on         *)
(* identifiers compute.                                                    *)
(***************************************************************************)
EXTENDS Zeus, FiniteSetTheorems, SequenceTheorems, WellFoundedInduction, TLAPS

-------------------------------------------------------------------------------
(* Identifiers. *)

\* A finite set has a least element in a strict partial order R.
LEMMA LeastElement ==
  ASSUME NEW S, IsFiniteSet(S), S # {}, NEW R,
         \A x \in S : <<x, x>> \notin R,
         \A x, y, z \in S : <<x, y>> \in R /\ <<y, z>> \in R => <<x, z>> \in R
  PROVE  \E x \in S : \A y \in S : <<y, x>> \notin R
<1> DEFINE Below(x) == {y \in S : <<y, x>> \in R}
           Family   == {Below(x) : x \in S}
<1>1. Family \subseteq FiniteSubsetsOf(S) /\ Family # {}
  <2>1. \A x \in S : Below(x) \in SUBSET S /\ IsFiniteSet(Below(x))
    BY FS_Subset
  <2>2. \A V \in Family : V \in FiniteSubsetsOf(S)
    <3> SUFFICES ASSUME NEW x \in S PROVE Below(x) \in FiniteSubsetsOf(S)
      OBVIOUS
    <3> HIDE DEF Below
    <3> QED
      BY <2>1 DEF FiniteSubsetsOf
  <2>3. PICK x \in S : TRUE
    OBVIOUS
  <2>4. Below(x) \in Family
    OBVIOUS
  <2> HIDE DEF Family
  <2> QED
    BY <2>2, <2>4
<1>2. PICK T \in Family : \A V \in Family : <<V, T>> \notin StrictSubsetOrdering(S)
  <2> HIDE DEF Family
  <2> QED
    BY <1>1, WFMin, FS_StrictSubsetOrderingWellFounded
<1>3. PICK x \in S : T = Below(x)
  OBVIOUS
<1>4. ASSUME NEW y \in S, <<y, x>> \in R PROVE FALSE
  <2>1. Below(y) \subseteq T /\ y \in T /\ y \notin Below(y)
    BY <1>3, <1>4
  <2>2. Below(y) \in Family
    OBVIOUS
  <2>3. Below(y) \in SUBSET S /\ T \in SUBSET S
    BY <1>3
  <2>4. <<Below(y), T>> \in StrictSubsetOrdering(S)
    <3> HIDE DEF Below
    <3> QED
      BY <2>1, <2>3 DEF StrictSubsetOrdering
  <2> QED
    BY <1>2, <2>2, <2>4
<1> QED
  BY <1>4

\* getCommonPrefix is the index of the first bit in which two identifiers differ,
\* and Bits for equal ones.
LEMMA FirstDifference ==
  ASSUME NEW a \in ID, NEW b \in ID
  PROVE  /\ getCommonPrefix(a, b) \in 0..Bits
         /\ \A i \in 0..getCommonPrefix(a, b) - 1 : a[i] = b[i]
         /\ a # b => /\ getCommonPrefix(a, b) \in Index
                     /\ a[getCommonPrefix(a, b)] # b[getCommonPrefix(a, b)]
         /\ a = b => getCommonPrefix(a, b) = Bits
<1> DEFINE Shared == {m \in 1..Bits : \A i \in 0..m - 1 : a[i] = b[i]}
<1>0. Bits \in Nat
  BY ZeusAssumption
<1>1. CASE a = b
  <2>1. Shared = 1..Bits
    BY <1>1
  <2>2. Cardinality(1..Bits) = Bits
    BY <1>0, FS_Interval
  <2>3. getCommonPrefix(a, b) = Bits
    BY <2>1, <2>2, Zenon DEF getCommonPrefix
  <2> QED
    BY <1>0, <1>1, <2>3
<1>2. CASE a # b
  <2> DEFINE Differ == {i \in Index : a[i] # b[i]}
             Less   == {ij \in Index \X Index : ij[1] < ij[2]}
  <2>1. Differ # {}
    BY <1>2 DEF ID
  <2>2. IsFiniteSet(Differ)
    <3>1. IsFiniteSet(Index)
      BY <1>0, FS_Interval DEF Index
    <3> QED
      BY <3>1, FS_Subset
  <2>3. /\ \A x \in Differ : <<x, x>> \notin Less
        /\ \A x, y, z \in Differ : <<x, y>> \in Less /\ <<y, z>> \in Less => <<x, z>> \in Less
        /\ \A x, y \in Differ : x < y => <<x, y>> \in Less
    BY <1>0 DEF Index
  <2>4. PICK k \in Differ : \A y \in Differ : <<y, k>> \notin Less
    <3> HIDE DEF Differ, Less
    <3> QED
      BY <2>1, <2>2, <2>3, LeastElement
  <2>5. k \in Index /\ a[k] # b[k] /\ \A i \in Index : i < k => a[i] = b[i]
    BY <2>3, <2>4
  <2>6. Shared = 1..k
    BY <1>0, <2>5 DEF Index
  <2>7. Cardinality(1..k) = k
    <3>1. k \in Nat
      BY <2>5 DEF Index
    <3> HIDE DEF Differ
    <3> QED
      BY <3>1, FS_Interval
  <2>8. getCommonPrefix(a, b) = k
    BY <2>6, <2>7, Zenon DEF getCommonPrefix
  <2> QED
    BY <1>0, <1>2, <2>5, <2>8 DEF Index
<1> QED
  BY <1>1, <1>2

LEMMA PrefixIs ==
  ASSUME NEW a \in ID, NEW b \in ID, NEW k \in Index,
         a[k] # b[k], \A i \in 0..k - 1 : a[i] = b[i]
  PROVE  getCommonPrefix(a, b) = k
<1> DEFINE g == getCommonPrefix(a, b)
<1>1. g \in Index /\ a[g] # b[g] /\ \A i \in 0..g - 1 : a[i] = b[i]
  BY FirstDifference
<1> HIDE DEF g
<1>2. ~(g < k) /\ ~(k < g)
  BY <1>1, ZeusAssumption DEF Index
<1>3. g = k
  BY <1>1, <1>2, ZeusAssumption DEF Index
<1> QED
  BY <1>3 DEF g

LEMMA PrefixSymmetric ==
  ASSUME NEW a \in ID, NEW b \in ID
  PROVE  getCommonPrefix(a, b) = getCommonPrefix(b, a)
<1>1. CASE a = b
  BY <1>1
<1>2. CASE a # b
  BY <1>2, FirstDifference, PrefixIs
<1> QED
  BY <1>1, <1>2

\* Closer is a strict order of the identifiers,
LEMMA CloserTransitive ==
  ASSUME NEW t \in ID, NEW a \in ID, NEW b \in ID, NEW c \in ID,
         Closer(t, a, b), Closer(t, b, c)
  PROVE  Closer(t, a, c)
<1> DEFINE i == getCommonPrefix(a, b)
           j == getCommonPrefix(b, c)
<1>1. /\ i \in Index /\ a[i] # b[i] /\ a[i] = t[i] /\ \A k \in 0..i - 1 : a[k] = b[k]
      /\ j \in Index /\ b[j] # c[j] /\ b[j] = t[j] /\ \A k \in 0..j - 1 : b[k] = c[k]
  BY FirstDifference DEF Closer
<1> HIDE DEF i, j
<1>2. CASE i < j
  <2>1. a[i] # c[i] /\ a[i] = t[i] /\ \A k \in 0..i - 1 : a[k] = c[k]
    BY <1>1, <1>2, ZeusAssumption DEF Index
  <2> QED
    BY <1>1, <2>1, PrefixIs DEF Closer
<1>3. CASE j < i
  <2>1. a[j] # c[j] /\ a[j] = t[j] /\ \A k \in 0..j - 1 : a[k] = c[k]
    BY <1>1, <1>3, ZeusAssumption DEF Index
  <2> QED
    BY <1>1, <2>1, PrefixIs DEF Closer
<1>4. i # j
  BY <1>1
<1> QED
  BY <1>1, <1>2, <1>3, <1>4, ZeusAssumption DEF Index

\* and any two different ones are in it.
LEMMA CloserTotal ==
  ASSUME NEW t \in ID, NEW a \in ID, NEW b \in ID, a # b
  PROVE  Closer(t, a, b) \/ Closer(t, b, a)
<1> DEFINE i == getCommonPrefix(a, b)
<1>1. i \in Index /\ a[i] # b[i] /\ getCommonPrefix(b, a) = i
  BY FirstDifference, PrefixSymmetric
<1> HIDE DEF i
<1>2. a[i] \in {0, 1} /\ b[i] \in {0, 1} /\ t[i] \in {0, 1}
  BY <1>1 DEF ID
<1>3. a[i] = t[i] \/ b[i] = t[i]
  BY <1>1, <1>2
<1> QED
  BY <1>1, <1>3 DEF Closer, i

\* getClosetKey finds, in whatever order it meets the nodes, the one node that is
\* closer to the target than every other.
THEOREM ClosestIsUnique ==
  ASSUME NEW m \in SUBSET ID, IsFiniteSet(m), m # {}, NEW t \in ID
  PROVE  /\ getClosetKey(m, t) \in m
         /\ \A y \in m \ {getClosetKey(m, t)} : Closer(t, getClosetKey(m, t), y)
<1> DEFINE R == {ab \in ID \X ID : Closer(t, ab[1], ab[2])}
<1>1. \A a, b \in ID : <<a, b>> \in R <=> Closer(t, a, b)
  OBVIOUS
<1>2. \E x \in m : \A y \in m : <<y, x>> \notin R
  <2>1. \A x \in m : <<x, x>> \notin R
    BY DEF Closer
  <2>2. \A x, y, z \in m : <<x, y>> \in R /\ <<y, z>> \in R => <<x, z>> \in R
    BY <1>1, CloserTransitive
  <2> HIDE DEF R
  <2> QED
    BY <2>1, <2>2, LeastElement
<1>3. /\ getClosetKey(m, t) \in m
      /\ \A y \in m : ~Closer(t, y, getClosetKey(m, t))
  BY <1>1, <1>2, Zenon DEF getClosetKey
<1> QED
  BY <1>3, CloserTotal

LEMMA ConcatTwo ==
  ASSUME NEW a \in Int, NEW b \in Int
  PROVE  <<a>> \o <<b>> = <<a, b>> /\ <<a>> \o <<>> = <<a>>
<1>1. /\ <<a>> \in Seq(Int) /\ <<b>> \in Seq(Int) /\ <<a, b>> \in Seq(Int)
      /\ Len(<<a>>) = 1 /\ Len(<<b>>) = 1 /\ Len(<<a, b>>) = 2
  OBVIOUS
<1>2. /\ <<a>> \o <<b>> \in Seq(Int) /\ Len(<<a>> \o <<b>>) = 2
      /\ \A i \in 1..2 : (<<a>> \o <<b>>)[i] = IF i <= 1 THEN <<a>>[i] ELSE <<b>>[i - 1]
  BY <1>1, ConcatProperties
<1>3. \A i \in 1..2 : (<<a>> \o <<b>>)[i] = <<a, b>>[i]
  BY <1>2
<1>4. <<a>> \o <<b>> = <<a, b>>
  BY <1>1, <1>2, <1>3, SeqEqual
<1>5. <<a>> \o <<>> = <<a>>
  BY <1>1, ConcatEmptySeq
<1> QED
  BY <1>4, <1>5

LEMMA ConcatThree ==
  ASSUME NEW a \in Int, NEW b \in Int, NEW c \in Int
  PROVE  <<a, b>> \o <<c>> = <<a, b, c>> /\ <<a, b>> \o <<>> = <<a, b>>
<1>1. /\ <<a, b>> \in Seq(Int) /\ <<c>> \in Seq(Int) /\ <<a, b, c>> \in Seq(Int)
      /\ Len(<<a, b>>) = 2 /\ Len(<<c>>) = 1 /\ Len(<<a, b, c>>) = 3
  OBVIOUS
<1>2. /\ <<a, b>> \o <<c>> \in Seq(Int) /\ Len(<<a, b>> \o <<c>>) = 3
      /\ \A i \in 1..3 : (<<a, b>> \o <<c>>)[i] = IF i <= 2 THEN <<a, b>>[i] ELSE <<c>>[i - 2]
  BY <1>1, ConcatProperties
<1>3. \A i \in 1..3 : (<<a, b>> \o <<c>>)[i] = <<a, b, c>>[i]
  BY <1>2
<1>4. <<a, b>> \o <<c>> = <<a, b, c>>
  BY <1>1, <1>2, <1>3, SeqEqual
<1>5. <<a, b>> \o <<>> = <<a, b>>
  BY <1>1, ConcatEmptySeq
<1> QED
  BY <1>4, <1>5

\* Whatever the target, its distance and two other ones, different and from 1 to
\* Bits, are asked for: the loop of lookupDistances (zeus.go:279) ends with three,
\* at the ends of the range of distances too.
THEOREM ThreeDistances ==
  ASSUME NEW td \in 0..Bits
  PROVE  \E x, y \in (1..Bits) \ {td} : x # y /\ LookupAround(td) = <<td, x, y>>
<1>0. Bits \in Nat /\ Bits >= 4 /\ td \in Int
  BY ZeusAssumption
<1>1. CASE td <= 1
  <2>1. td + 1 < Bits /\ td + 2 < Bits /\ ~(td - 1 > 0) /\ ~(td - 2 > 0)
    BY <1>0, <1>1
  <2>2. Round(<<td>>, td, 1) = <<td, td + 1>>
    BY <1>0, <2>1, ConcatTwo, ConcatThree DEF Round
  <2>3. LookupAround(td) = <<td, td + 1, td + 2>>
    <3>1. Round(<<td, td + 1>>, td, 2) = <<td, td + 1, td + 2>>
      <4>1. <<td, td + 1>> \o <<td + 2>> = <<td, td + 1, td + 2>>
        BY <1>0, ConcatThree
      <4>2. <<td, td + 1, td + 2>> \o <<>> = <<td, td + 1, td + 2>>
        BY <1>0, ConcatEmptySeq
      <4> QED
        BY <2>1, <4>1, <4>2 DEF Round
    <3> QED
      BY <2>2, <3>1 DEF LookupAround
  <2> QED
    BY <1>0, <1>1, <2>3
<1>2. CASE td >= Bits - 1
  <2>1. ~(td + 1 < Bits) /\ ~(td + 2 < Bits) /\ td - 1 > 0 /\ td - 2 > 0
    BY <1>0, <1>2
  <2>2. Round(<<td>>, td, 1) = <<td, td - 1>>
    BY <1>0, <2>1, ConcatTwo DEF Round
  <2>3. LookupAround(td) = <<td, td - 1, td - 2>>
    <3>1. Round(<<td, td - 1>>, td, 2) = <<td, td - 1, td - 2>>
      BY <1>0, <2>1, ConcatThree DEF Round
    <3> QED
      BY <2>2, <3>1 DEF LookupAround
  <2> QED
    BY <1>0, <1>2, <2>3
<1>3. CASE td > 1 /\ td < Bits - 1
  <2>1. td + 1 < Bits /\ td - 1 > 0
    BY <1>0, <1>3
  <2>2. Round(<<td>>, td, 1) = <<td, td + 1, td - 1>>
    <3>1. <<td>> \o <<td + 1>> = <<td, td + 1>>
      BY <1>0, ConcatTwo
    <3>2. <<td, td + 1>> \o <<td - 1>> = <<td, td + 1, td - 1>>
      BY <1>0, ConcatThree
    <3> QED
      BY <2>1, <3>1, <3>2 DEF Round
  <2>3. LookupAround(td) = <<td, td + 1, td - 1>>
    <3> DEFINE once == Round(<<td>>, td, 1)
    <3>1. ~(Len(once) < 3)
      <4>1. Len(<<td, td + 1, td - 1>>) = 3
        OBVIOUS
      <4>2. Len(once) = 3
        BY <2>2, <4>1, Zenon
      <4> HIDE DEF once
      <4> QED
        BY <4>2
    <3> QED
      BY <2>2, <3>1, Zenon DEF LookupAround
  <2> QED
    BY <1>0, <1>3, <2>3
<1> QED
  BY <1>0, <1>1, <1>2, <1>3

LEMMA TargetsTyped ==
  /\ ALL_ZERO \in ID /\ ALL_ONES \in ID
  /\ \A p \in ID \X ID : leftTarget(p) \in ID /\ rightTarget(p) \in ID
BY DEF ALL_ZERO, ALL_ONES, ID, leftTarget, rightTarget, mergeWith01, mergeWith10, SetTail

LEMMA ByteEndBehind ==
  ASSUME NEW length \in Nat PROVE ByteEnd(length) \in Nat /\ ByteEnd(length) > length
<1>1. ByteBits \in Nat /\ ByteBits > 0
  BY ZeusAssumption
<1>2. ASSUME NEW k \in Nat, NEW b \in Nat, b > 0
      PROVE  (k \div b + 1) * b \in Nat /\ (k \div b + 1) * b > k
  BY <1>2
<1> QED
  BY <1>1, <1>2 DEF ByteEnd

\* The targets of a split lie on their own side of it: each shares with its end of
\* the pair the bits up to the first one in which the ends differ, with that one,
\* so that a request is made for it unless it is the end itself (zeus.go:230, 244).
THEOREM TargetsOnTheirSide ==
  ASSUME NEW p \in ID \X ID, p[1] # p[2]
  PROVE  /\ getCommonPrefix(leftTarget(p), p[1]) > getCommonPrefix(p[1], p[2])
         /\ getCommonPrefix(rightTarget(p), p[2]) > getCommonPrefix(p[1], p[2])
         /\ leftTarget(p) # p[1] => Before(p[1], leftTarget(p))
         /\ rightTarget(p) # p[2] => Before(rightTarget(p), p[2])
<1> DEFINE n == getCommonPrefix(p[1], p[2])
<1>1. n \in Index
  BY FirstDifference
<1>2. Bits \in Nat /\ n \in Nat /\ ByteEnd(n) > n
  BY <1>1, ByteEndBehind, ZeusAssumption DEF Index
<1>3. ASSUME NEW a \in ID, NEW bit \in {0, 1}
      PROVE  /\ SetTail(a, n, bit) \in ID
             /\ \A i \in Index : SetTail(a, n, bit)[i] \in {a[i], bit}
             /\ \A i \in 0..n : SetTail(a, n, bit)[i] = a[i]
  <2> DEFINE e == ByteEnd(n)
  <2>1. e \in Nat /\ e > n
    BY <1>2, ByteEndBehind
  <2>2. SetTail(a, n, bit) = IF n = Bits - 1 THEN a
                             ELSE [i \in Index |-> IF i < e THEN a[i] ELSE bit]
    BY DEF SetTail
  <2> HIDE DEF e, n
  <2> QED
    BY <1>1, <1>2, <2>1, <2>2 DEF ID, Index
<1> HIDE DEF n
<1>4. ASSUME NEW a \in ID, NEW t \in ID, \A i \in 0..n : t[i] = a[i]
      PROVE  getCommonPrefix(t, a) > n /\ (t # a => getCommonPrefix(t, a) \in Index
               /\ t[getCommonPrefix(t, a)] # a[getCommonPrefix(t, a)])
  <2>1. t # a => getCommonPrefix(t, a) \in Index
                   /\ t[getCommonPrefix(t, a)] # a[getCommonPrefix(t, a)]
    BY FirstDifference
  <2>2. t = a => getCommonPrefix(t, a) = Bits
    BY FirstDifference
  <2> QED
    BY <1>1, <1>2, <1>4, <2>1, <2>2 DEF Index
<1>5. leftTarget(p) = SetTail(p[1], n, 1) /\ rightTarget(p) = SetTail(p[2], n, 0)
  BY DEF leftTarget, rightTarget, mergeWith01, mergeWith10, n
<1>6. /\ getCommonPrefix(leftTarget(p), p[1]) > n
      /\ leftTarget(p) # p[1] => Before(p[1], leftTarget(p))
  <2> DEFINE t == leftTarget(p)
             g == getCommonPrefix(t, p[1])
  <2>1. /\ t \in ID /\ (\A i \in Index : t[i] \in {p[1][i], 1}) /\ \A i \in 0..n : t[i] = p[1][i]
    BY <1>3, <1>5
  <2>2. g > n /\ (t # p[1] => g \in Index /\ t[g] # p[1][g] /\ getCommonPrefix(p[1], t) = g)
    BY <1>4, <2>1, PrefixSymmetric
  <2>3. t # p[1] => p[1][g] = 0
    BY <2>1, <2>2 DEF ID
  <2> QED
    BY <2>2, <2>3 DEF Before
<1>7. /\ getCommonPrefix(rightTarget(p), p[2]) > n
      /\ rightTarget(p) # p[2] => Before(rightTarget(p), p[2])
  <2> DEFINE t == rightTarget(p)
             g == getCommonPrefix(t, p[2])
  <2>1. /\ t \in ID /\ (\A i \in Index : t[i] \in {p[2][i], 0}) /\ \A i \in 0..n : t[i] = p[2][i]
    BY <1>3, <1>5
  <2>2. g > n /\ (t # p[2] => g \in Index /\ t[g] # p[2][g])
    BY <1>4, <2>1
  <2>3. t # p[2] => t[g] = 0
    BY <2>1, <2>2 DEF ID
  <2> QED
    BY <2>2, <2>3 DEF Before
<1> QED
  BY <1>6, <1>7 DEF n

\* What a node answers is a part of its table, and the node of it that is closest
\* to the target an identifier.
LEMMA AnswerTyped ==
  ASSUME NEW t \in ID, NEW m \in Answer(t)
  PROVE  m \subseteq Table /\ (m # {} => getClosetKey(m, t) \in ID)
<1>1. m \in SUBSET Table /\ m \in SUBSET ID /\ IsFiniteSet(m)
  BY FS_Subset, ZeusAssumption DEF Answer
<1>2. m # {} => getClosetKey(m, t) \in m
  BY <1>1, ClosestIsUnique
<1> QED
  BY <1>1, <1>2

-------------------------------------------------------------------------------
(* Types, and the ends of the pairs: a pair is queued only if they differ, *)
(* and a split takes the first of the queue.                               *)

Proper(s) == \A i \in 1..Len(s) : s[i][1] # s[i][2]

Basic ==
  /\ TypeOK /\ Proper(q)
  /\ pc \in {"left", "right"} => pair \in ID \X ID /\ pair[1] # pair[2]

LEMMA PushTyped ==
  ASSUME NEW s \in Seq(ID \X ID), Proper(s), NEW a \in ID, NEW b \in ID
  PROVE  Pushed(a, b, s) \in Seq(ID \X ID) /\ Proper(Pushed(a, b, s))
<1>1. CASE a = b
  BY <1>1 DEF Pushed
<1>2. CASE a # b
  <2> DEFINE x == <<a, b>>
  <2>1. x \in ID \X ID /\ x[1] # x[2]
    BY <1>2
  <2> HIDE DEF x
  <2>2. /\ Append(s, x) \in Seq(ID \X ID) /\ Len(Append(s, x)) = Len(s) + 1 /\ Len(s) \in Nat
        /\ \A i \in 1..Len(s) : Append(s, x)[i] = s[i]
        /\ Append(s, x)[Len(s) + 1] = x
    BY <2>1, AppendProperties, LenProperties
  <2>3. \A i \in 1..Len(s) + 1 : i \in 1..Len(s) \/ i = Len(s) + 1
    BY <2>2
  <2>4. Proper(Append(s, x))
    BY <2>1, <2>2, <2>3 DEF Proper
  <2>5. Pushed(a, b, s) = Append(s, x)
    BY <1>2 DEF Pushed, x
  <2> QED
    BY <2>2, <2>4, <2>5
<1> QED
  BY <1>1, <1>2

LEMMA PopTyped ==
  ASSUME NEW s \in Seq(ID \X ID), Proper(s), s # <<>>
  PROVE  /\ Head(s) \in ID \X ID /\ Head(s)[1] # Head(s)[2]
         /\ Tail(s) \in Seq(ID \X ID) /\ Proper(Tail(s))
<1>1. /\ Head(s) \in ID \X ID /\ Tail(s) \in Seq(ID \X ID) /\ Len(Tail(s)) = Len(s) - 1
      /\ \A i \in 1..Len(Tail(s)) : Tail(s)[i] = s[i + 1]
      /\ Len(s) \in Nat \ {0} /\ Head(s) = s[1]
  BY HeadTailProperties, EmptySeq
<1>2. Head(s)[1] # Head(s)[2]
  BY <1>1 DEF Proper
<1>3. Proper(Tail(s))
  BY <1>1 DEF Proper
<1> QED
  BY <1>1, <1>2, <1>3

LEMMA CountTyped == TypeOK /\ CountSent => sent' \in 0..MaxRequests + 2
BY ZeusAssumption DEF TypeOK, CountSent, SentCap

LEMMA BasicInit == Init => Basic
<1> SUFFICES ASSUME Init PROVE Basic
  OBVIOUS
<1>1. q \in Seq(ID \X ID) /\ Proper(q)
  BY EmptySeq DEF Init, Proper
<1> QED
  BY <1>1, ZeusAssumption DEF Init, Basic, TypeOK

LEMMA BasicNext == Basic /\ [Next]_vars => Basic'
<1> SUFFICES ASSUME Basic, [Next]_vars PROVE Basic'
  OBVIOUS
<1>0. /\ TypeOK /\ q \in Seq(ID \X ID) /\ Proper(q)
      /\ (CountSent => sent' \in 0..MaxRequests + 2)
      /\ l \subseteq Table /\ result \subseteq Table /\ answers \subseteq Table
      /\ first \in ID \cup {NoID}
      /\ pair \in (ID \cup {NoID}) \X (ID \cup {NoID})
  BY CountTyped DEF Basic, TypeOK
<1>1. CASE RequestFails
  BY <1>0, <1>1 DEF RequestFails, Finish, Basic, TypeOK
<1>2. CASE RequestZeros
  <2>1. PICK m \in Answer(ALL_ZERO) :
          Take(m) /\ first' = IF m = {} THEN NoID ELSE getClosetKey(m, ALL_ZERO)
    BY <1>2 DEF RequestZeros
  <2>2. m \subseteq Table /\ (m # {} => getClosetKey(m, ALL_ZERO) \in ID)
    BY TargetsTyped, AnswerTyped
  <2> QED
    BY <1>0, <1>2, <2>1, <2>2 DEF RequestZeros, Take, Merge, Basic, TypeOK
<1>3. CASE RequestOnes
  <2>1. PICK m \in Answer(ALL_ONES) :
          /\ Take(m)
          /\ IF Failed(m) THEN Finish({}) /\ UNCHANGED q
             ELSE /\ q' = Pushed(first, getClosetKey(m, ALL_ONES), q)
                  /\ pc' = "loop" /\ UNCHANGED result
    BY <1>3 DEF RequestOnes
  <2>2. m \subseteq Table /\ (m # {} => getClosetKey(m, ALL_ONES) \in ID)
    BY TargetsTyped, AnswerTyped
  <2>3. q' \in Seq(ID \X ID) /\ Proper(q')
    BY <1>0, <2>1, <2>2, PushTyped DEF Failed
  <2>4. pc' \in {"loop", "done"} /\ result' \subseteq Table
    BY <1>0, <2>1 DEF Finish
  <2> QED
    BY <1>0, <1>3, <2>1, <2>2, <2>3, <2>4 DEF RequestOnes, Take, Merge, Basic, TypeOK
<1>4. CASE Pop
  <2>1. /\ pair' \in ID \X ID /\ pair'[1] # pair'[2]
        /\ q' \in Seq(ID \X ID) /\ Proper(q')
    BY <1>0, <1>4, PopTyped DEF Pop
  <2>2. pc' \in {"left", "right", "loop"}
    BY <1>4 DEF Pop, AfterLeft
  <2> QED
    BY <1>0, <1>4, <2>1, <2>2 DEF Pop, Basic, TypeOK
<1>5. CASE LoopEnds
  BY <1>0, <1>5 DEF LoopEnds, Finish, Basic, TypeOK
<1>6. CASE RequestLeft
  <2> DEFINE t == leftTarget(pair)
  <2>1. t \in ID /\ pair[1] \in ID
    BY <1>6, TargetsTyped DEF RequestLeft, Basic
  <2>2. PICK m \in Answer(t) :
          /\ Take(m)
          /\ IF m = {} THEN pc' = "loop" /\ UNCHANGED q
             ELSE q' = Pushed(pair[1], getClosetKey(m, t), q) /\ pc' = AfterLeft(pair)
    BY <1>6 DEF RequestLeft
  <2>3. m \subseteq Table /\ (m # {} => getClosetKey(m, t) \in ID)
    BY <2>1, AnswerTyped
  <2> HIDE DEF t
  <2>4. q' \in Seq(ID \X ID) /\ Proper(q') /\ pc' \in {"right", "loop"}
    BY <1>0, <2>1, <2>2, <2>3, PushTyped DEF AfterLeft
  <2> QED
    BY <1>0, <1>6, <2>2, <2>3, <2>4 DEF RequestLeft, Take, Merge, Basic, TypeOK
<1>7. CASE RequestRight
  <2> DEFINE t == rightTarget(pair)
  <2>1. t \in ID /\ pair[2] \in ID
    BY <1>7, TargetsTyped DEF RequestRight, Basic
  <2>2. PICK m \in Answer(t) :
          Take(m) /\ q' = IF m = {} THEN q ELSE Pushed(getClosetKey(m, t), pair[2], q)
    BY <1>7 DEF RequestRight
  <2>3. m \subseteq Table /\ (m # {} => getClosetKey(m, t) \in ID)
    BY <2>1, AnswerTyped
  <2> HIDE DEF t
  <2>4. q' \in Seq(ID \X ID) /\ Proper(q')
    BY <1>0, <2>1, <2>2, <2>3, PushTyped
  <2> QED
    BY <1>0, <1>7, <2>2, <2>3, <2>4 DEF RequestRight, Take, Merge, Basic, TypeOK
<1>8. CASE UNCHANGED vars
  BY <1>0, <1>8 DEF vars, Basic, TypeOK
<1> QED
  BY <1>1, <1>2, <1>3, <1>4, <1>5, <1>6, <1>7, <1>8 DEF Next

LEMMA BasicAlways == FairSpec => []Basic
BY BasicInit, BasicNext, PTL DEF FairSpec

\* Every state has the types TypeOK gives: what is queued and split are pairs of
\* identifiers, for getClosetKey is asked only for nodes of an answer that is not
\* empty (zeus.go:216, 235, 249).
THEOREM TypeCorrect == FairSpec => []TypeOK
<1>1. Basic => TypeOK
  BY DEF Basic
<1> QED
  BY <1>1, BasicAlways, PTL

\* The ends of every pair that is queued or split differ (zeus.go:219, 240, 254).
THEOREM ProperPairs == FairSpec => []EndsDiffer
<1>1. Basic => EndsDiffer
  BY DEF Basic, Proper, EndsDiffer
<1> QED
  BY <1>1, BasicAlways, PTL

\* A pair that is queued or split has a first bit in which its ends differ, so the
\* byte of an identifier that mergeWith01 and mergeWith10 look at exists
\* (zeus.go:143, 166).
SplitWithin ==
  /\ \A i \in 1..Len(q) : getCommonPrefix(q[i][1], q[i][2]) \in Index
  /\ pc \in {"left", "right"} => getCommonPrefix(pair[1], pair[2]) \in Index

THEOREM SplitsWithin == FairSpec => []SplitWithin
<1>1. Basic => SplitWithin
  <2> SUFFICES ASSUME Basic PROVE SplitWithin
    OBVIOUS
  <2>1. ASSUME NEW i \in 1..Len(q) PROVE getCommonPrefix(q[i][1], q[i][2]) \in Index
    <3>1. q[i] \in ID \X ID
      BY ElementOfSeq DEF Basic, TypeOK
    <3>2. q[i][1] # q[i][2]
      BY DEF Basic, Proper
    <3> QED
      BY <3>1, <3>2, FirstDifference
  <2>2. pc \in {"left", "right"} => getCommonPrefix(pair[1], pair[2]) \in Index
    BY FirstDifference DEF Basic
  <2> QED
    BY <2>1, <2>2 DEF SplitWithin
<1> QED
  BY <1>1, BasicAlways, PTL

-------------------------------------------------------------------------------
(* The requests, and what was found with them.                             *)

Budget ==
  /\ sent <= MaxRequests + 1
  /\ pc = "zeros" => sent = 0
  /\ pc = "ones"  => sent = 1
  /\ pc = "left"  => sent < MaxRequests
  /\ pc = "right" => sent <= MaxRequests

LEMMA BudgetNext == Basic /\ Budget /\ [Next]_vars => Budget'
<1> SUFFICES ASSUME Basic, Budget, [Next]_vars PROVE Budget'
  OBVIOUS
<1>0. sent \in 0..MaxRequests + 2 /\ MaxRequests \in Nat /\ MaxRequests >= 2
  BY ZeusAssumption DEF Basic, TypeOK
<1> USE DEF Budget, Take, CountSent, SentCap, Finish, AfterLeft, InTime
<1>1. CASE RequestFails
  BY <1>0, <1>1 DEF RequestFails
<1>2. CASE RequestZeros
  BY <1>0, <1>2 DEF RequestZeros
<1>3. CASE RequestOnes
  BY <1>0, <1>3 DEF RequestOnes
<1>4. CASE Pop
  BY <1>0, <1>4 DEF Pop
<1>5. CASE LoopEnds
  BY <1>0, <1>5 DEF LoopEnds
<1>6. CASE RequestLeft
  BY <1>0, <1>6 DEF RequestLeft
<1>7. CASE RequestRight
  BY <1>0, <1>7 DEF RequestRight
<1>8. CASE UNCHANGED vars
  BY <1>8 DEF vars
<1> QED
  BY <1>1, <1>2, <1>3, <1>4, <1>5, <1>6, <1>7, <1>8 DEF Next

\* A crawl makes at most one request more than fit in its time: the time is looked
\* at before a pair is split and not between its two requests (zeus.go:223, 244).
THEOREM BoundedRequests == FairSpec => []RequestsBounded
<1>1. Init => Budget
  BY ZeusAssumption DEF Init, Budget
<1>2. Budget => RequestsBounded
  BY DEF Budget, RequestsBounded
<1> QED
  BY <1>1, <1>2, BasicInit, BasicNext, BudgetNext, PTL DEF FairSpec

Found == l = answers /\ AllOrNothing

LEMMA FoundNext == Found /\ [Next]_vars => Found'
<1> SUFFICES ASSUME Found, [Next]_vars PROVE Found'
  OBVIOUS
<1> USE DEF Found, AllOrNothing, Take, Merge, Finish, AfterLeft
<1>1. CASE RequestFails
  BY <1>1 DEF RequestFails
<1>2. CASE RequestZeros
  BY <1>2 DEF RequestZeros
<1>3. CASE RequestOnes
  BY <1>3 DEF RequestOnes
<1>4. CASE Pop
  BY <1>4 DEF Pop
<1>5. CASE LoopEnds
  BY <1>5 DEF LoopEnds
<1>6. CASE RequestLeft
  BY <1>6 DEF RequestLeft
<1>7. CASE RequestRight
  BY <1>7 DEF RequestRight
<1>8. CASE UNCHANGED vars
  BY <1>8 DEF vars
<1> QED
  BY <1>1, <1>2, <1>3, <1>4, <1>5, <1>6, <1>7, <1>8 DEF Next

\* A crawl returns every node that an answer held, or nil: also after many requests
\* one that fails drops what was found (zeus.go:233, 247), on which the caller's
\* result == nil depends (crawler.go:370).
THEOREM ReturnsAllOrNothing == FairSpec => []AllOrNothing
<1>1. Init => Found
  BY DEF Init, Found, AllOrNothing
<1>2. Found => AllOrNothing
  BY DEF Found
<1> QED
  BY <1>1, <1>2, FoundNext, PTL DEF FairSpec
===============================================================================
