-------------------------- MODULE ModbusTcp_proofs --------------------------
(***************************************************************************)
(* Proofs about the Modbus TCP driver, for every layout, device memory,    *)
(* number of faults and order of the areas: that merging gives requests    *)
(* that hold each tag that may be read, that a good value is the tag's own *)
(* and of this read, and that a clean read misses no tag.                  *)
(***************************************************************************)
EXTENDS ModbusTcp, Integers, SequenceTheorems, FiniteSetTheorems,
        WellFoundedInduction, TLAPS

-----------------------------------------------------------------------------
(* Sequences: a function on 1..n is one, over its own values.              *)
LEMMA IsSequence ==
    ASSUME NEW n \in Nat, NEW s, s = [k \in 1..n |-> s[k]]
    PROVE  s \in Seq(ToSet(s)) /\ Len(s) = n /\ DOMAIN s = 1..n
<1>1. DOMAIN s = 1..n
  OBVIOUS
<1>2. s \in [1..n -> ToSet(s)]
  BY <1>1 DEF ToSet
<1>3. s \in Seq(ToSet(s))
  BY <1>2, SeqDef
<1>4. QED
  BY <1>1, <1>3, LenProperties

(* A sequence and one element more.                                        *)
IsAppended(t, s, x) ==
    /\ t \in Seq(ToSet(t))
    /\ Len(t) = Len(s) + 1
    /\ DOMAIN t = 1..Len(t)
    /\ DOMAIN s = 1..Len(s) /\ Len(s) \in Nat
    /\ \A k \in 1..Len(s) : t[k] = s[k]
    /\ t[Len(t)] = x

LEMMA AppendIs ==
    ASSUME NEW s, s \in Seq(ToSet(s)), NEW x, NEW t, t = Append(s, x)
    PROVE  IsAppended(t, s, x)
<1> DEFINE S == ToSet(s) \cup {x}
<1>1. s \in Seq(S)
  BY SeqMonotonic
<1>2. x \in S
  OBVIOUS
<1> HIDE DEF S
<1>3. /\ t \in Seq(S) /\ Len(t) = Len(s) + 1
      /\ \A k \in 1..Len(s) : t[k] = s[k]
      /\ t[Len(s) + 1] = x
  BY <1>1, <1>2
<1>4. Len(s) \in Nat /\ DOMAIN s = 1..Len(s)
  BY <1>1, LenProperties
<1>5. t = [k \in 1..Len(t) |-> t[k]] /\ Len(t) \in Nat
  BY <1>3, LenProperties
<1>6. t \in Seq(ToSet(t)) /\ DOMAIN t = 1..Len(t)
  BY <1>5, IsSequence
<1>7. QED
  BY <1>3, <1>4, <1>6 DEF IsAppended

(* What a suffix, and the tail, of a sequence is.                          *)
IsRest(t, s, n) ==
    /\ t \in Seq(ToSet(t))
    /\ Len(t) = Len(s) - n
    /\ DOMAIN t = 1..Len(t)
    /\ DOMAIN s = 1..Len(s) /\ Len(s) \in Nat
    /\ \A k \in 1..Len(t) : t[k] = s[k + n]

LEMMA SuffixIs ==
    ASSUME NEW s, s \in Seq(ToSet(s)), NEW n \in 0..Len(s),
           NEW t, t = SubSeq(s, n + 1, Len(s))
    PROVE  IsRest(t, s, n)
<1>1. Len(s) \in Nat /\ DOMAIN s = 1..Len(s)
  BY LenProperties
<1>2. \A k \in n + 1..Len(s) : s[k] \in ToSet(s)
  BY <1>1 DEF ToSet
<1>3. /\ t \in Seq(ToSet(s))
      /\ Len(t) = IF n + 1 <= Len(s) THEN Len(s) - (n + 1) + 1 ELSE 0
      /\ \A k \in 1..Len(s) - (n + 1) + 1 : t[k] = s[(n + 1) + k - 1]
  BY <1>1, <1>2, SubSeqProperties
<1>4. Len(t) = Len(s) - n
  <2>1. ASSUME NEW l, NEW lt, l \in Nat, n \in 0..l,
               lt = IF n + 1 <= l THEN l - (n + 1) + 1 ELSE 0
        PROVE  lt = l - n
    BY ONLY <2>1
  <2>2. QED
    BY <1>1, <1>3, <2>1
<1>5. ASSUME NEW k \in 1..Len(t) PROVE t[k] = s[k + n]
  <2>1. k \in 1..Len(s) - (n + 1) + 1 /\ (n + 1) + k - 1 = k + n
    <3>1. ASSUME NEW l \in Nat, NEW lt, n \in 0..l, lt = l - n, k \in 1..lt
          PROVE  k \in 1..l - (n + 1) + 1 /\ (n + 1) + k - 1 = k + n
      BY ONLY <3>1
    <3>2. QED
      BY <1>1, <1>4, <3>1
  <2>2. QED
    BY <1>3, <2>1
<1>6. t = [k \in 1..Len(t) |-> t[k]] /\ Len(t) \in Nat
  BY <1>3, LenProperties
<1>7. t \in Seq(ToSet(t)) /\ DOMAIN t = 1..Len(t)
  BY <1>6, IsSequence
<1>8. QED
  BY <1>1, <1>4, <1>5, <1>7 DEF IsRest

LEMMA TailIs ==
    ASSUME NEW s, s \in Seq(ToSet(s)), s # <<>>
    PROVE  Head(s) = s[1] /\ 1 \in DOMAIN s /\ 1 \in 0..Len(s)
<1>1. Len(s) \in Nat \ {0} /\ DOMAIN s = 1..Len(s)
  BY EmptySeq, LenProperties
<1>2. QED
  BY <1>1

-----------------------------------------------------------------------------
(* The rows of a layout.  The sets are parameters, so that the provers     *)
(* need not look into them.                                                *)
LEMMA RowFields ==
    ASSUME NEW A, NEW B, NEW C, NEW D, NEW E, NEW F,
           NEW t \in [address : A, type : B, length : C, bit : D, order : E,
                      access : F]
    PROVE  t.address \in A /\ t.type \in B /\ t.length \in C
  OBVIOUS

LEMMA AddressFields ==
    ASSUME NEW A, NEW B, NEW t \in [area : A, number : B]
    PROVE  t.area \in A /\ t.number \in B
  OBVIOUS

LEMMA RowType ==
    ASSUME NEW t \in TagRows
    PROVE  /\ Offset(t) \in Int
           /\ ParsesAddress(t) => Offset(t) \in Nat
           /\ RegisterCount(t) \in Nat \ {0}
<1> DEFINE Num == 0..9999
           Area_ == Areas \cup {"other"}
           Address == [area : Area_, number : Num]
           Length == 1..100
           Bit == 0..15
           Order == Seq(1..8)
           Access == {"RO", "RW", "WO"}
<1>0. TagRows = [address : Address, type : Types, length : Length, bit : Bit,
                 order : Order, access : Access]
  BY DEF TagRows
<1> HIDE DEF Address, Length, Bit, Order, Access
<1>1. t \in [address : Address, type : Types, length : Length, bit : Bit,
             order : Order, access : Access]
  BY <1>0
<1>2. t.address \in Address /\ t.type \in Types /\ t.length \in Length
  BY <1>1, RowFields
<1>3. t.length \in Nat \ {0}
  BY <1>2 DEF Length
<1> HIDE DEF Num, Area_
<1>4. t.address \in [area : Area_, number : Num]
  BY <1>2 DEF Address
<1> HIDE DEF Num, Area_
<1>5. t.address.number \in Num
  BY <1>4, AddressFields
<1>6. t.address.number \in Nat
  <2>1. \A x \in Num : x \in Nat
    BY DEF Num
  <2>2. QED
    BY <1>5, <2>1
<1>7. RegisterCount(t) \in Nat \ {0}
  BY <1>2, <1>3 DEF RegisterCount, Types
<1>8. Offset(t) \in Int /\ (ParsesAddress(t) => Offset(t) \in Nat)
  BY <1>6 DEF Offset, ParsesAddress
<1>9. QED
  BY <1>7, <1>8

(* The register a tag begins at, and how many it has.                      *)
LEMMA Rows ==
    ASSUME conf \in Layouts, NEW i \in Tags
    PROVE  /\ Offset(conf[i]) \in Int
           /\ ParsesAddress(conf[i]) => Offset(conf[i]) \in Nat
           /\ RegisterCount(conf[i]) \in Nat \ {0}
<1>1. conf[i] \in TagRows
  <2>1. conf \in [Tags -> TagRows]
    BY LayoutsOK
  <2> HIDE DEF TagRows
  <2>2. QED
    BY <2>1
<1>2. QED
  BY <1>1, RowType

(* The order of sortByOffset.                                              *)
LEMMA BeforeOrders ==
    ASSUME conf \in Layouts, NEW i \in Tags, NEW j \in Tags
    PROVE  /\ ~Before(i, i)
           /\ i # j => Before(i, j) \/ Before(j, i)
           /\ ~(Before(i, j) /\ Before(j, i))
           /\ \A k \in Tags : Before(i, j) /\ Before(j, k) => Before(i, k)
           /\ Before(i, j) => Offset(conf[i]) <= Offset(conf[j])
<1>1. \A k \in Tags : Offset(conf[k]) \in Int /\ k \in Int
  BY Rows DEF Tags
<1>2. QED
  BY <1>1 DEF Before

(* Sorting a group gives its tags, each once, in that order.               *)
LEMMA SortSorts ==
    ASSUME conf \in Layouts, NEW S \in SUBSET Tags
    PROVE  /\ SortByOffset(S) \in SetToSeqs(S)
           /\ \A k, l \in DOMAIN SortByOffset(S) :
                 k < l => Before(SortByOffset(S)[k], SortByOffset(S)[l])
<1>0. IsFiniteSet(Tags)
  BY BoundsOK, FS_Interval DEF Tags
<1> DEFINE n == Cardinality(S)
           Up(i) == {j \in S : Before(j, i)} \cup {i}
           rank == [i \in S |-> Cardinality(Up(i))]
<1>1. IsFiniteSet(S) /\ n \in Nat
  BY <1>0, FS_Subset, FS_CardinalityType
<1>2. \A i \in S : /\ IsFiniteSet(Up(i)) /\ Up(i) \in SUBSET S
                   /\ Cardinality(Up(i)) \in 1..n
  <2> SUFFICES ASSUME NEW i \in S
               PROVE  /\ IsFiniteSet(Up(i)) /\ Up(i) \in SUBSET S
                      /\ Cardinality(Up(i)) \in 1..n
    OBVIOUS
  <2>1. Up(i) \in SUBSET S /\ Up(i) # {}
    OBVIOUS
  <2> HIDE DEF Up
  <2>2. IsFiniteSet(Up(i)) /\ Cardinality(Up(i)) <= n
    BY <1>1, <2>1, FS_Subset
  <2>3. Cardinality(Up(i)) \in Nat /\ Cardinality(Up(i)) # 0
    BY <2>1, <2>2, FS_CardinalityType, FS_EmptySet
  <2>4. QED
    BY <1>1, <2>1, <2>2, <2>3
<1>3. \A i, j \in S : Before(i, j) => rank[i] < rank[j]
  <2> SUFFICES ASSUME NEW i \in S, NEW j \in S, Before(i, j)
               PROVE  Cardinality(Up(i)) < Cardinality(Up(j))
    BY Zenon
  <2>1. Up(i) \in SUBSET Up(j) /\ j \notin Up(i) /\ j \in Up(j)
    BY BeforeOrders
  <2> HIDE DEF Up
  <2>2. /\ Cardinality(Up(i)) <= Cardinality(Up(j))
        /\ Cardinality(Up(i)) # Cardinality(Up(j))
    BY <1>2, <2>1, FS_Subset
  <2>3. QED
    BY <1>1, <1>2, <2>2
<1>4. rank \in Injection(S, 1..n)
  <2>1. rank \in [S -> 1..n]
    BY <1>2
  <2>2. \A i, j \in S : rank[i] = rank[j] => i = j
    <3> HIDE DEF rank
    <3>1. \A i \in S : rank[i] \in Int
      BY <1>1, <2>1
    <3>2. QED
      BY <1>3, <3>1, BeforeOrders
  <2>3. QED
    BY <2>1, <2>2 DEF Injection, IsInjective
<1>5. rank \in Surjection(S, 1..n)
  <2>1. IsFiniteSet(1..n) /\ Cardinality(1..n) = n
    BY <1>1, FS_Interval
  <2>2. QED
    BY <1>4, <2>1, FS_Injection
<1> HIDE DEF rank, Up
<1>6. \A k \in 1..n : \E i \in S : rank[i] = k
  BY <1>5 DEF Surjection
<1> DEFINE s == [k \in 1..n |-> CHOOSE i \in S : rank[i] = k]
<1>7. \A k \in 1..n : s[k] \in S /\ rank[s[k]] = k
  BY <1>6
<1>8. s \in SetToSeqs(S)
  BY <1>7 DEF SetToSeqs
<1>9. \A k, l \in DOMAIN s : k < l => Before(s[k], s[l])
  <2> SUFFICES ASSUME NEW k \in 1..n, NEW l \in 1..n, k < l,
                      ~Before(s[k], s[l])
               PROVE  FALSE
    OBVIOUS
  <2>1. rank[s[k]] = k /\ rank[s[l]] = l /\ s[k] \in S /\ s[l] \in S
    BY <1>7
  <2> HIDE DEF s
  <2>2. s[k] # s[l]
    BY <2>1
  <2>3. Before(s[l], s[k])
    BY <2>1, <2>2, BeforeOrders
  <2>4. QED
    BY <1>3, <2>1, <2>3
<1> HIDE DEF s
<1>10. QED
  BY <1>8, <1>9 DEF SortByOffset

-----------------------------------------------------------------------------
(* Induction: a set of numbers that is not empty has a least one.  (From   *)
(* the library's theorem for well-founded relations in its form without an *)
(* operator as a parameter.)  What holds of a loop is proved by taking the *)
(* first turn after which it does not.                                     *)
LEMMA Least ==
    ASSUME NEW T \in SUBSET Nat, T # {}
    PROVE  \E x \in T : \A y \in T : x <= y
<1> DEFINE Less == {p \in Nat \X Nat : p[1] < p[2]}
<1>1. IsWellFoundedOn(Less, Nat)
  BY NatLessThanWellFounded DEF OpToRel
<1>2. PICK x \in T : \A y \in T : ~(<<y, x>> \in Less)
  BY <1>1, WFMin
<1>3. \A y \in T : ~(y < x)
  BY <1>2
<1>4. QED
  BY <1>3

LEMMA MaxIs ==
    ASSUME NEW S \in SUBSET Int, NEW j \in S, \A y \in S : y <= j
    PROVE  Max(S) = j
<1>1. \E x \in S : \A y \in S : x >= y
  OBVIOUS
<1>2. Max(S) \in S /\ \A y \in S : Max(S) >= y
  BY <1>1 DEF Max
<1>3. Max(S) >= j /\ Max(S) <= j /\ Max(S) \in Int
  BY <1>2
<1>4. QED
  BY <1>3

(* The loop of mergeSpans, turn by turn.                                   *)
LEMMA FoldUnfolds ==
    ASSUME NEW n \in Nat, NEW s, DOMAIN s = 1..n
    PROVE  \E m : /\ m[0] = <<>>
                  /\ \A k \in 1..n : m[k] = Merge(m[k-1], s[k])
                  /\ FoldLeft(Merge, <<>>, s) = m[n]
<1> DEFINE Step(g, x) == IF x = {} THEN <<>>
                         ELSE Merge(g[x \ {Max(x)}], s[Max(x)])
           Iterates(g, k) == g = [x \in SUBSET (1..k) |-> Step(g, x)]
<1>1. \A k \in 0..n : \E g : Iterates(g, k)
  <2> DEFINE T == {k \in 0..n : ~\E g : Iterates(g, k)}
  <2> SUFFICES ASSUME T # {} PROVE FALSE
    OBVIOUS
  <2>1. PICK j \in T : \A k \in T : j <= k
    <3>1. T \in SUBSET Nat
      OBVIOUS
    <3> HIDE DEF T
    <3>2. QED
      BY <3>1, Least
  <2>2. j # 0
    <3> DEFINE g == [x \in SUBSET (1..0) |-> <<>>]
    <3>1. \A x \in SUBSET (1..0) : x = {}
      OBVIOUS
    <3>2. g = [x \in SUBSET (1..0) |-> Step(g, x)]
      BY <3>1
    <3> HIDE DEF g, Step
    <3>3. QED
      BY <3>2
  <2>3. j - 1 \in 0..n /\ j - 1 \notin T
    <3>1. j \in 1..n
      BY <2>1, <2>2
    <3>2. ~(j <= j - 1) /\ j - 1 \in 0..n
      BY <3>1
    <3> HIDE DEF T
    <3>3. QED
      BY <2>1, <3>2
  <2>4. PICK g : Iterates(g, j - 1)
    BY <2>3
  <2> DEFINE h == [x \in SUBSET (1..j) |->
                     IF j \in x THEN Merge(g[x \ {j}], s[j]) ELSE g[x]]
  <2>5. ASSUME NEW x \in SUBSET (1..j) PROVE h[x] = Step(h, x)
    <3>1. CASE j \in x
      <4>1. Max(x) = j /\ x # {}
        <5>1. x \in SUBSET Int /\ \A y \in x : y <= j
          BY <2>1
        <5>2. QED
          BY <3>1, <5>1, MaxIs
      <4>2. x \ {j} \in SUBSET (1..j) /\ j \notin x \ {j}
        OBVIOUS
      <4>3. h[x \ {j}] = g[x \ {j}]
        BY <4>2
      <4>4. QED
        BY <3>1, <4>1, <4>3
    <3>2. CASE j \notin x
      <4>1. x \in SUBSET (1..j - 1) /\ h[x] = g[x]
        BY <2>1, <2>2, <3>2
      <4>2. g[x] = Step(g, x)
        BY <2>4, <4>1
      <4>3. x \ {Max(x)} \in SUBSET (1..j) /\ j \notin x \ {Max(x)}
        BY <3>2
      <4>4. h[x \ {Max(x)}] = g[x \ {Max(x)}]
        BY <4>3
      <4>5. QED
        BY <4>1, <4>2, <4>4
    <3>3. QED
      BY <3>1, <3>2
  <2>6. Iterates(h, j)
    <3> HIDE DEF Step
    <3>1. QED
      BY <2>5
  <2> HIDE DEF Iterates, h
  <2>7. QED
    BY <2>1, <2>6
<1> DEFINE it == CHOOSE g : g = [x \in SUBSET (DOMAIN s) |->
                   IF x = {} THEN <<>> ELSE Merge(g[x \ {Max(x)}], s[Max(x)])]
<1>2. FoldLeft(Merge, <<>>, s) = it[DOMAIN s]
  BY DEF FoldLeft, MapThenFoldSet
<1>3. it = [x \in SUBSET (1..n) |-> Step(it, x)]
  <2>1. it = CHOOSE g : Iterates(g, n)
    OBVIOUS
  <2>2. \E g : Iterates(g, n)
    <3> HIDE DEF Iterates
    <3>1. QED
      BY <1>1
  <2> HIDE DEF it
  <2>3. Iterates(it, n)
    <3> HIDE DEF Iterates
    <3>1. QED
      BY <2>1, <2>2
  <2>4. QED
    BY <2>3
<1> HIDE DEF it
<1> DEFINE m == [k \in 0..n |-> it[1..k]]
<1>4. m[0] = <<>>
  <2>1. 1..0 = {} /\ 1..0 \in SUBSET (1..n)
    OBVIOUS
  <2>2. QED
    BY <1>3, <2>1
<1>5. ASSUME NEW k \in 1..n PROVE m[k] = Merge(m[k-1], s[k])
  <2>1. /\ Max(1..k) = k /\ 1..k # {} /\ (1..k) \ {k} = 1..k-1
        /\ 1..k \in SUBSET (1..n)
    BY DEF Max
  <2>2. it[1..k] = Merge(it[1..k-1], s[k])
    BY <1>3, <2>1
  <2>3. QED
    BY <2>2
<1>6. m[n] = FoldLeft(Merge, <<>>, s)
  BY <1>2
<1> HIDE DEF m
<1>7. QED
  BY <1>4, <1>5, <1>6

(* The spans of one area.                                                  *)
SpansOf(spans, a) ==
    /\ spans \in Seq(Spans)
    /\ \A k \in DOMAIN spans :
         /\ Fits(spans[k]) /\ spans[k].area = a
         /\ spans[k].items # <<>>
         /\ spans[k].start = Offset(conf[spans[k].items[1]])
         /\ \A l \in DOMAIN spans :
              spans[k].items[1] = spans[l].items[1] => k = l

LEMMA MaxOfTwo ==
    ASSUME NEW x \in Nat, NEW y \in Nat
    PROVE  /\ Max({x, y}) \in {x, y} /\ Max({x, y}) \in Nat
           /\ Max({x, y}) >= x /\ Max({x, y}) >= y
<1>1. \E z \in {x, y} : \A w \in {x, y} : z >= w
  OBVIOUS
<1>2. Max({x, y}) \in {x, y} /\ \A w \in {x, y} : Max({x, y}) >= w
  BY <1>1 DEF Max
<1>3. QED
  BY <1>2

LEMMA SpanFields ==
    ASSUME NEW span \in Spans
    PROVE  /\ span.area \in Areas /\ span.start \in Nat /\ span.end \in Nat
           /\ span.items \in Seq(Tags)
  BY DEF Spans

(* A span that gets another tag.                                           *)
LEMMA AppendItem ==
    ASSUME NEW items \in Seq(Tags), NEW i \in Tags
    PROVE  /\ Append(items, i) \in Seq(Tags) /\ Append(items, i) # <<>>
           /\ ToSet(Append(items, i)) = ToSet(items) \cup {i}
           /\ items # <<>> => Append(items, i)[1] = items[1]
<1>1. /\ Append(items, i) \in Seq(Tags)
      /\ Len(Append(items, i)) = Len(items) + 1
      /\ \A k \in 1..Len(items) : Append(items, i)[k] = items[k]
      /\ Append(items, i)[Len(items) + 1] = i
  OBVIOUS
<1>2. /\ DOMAIN items = 1..Len(items) /\ Len(items) \in Nat
      /\ DOMAIN Append(items, i) = 1..Len(items) + 1
  BY <1>1, LenProperties
<1> HIDE DEF Tags
<1>3. ToSet(Append(items, i)) = ToSet(items) \cup {i}
  BY <1>1, <1>2 DEF ToSet
<1>4. items # <<>> => 1 \in 1..Len(items)
  BY <1>2, EmptySeq
<1>5. QED
  BY <1>1, <1>2, <1>3, <1>4, EmptySeq

(* A tag on its own is a span.                                             *)
LEMMA SpanOfFits ==
    ASSUME conf \in Layouts, NEW a \in Areas, NEW i \in GroupByArea(a)
    PROVE  /\ Fits(SpanOf(i)) /\ SpanOf(i).area = a
           /\ SpanOf(i).items = <<i>>
           /\ SpanOf(i).start = Offset(conf[i])
           /\ ToSet(SpanOf(i).items) = {i}
<1>1. i \in Tags /\ Readable(i) /\ Area(conf[i]) = a
  BY DEF GroupByArea
<1>2. Offset(conf[i]) \in Nat /\ RegisterCount(conf[i]) \in Nat \ {0}
  BY <1>1, Rows DEF Readable
<1>3. <<i>> \in Seq(Tags) /\ ToSet(<<i>>) = {i}
  BY <1>1 DEF ToSet
<1>4. SpanOf(i) \in Spans
  BY <1>1, <1>2, <1>3 DEF SpanOf, Spans
<1>5. Covers(SpanOf(i), i)
  BY <1>1, <1>2 DEF SpanOf, Covers
<1>6. ASSUME RequestsAllowed PROVE QuantityOK(SpanOf(i))
  <2>1. Quantity(SpanOf(i)) = RegisterCount(conf[i])
    BY <1>2 DEF SpanOf, Quantity
  <2>2. RegisterCount(conf[i]) <= MaxBits /\ RegisterCount(conf[i]) <= MaxRegs
    BY <1>1, <1>6 DEF RequestsAllowed
  <2>3. QED
    BY <2>1, <2>2 DEF QuantityOK
<1>7. QED
  BY <1>1, <1>3, <1>4, <1>5, <1>6 DEF SpanOf, Fits

(* What Merge makes of the last span.                                      *)
Extend(span, i) ==
    [span EXCEPT !.end = Max({@, SpanOf(i).end}), !.items = Append(@, i)]

(* A span that a tag which comes later is merged into still fits.          *)
LEMMA Extended ==
    ASSUME conf \in Layouts, NEW a \in Areas, NEW i \in GroupByArea(a),
           NEW span, Fits(span), span.area = a, span.items # <<>>,
           span.start = Offset(conf[span.items[1]]),
           \A j \in ToSet(span.items) : Before(j, i),
           Merges(span, SpanOf(i)),
           NEW new, new = Extend(span, i)
    PROVE  /\ Fits(new) /\ new.area = a /\ new.items # <<>>
           /\ new.items[1] = span.items[1]
           /\ new.start = Offset(conf[new.items[1]])
           /\ ToSet(new.items) = ToSet(span.items) \cup {i}
<1>1. /\ i \in Tags /\ Readable(i) /\ Area(conf[i]) = a
      /\ Offset(conf[i]) \in Nat /\ RegisterCount(conf[i]) \in Nat \ {0}
  BY Rows DEF GroupByArea, Readable
<1>2. span \in Spans /\ \A j \in ToSet(span.items) : Covers(span, j)
  BY DEF Fits
<1>3. /\ span.start \in Nat /\ span.end \in Nat /\ span.items \in Seq(Tags)
  BY <1>2, SpanFields
<1>4. /\ SpanOf(i).end \in Nat
      /\ SpanOf(i).end = Offset(conf[i]) + RegisterCount(conf[i]) - 1
  BY <1>1 DEF SpanOf
<1> DEFINE e == Max({span.end, SpanOf(i).end})
<1>5. /\ e \in {span.end, SpanOf(i).end} /\ e \in Nat
      /\ e >= span.end /\ e >= SpanOf(i).end
  BY <1>3, <1>4, MaxOfTwo
<1> HIDE DEF e
<1>6. /\ new = [span EXCEPT !.end = e, !.items = Append(span.items, i)]
  BY DEF e, Extend
<1>7. /\ Append(span.items, i) \in Seq(Tags) /\ Append(span.items, i) # <<>>
      /\ ToSet(Append(span.items, i)) = ToSet(span.items) \cup {i}
      /\ Append(span.items, i)[1] = span.items[1]
  BY <1>1, <1>3, AppendItem
<1>8. /\ new \in Spans
      /\ new.start = span.start /\ new.area = span.area /\ new.end = e
      /\ new.items = Append(span.items, i)
  BY <1>2, <1>5, <1>6, <1>7 DEF Spans
<1>9. span.items[1] \in ToSet(span.items) /\ span.items[1] \in Tags
  <2>1. 1 \in DOMAIN span.items
    BY <1>3, EmptySeq, LenProperties
  <2>2. QED
    BY <1>3, <2>1 DEF ToSet
<1>10. span.start <= Offset(conf[i])
  BY <1>1, <1>9, BeforeOrders
<1>11. Covers(new, i)
  BY <1>1, <1>4, <1>5, <1>8, <1>10 DEF Covers
<1>12. ASSUME NEW j \in ToSet(span.items) PROVE Covers(new, j)
  <2>1. Covers(span, j) /\ j \in Tags
    BY <1>2, <1>3 DEF ToSet
  <2>2. Offset(conf[j]) \in Int /\ RegisterCount(conf[j]) \in Nat
    BY <2>1, Rows
  <2>3. QED
    BY <1>3, <1>5, <1>8, <2>1, <2>2 DEF Covers
<1>13. ASSUME RequestsAllowed PROVE QuantityOK(new)
  <2>1. CASE e = span.end
    <3>1. QuantityOK(span)
      BY <1>13 DEF Fits
    <3>2. Quantity(new) = Quantity(span)
      BY <1>8, <2>1 DEF Quantity
    <3>3. QED
      BY <1>8, <3>1, <3>2 DEF QuantityOK
  <2>2. CASE e = SpanOf(i).end
    <3>1. Quantity(new) <= MaxSpan
      BY <1>8, <2>2 DEF Quantity, Merges
    <3>2. Quantity(new) \in Int
      BY <1>3, <1>5, <1>8 DEF Quantity
    <3>3. MaxSpan \in Int /\ MaxBits \in Int /\ MaxRegs \in Int
      BY BoundsOK
    <3>4. QED
      BY <1>13, <3>1, <3>2, <3>3 DEF QuantityOK, RequestsAllowed
  <2>3. QED
    BY <1>5, <2>1, <2>2
<1>14. Fits(new)
  BY <1>7, <1>8, <1>11, <1>12, <1>13 DEF Fits
<1>15. QED
  BY <1>7, <1>8, <1>14

(* A sequence of which the last element is replaced.                       *)
WithLast(s, x) == Front(s) \o <<x>>

LEMMA ReplaceLast ==
    ASSUME NEW S, NEW s \in Seq(S), s # <<>>, NEW x \in S
    PROVE  /\ WithLast(s, x) \in Seq(S)
           /\ DOMAIN WithLast(s, x) = 1..Len(s)
           /\ \A k \in 1..Len(s) :
                WithLast(s, x)[k] = IF k = Len(s) THEN x ELSE s[k]
<1> DEFINE r == WithLast(s, x)
<1>1. /\ Len(s) \in Nat \ {0} /\ DOMAIN s = 1..Len(s)
      /\ \A k \in 1..Len(s) : s[k] \in S
  BY EmptySeq, LenProperties
<1>2. PICK n \in Nat \ {0} : n = Len(s)
  BY <1>1
<1>3. PICK f : f = Front(s)
  OBVIOUS
<1>4. /\ f \in Seq(S) /\ Len(f) = n - 1
      /\ \A k \in 1..n - 1 : f[k] = s[k]
  <2>1. f = SubSeq(s, 1, n - 1)
    BY <1>2, <1>3 DEF Front
  <2>2. \A k \in 1..n - 1 : s[k] \in S
    BY <1>1, <1>2
  <2>3. /\ f \in Seq(S)
        /\ Len(f) = IF 1 <= n - 1 THEN (n - 1) - 1 + 1 ELSE 0
        /\ \A k \in 1..(n - 1) - 1 + 1 : f[k] = s[1 + k - 1]
    BY <2>1, <2>2, SubSeqProperties
  <2>4. (IF 1 <= n - 1 THEN (n - 1) - 1 + 1 ELSE 0) = n - 1
    OBVIOUS
  <2>5. \A k \in 1..n - 1 : 1 + k - 1 = k /\ k \in 1..(n - 1) - 1 + 1
    OBVIOUS
  <2>6. QED
    BY <2>3, <2>4, <2>5
<1>5. <<x>> \in Seq(S) /\ Len(<<x>>) = 1 /\ <<x>>[1] = x
  OBVIOUS
<1>6. /\ r \in Seq(S)
      /\ Len(r) = (n - 1) + 1
      /\ \A k \in 1..(n - 1) + 1 :
            r[k] = IF k <= n - 1 THEN f[k] ELSE <<x>>[k - (n - 1)]
  <2>1. r = f \o <<x>>
    BY <1>3 DEF WithLast
  <2> HIDE DEF r
  <2>2. QED
    BY <1>4, <1>5, <2>1, ConcatProperties
<1> HIDE DEF r
<1>7. Len(r) = n /\ DOMAIN r = 1..n
  BY <1>6, LenProperties
<1>8. \A k \in 1..n : r[k] = IF k = n THEN x ELSE s[k]
  <2>1. ASSUME NEW k \in 1..n - 1 PROVE r[k] = s[k]
    BY <1>4, <1>6
  <2>2. r[n] = x
    <3>1. n \in 1..(n - 1) + 1 /\ ~(n <= n - 1) /\ n - (n - 1) = 1
      OBVIOUS
    <3>2. QED
      BY <1>5, <1>6, <3>1
  <2>3. \A k \in 1..n : k = n \/ k \in 1..n - 1
    OBVIOUS
  <2>4. QED
    BY <2>1, <2>2, <2>3
<1>9. QED
  BY <1>2, <1>6, <1>7, <1>8 DEF r

(* The spans hold their first tags, and are told apart by them.            *)
LEMMA FirstIsItem ==
    ASSUME NEW a, NEW spans, SpansOf(spans, a), NEW k \in DOMAIN spans
    PROVE  /\ spans[k].items[1] \in ToSet(spans[k].items)
           /\ ToSet(spans[k].items) \in SUBSET Items(spans)
           /\ ToSet(spans[k].items) \in SUBSET Tags
<1>1. /\ spans[k].items \in Seq(Tags) /\ spans[k].items # <<>>
  BY SpanFields DEF SpansOf, Fits
<1>2. 1 \in DOMAIN spans[k].items
  BY <1>1, EmptySeq, LenProperties
<1>3. ToSet(spans[k].items) \in SUBSET Tags
  BY <1>1 DEF ToSet
<1>4. QED
  BY <1>2, <1>3 DEF ToSet, Items

(* A turn of the loop adds the tag, whether it is merged or not.           *)
LEMMA MergeKeeps ==
    ASSUME conf \in Layouts, NEW a \in Areas, NEW i \in GroupByArea(a),
           NEW spans, SpansOf(spans, a),
           \A j \in Items(spans) : Before(j, i)
    PROVE  /\ SpansOf(Merge(spans, i), a)
           /\ Items(Merge(spans, i)) = Items(spans) \cup {i}
<1> DEFINE r == Merge(spans, i)
           n == Len(spans)
<1>1. spans \in Seq(Spans)
  BY DEF SpansOf
<1>2. n \in Nat /\ DOMAIN spans = 1..n
  BY <1>1, LenProperties
<1>3. i \in Tags /\ i \notin Items(spans)
  BY BeforeOrders DEF GroupByArea
<1>4. CASE spans # <<>> /\ Merges(Last(spans), SpanOf(i))
  <2> DEFINE new == Extend(Last(spans), i)
  <2>1. r = WithLast(spans, new)
    BY <1>4 DEF Merge, Extend, WithLast
  <2>2. n \in 1..n /\ Last(spans) = spans[n]
    BY <1>1, <1>2, <1>4, EmptySeq DEF Last
  <2>3. /\ Fits(spans[n]) /\ spans[n].area = a /\ spans[n].items # <<>>
        /\ spans[n].start = Offset(conf[spans[n].items[1]])
    BY <1>2, <2>2 DEF SpansOf
  <2>4. \A j \in ToSet(spans[n].items) : Before(j, i)
    BY <1>2, <2>2, FirstIsItem
  <2>5. /\ Fits(new) /\ new.area = a /\ new.items # <<>>
        /\ new.items[1] = spans[n].items[1]
        /\ new.start = Offset(conf[new.items[1]])
        /\ ToSet(new.items) = ToSet(spans[n].items) \cup {i}
    BY <1>4, <2>2, <2>3, <2>4, Extended
  <2> HIDE DEF new
  <2>6. new \in Spans
    BY <2>5 DEF Fits
  <2>7. /\ r \in Seq(Spans) /\ DOMAIN r = 1..n
        /\ \A k \in 1..n : r[k] = IF k = n THEN new ELSE spans[k]
    <3>1. PICK x \in Spans : x = new
      BY <2>6
    <3>2. /\ WithLast(spans, x) \in Seq(Spans)
          /\ DOMAIN WithLast(spans, x) = 1..Len(spans)
          /\ \A k \in 1..Len(spans) :
               WithLast(spans, x)[k] = IF k = Len(spans) THEN x ELSE spans[k]
      BY <1>1, <1>4, ReplaceLast
    <3> HIDE DEF r
    <3>3. r = WithLast(spans, x)
      BY <2>1, <3>1
    <3>4. QED
      BY <3>1, <3>2, <3>3
  <2> HIDE DEF r, n
  <2>8. \A k \in 1..n : /\ r[k].items[1] = spans[k].items[1]
                        /\ k # n => r[k] = spans[k]
    BY <1>2, <2>5, <2>7
  <2>9. SpansOf(r, a)
    BY <1>2, <2>5, <2>7, <2>8 DEF SpansOf
  <2>10. \A k \in 1..n : ToSet(r[k].items) =
              IF k = n THEN ToSet(spans[k].items) \cup {i}
              ELSE ToSet(spans[k].items)
    BY <2>5, <2>7, <2>8
  <2>11. Items(r) = Items(spans) \cup {i}
    <3>1. n \in 1..n
      BY <1>2, <2>2 DEF n
    <3>2. QED
      BY <1>2, <2>7, <2>10, <3>1 DEF Items
  <2>12. QED
    BY <2>9, <2>11 DEF r
<1>5. CASE ~(spans # <<>> /\ Merges(Last(spans), SpanOf(i)))
  <2> DEFINE new == SpanOf(i)
  <2>1. r = Append(spans, new)
    BY <1>5 DEF Merge
  <2>2. /\ Fits(new) /\ new.area = a /\ new.items = <<i>>
        /\ new.start = Offset(conf[i]) /\ ToSet(new.items) = {i}
    BY SpanOfFits
  <2> HIDE DEF new
  <2>3. new \in Spans /\ new.items # <<>> /\ new.items[1] = i
    BY <2>2 DEF Fits
  <2>4. /\ r \in Seq(Spans) /\ Len(r) = n + 1
        /\ \A k \in 1..n : r[k] = spans[k]
        /\ r[n + 1] = new
    BY <1>1, <2>1, <2>3
  <2>5. DOMAIN r = 1..n + 1
    BY <2>4, LenProperties
  <2> HIDE DEF r, n
  <2>6. \A k \in 1..n : spans[k].items[1] # i
    BY <1>2, <1>3, FirstIsItem
  <2>7. SpansOf(r, a)
    <3>1. ASSUME NEW k \in 1..n + 1
          PROVE  /\ Fits(r[k]) /\ r[k].area = a
                 /\ r[k].items # <<>>
                 /\ r[k].start = Offset(conf[r[k].items[1]])
      <4>1. CASE k = n + 1
        BY <2>2, <2>3, <2>4, <4>1
      <4>2. CASE k \in 1..n
        BY <1>2, <2>4, <4>2 DEF SpansOf
      <4>3. QED
        BY <1>2, <4>1, <4>2
    <3>2. ASSUME NEW k \in 1..n + 1, NEW l \in 1..n + 1,
                 r[k].items[1] = r[l].items[1]
          PROVE  k = l
      <4>1. \A j \in 1..n + 1 : j \in 1..n \/ j = n + 1
        BY <1>2
      <4>2. CASE k \in 1..n /\ l \in 1..n
        BY <1>2, <2>4, <3>2, <4>2 DEF SpansOf
      <4>3. CASE k = n + 1 /\ l \in 1..n
        BY <2>3, <2>4, <2>6, <3>2, <4>3
      <4>4. CASE k \in 1..n /\ l = n + 1
        BY <2>3, <2>4, <2>6, <3>2, <4>4
      <4>5. QED
        BY <4>1, <4>2, <4>3, <4>4
    <3>3. QED
      BY <2>4, <2>5, <3>1, <3>2 DEF SpansOf
  <2>8. Items(r) = Items(spans) \cup {i}
    <3>1. \A j \in 1..n + 1 : j \in 1..n \/ j = n + 1
      BY <1>2
    <3>2. 1..n \in SUBSET (1..n + 1) /\ n + 1 \in 1..n + 1
      BY <1>2
    <3>3. \A j : j \in Items(r) <=> j \in Items(spans) \cup {i}
      BY <1>2, <2>2, <2>4, <2>5, <3>1, <3>2 DEF Items
    <3>4. QED
      BY <3>3
  <2>9. QED
    BY <2>7, <2>8 DEF r
<1>6. QED
  BY <1>4, <1>5

(* An area without tags has no spans.                                      *)
LEMMA NoSpans ==
    ASSUME NEW a
    PROVE  SpansOf(<<>>, a) /\ Items(<<>>) = {}
<1>1. <<>> \in Seq(Spans) /\ DOMAIN <<>> = {}
  OBVIOUS
<1>2. QED
  BY <1>1 DEF SpansOf, Items

(* The spans of an area hold exactly the tags that lie in it.              *)
LEMMA MergedFit ==
    ASSUME conf \in Layouts, NEW a \in Areas
    PROVE  /\ SpansOf(MergeSpans(a), a)
           /\ Items(MergeSpans(a)) = GroupByArea(a)
<1>1. GroupByArea(a) \in SUBSET Tags
  BY DEF GroupByArea
<1>2. PICK s : s = SortByOffset(GroupByArea(a))
  OBVIOUS
<1>3. /\ s \in SetToSeqs(GroupByArea(a))
      /\ \A k, l \in DOMAIN s : k < l => Before(s[k], s[l])
  BY <1>1, <1>2, SortSorts
<1>4. PICK n \in Nat : /\ n = Cardinality(GroupByArea(a))
                        /\ IsFiniteSet(GroupByArea(a))
  <2>1. IsFiniteSet(Tags)
    BY BoundsOK, FS_Interval DEF Tags
  <2>2. QED
    BY <1>1, <2>1, FS_Subset, FS_CardinalityType
<1>5. /\ s \in [1..n -> GroupByArea(a)] /\ DOMAIN s = 1..n
      /\ \A k, l \in 1..n : k # l => s[k] # s[l]
  BY <1>3, <1>4 DEF SetToSeqs
<1>6. ASSUME NEW i \in GroupByArea(a) PROVE \E k \in 1..n : s[k] = i
  <2>1. s \in Injection(1..n, GroupByArea(a))
    BY <1>5 DEF Injection, IsInjective
  <2>2. IsFiniteSet(1..n) /\ Cardinality(1..n) = n
    BY FS_Interval
  <2>3. s \in Surjection(1..n, GroupByArea(a))
    BY <1>4, <2>1, <2>2, FS_Injection
  <2>4. QED
    BY <2>3 DEF Surjection
<1>7. PICK m : /\ m[0] = <<>>
               /\ \A k \in 1..n : m[k] = Merge(m[k-1], s[k])
               /\ FoldLeft(Merge, <<>>, s) = m[n]
  BY <1>5, FoldUnfolds
<1> DEFINE J(k) == SpansOf(m[k], a) /\ Items(m[k]) = {s[j] : j \in 1..k}
<1>8. \A k \in 0..n : J(k)
  <2> DEFINE T == {k \in 0..n : ~J(k)}
  <2> SUFFICES ASSUME T # {} PROVE FALSE
    OBVIOUS
  <2>1. PICK k \in T : \A l \in T : k <= l
    <3>1. T \in SUBSET Nat
      OBVIOUS
    <3> HIDE DEF T
    <3>2. QED
      BY <3>1, Least
  <2>2. J(0)
    BY <1>7, NoSpans
  <2>3. k \in 1..n /\ ~J(k)
    <3> HIDE DEF J
    <3>1. QED
      BY <2>1, <2>2
  <2>4. J(k - 1)
    <3> HIDE DEF J
    <3>1. k - 1 \in 0..n /\ ~(k <= k - 1)
      BY <2>3
    <3>2. QED
      BY <2>1, <3>1
  <2>5. s[k] \in GroupByArea(a)
    BY <1>5, <2>3
  <2>6. ASSUME NEW j \in Items(m[k-1]) PROVE Before(j, s[k])
    <3>1. PICK l \in 1..k-1 : j = s[l]
      BY <2>4, <2>6
    <3>2. l \in 1..n /\ l < k
      BY <2>3
    <3>3. QED
      BY <1>3, <1>5, <2>3, <3>1, <3>2
  <2>7. PICK before : before = m[k-1]
    OBVIOUS
  <2>8. /\ SpansOf(Merge(before, s[k]), a)
        /\ Items(Merge(before, s[k])) = Items(before) \cup {s[k]}
    BY <2>4, <2>5, <2>6, <2>7, MergeKeeps
  <2>9. m[k] = Merge(before, s[k])
    BY <1>7, <2>3, <2>7
  <2>10. {s[j] : j \in 1..k} = {s[j] : j \in 1..k-1} \cup {s[k]}
    <3>1. 1..k = (1..k-1) \cup {k}
      BY <2>3
    <3>2. QED
      BY <3>1
  <2>11. J(k)
    BY <2>4, <2>7, <2>8, <2>9, <2>10
  <2>12. QED
    BY <2>3, <2>11
<1>9. MergeSpans(a) = m[n]
  BY <1>2, <1>7 DEF MergeSpans
<1>10. J(n)
  <2> HIDE DEF J
  <2>1. n \in 0..n
    OBVIOUS
  <2>2. QED
    BY <1>8, <2>1
<1>11. {s[j] : j \in 1..n} = GroupByArea(a)
  BY <1>5, <1>6
<1>12. QED
  BY <1>9, <1>10, <1>11

Unfolds(f, ss, n) ==
    /\ f[1] = ss[1]
    /\ \A k \in 2..n : f[k] = f[k-1] \o ss[k]
    /\ FlattenSeq(ss) = f[n]

(* The spans of one area after the other.                                  *)
LEMMA FlattenUnfolds ==
    ASSUME NEW n \in Nat, n # 0, NEW ss, Len(ss) = n
    PROVE  \E f : Unfolds(f, ss, n)
<1> DEFINE Step(g, i) == IF i = 1 THEN ss[i] ELSE g[i-1] \o ss[i]
           Flattens(g, k) == g = [i \in 1..k |-> Step(g, i)]
<1>1. \A k \in 0..n : \E g : Flattens(g, k)
  <2> DEFINE T == {k \in 0..n : ~\E g : Flattens(g, k)}
  <2> HIDE DEF Flattens
  <2> SUFFICES ASSUME T # {} PROVE FALSE
    OBVIOUS
  <2>1. PICK j \in T : \A k \in T : j <= k
    <3>1. T \in SUBSET Nat
      OBVIOUS
    <3> HIDE DEF T
    <3>2. QED
      BY <3>1, Least
  <2>2. j # 0
    <3> DEFINE g == [i \in 1..0 |-> <<>>]
    <3>1. g = [i \in 1..0 |-> Step(g, i)]
      OBVIOUS
    <3> HIDE DEF g, Step
    <3>2. QED
      BY <3>1 DEF Flattens
  <2>3. j \in 1..n /\ j - 1 \in 0..n /\ j - 1 \notin T
    <3>1. j \in 1..n
      BY <2>1, <2>2
    <3>2. ~(j <= j - 1) /\ j - 1 \in 0..n
      BY <3>1
    <3> HIDE DEF T
    <3>3. QED
      BY <2>1, <3>1, <3>2
  <2>4. PICK g : Flattens(g, j - 1)
    BY <2>3
  <2> DEFINE h == [i \in 1..j |-> IF i = j THEN Step(g, j) ELSE g[i]]
  <2>5. ASSUME NEW i \in 1..j PROVE h[i] = Step(h, i)
    <3>1. CASE i = 1
      <4>1. CASE j = 1
        BY <3>1, <4>1
      <4>2. CASE j # 1
        <5>1. i \in 1..j - 1 /\ i # j
          BY <2>3, <3>1, <4>2
        <5>2. g[i] = Step(g, i)
          BY <2>4, <5>1 DEF Flattens
        <5>3. QED
          BY <3>1, <5>1, <5>2
      <4>3. QED
        BY <4>1, <4>2
    <3>2. CASE i # 1
      <4>1. i - 1 \in 1..j /\ i - 1 # j
        BY <2>3, <3>2
      <4>2. h[i - 1] = g[i - 1]
        BY <4>1
      <4>3. h[i] = Step(g, i)
        <5>1. CASE i = j
          BY <5>1
        <5>2. CASE i # j
          <6>1. i \in 1..j - 1
            BY <2>3, <5>2
          <6>2. g[i] = Step(g, i)
            BY <2>4, <6>1 DEF Flattens
          <6>3. QED
            BY <5>2, <6>2
        <5>3. QED
          BY <5>1, <5>2
      <4>4. QED
        BY <3>2, <4>2, <4>3
    <3>3. QED
      BY <3>1, <3>2
  <2>6. Flattens(h, j)
    <3> HIDE DEF Step
    <3>1. QED
      BY <2>5 DEF Flattens
  <2> HIDE DEF h
  <2>7. QED
    BY <2>1, <2>6
<1> DEFINE f == CHOOSE g : g = [i \in 1..Len(ss) |->
                   IF i = 1 THEN ss[i] ELSE g[i-1] \o ss[i]]
<1>2. FlattenSeq(ss) = f[Len(ss)]
  BY DEF FlattenSeq
<1>3. Flattens(f, n)
  <2>1. f = CHOOSE g : Flattens(g, n)
    OBVIOUS
  <2> HIDE DEF f, Flattens
  <2>2. \E g : Flattens(g, n)
    BY <1>1
  <2>3. QED
    BY <2>1, <2>2
<1> HIDE DEF f
<1>4. f[1] = ss[1]
  BY <1>3
<1>5. ASSUME NEW k \in 2..n PROVE f[k] = f[k-1] \o ss[k]
  <2>1. k \in 1..n /\ k # 1
    OBVIOUS
  <2>2. QED
    BY <1>3, <2>1
<1>6. QED
  <2>1. PICK g : g = f
    OBVIOUS
  <2>2. Unfolds(g, ss, n)
    BY <1>2, <1>4, <1>5, <2>1 DEF Unfolds
  <2>3. QED
    BY <2>2

(* The spans of several areas.                                             *)
PlanOf(spans, areas) ==
    /\ spans \in Seq(Spans)
    /\ \A k \in DOMAIN spans :
         /\ Fits(spans[k]) /\ spans[k].area \in areas
         /\ spans[k].items # <<>>
         /\ \A l \in DOMAIN spans :
              spans[k].items[1] = spans[l].items[1] => k = l

(* A span begins with a tag of its area.                                   *)
LEMMA FirstCovered ==
    ASSUME NEW span, Fits(span), span.items # <<>>
    PROVE  /\ span.items[1] \in Tags
           /\ Area(conf[span.items[1]]) = span.area
<1>1. span.items \in Seq(Tags)
  BY SpanFields DEF Fits
<1>2. 1 \in DOMAIN span.items
  BY <1>1, EmptySeq, LenProperties
<1>3. span.items[1] \in ToSet(span.items) /\ span.items[1] \in Tags
  BY <1>1, <1>2 DEF ToSet
<1>4. QED
  BY <1>3 DEF Fits, Covers

(* The spans of different areas do not hold each other's tags.             *)
LEMMA PlansConcatenate ==
    ASSUME NEW s, NEW t, NEW A, NEW B, PlanOf(s, A), PlanOf(t, B),
           A \cap B = {}
    PROVE  /\ PlanOf(s \o t, A \cup B)
           /\ Items(s \o t) = Items(s) \cup Items(t)
<1>1. s \in Seq(Spans) /\ t \in Seq(Spans)
  BY DEF PlanOf
<1>2. PICK n \in Nat : n = Len(s) /\ DOMAIN s = 1..n
  BY <1>1, LenProperties
<1>3. PICK p \in Nat : p = Len(t) /\ DOMAIN t = 1..p
  BY <1>1, LenProperties
<1>4. PICK r : r = s \o t
  OBVIOUS
<1>5. /\ r \in Seq(Spans) /\ Len(r) = n + p
      /\ \A k \in 1..n + p : r[k] = IF k <= n THEN s[k] ELSE t[k - n]
  BY <1>1, <1>2, <1>3, <1>4, ConcatProperties
<1>6. DOMAIN r = 1..n + p
  BY <1>5, LenProperties
<1>7. \A k \in 1..n + p : \/ k \in 1..n /\ r[k] = s[k]
                          \/ k - n \in 1..p /\ r[k] = t[k - n]
  BY <1>5
<1>8. ASSUME NEW k \in 1..n + p
      PROVE  /\ Fits(r[k]) /\ r[k].area \in A \cup B /\ r[k].items # <<>>
             /\ k \in 1..n => r[k].area \in A
             /\ k \notin 1..n => r[k].area \in B
  <2>1. CASE k \in 1..n
    BY <1>2, <1>5, <2>1 DEF PlanOf
  <2>2. CASE k \notin 1..n
    <3>1. k - n \in 1..p /\ r[k] = t[k - n]
      BY <1>7, <2>2
    <3>2. QED
      BY <1>3, <2>2, <3>1 DEF PlanOf
  <2>3. QED
    BY <2>1, <2>2
<1>9. ASSUME NEW k \in 1..n + p, NEW l \in 1..n + p,
             r[k].items[1] = r[l].items[1]
      PROVE  k = l
  <2>1. r[k].area = r[l].area
    BY <1>8, <1>9, FirstCovered
  <2>2. CASE k \in 1..n /\ l \in 1..n
    <3>1. r[k] = s[k] /\ r[l] = s[l]
      BY <1>5, <2>2
    <3>2. QED
      BY <1>2, <1>9, <2>2, <3>1 DEF PlanOf
  <2>3. CASE k \notin 1..n /\ l \notin 1..n
    <3>1. /\ k - n \in 1..p /\ r[k] = t[k - n]
          /\ l - n \in 1..p /\ r[l] = t[l - n]
      BY <1>7, <2>3
    <3>2. k - n = l - n
      BY <1>3, <1>9, <3>1 DEF PlanOf
    <3>3. QED
      BY <3>2
  <2>4. QED
    BY <1>8, <2>1, <2>2, <2>3
<1>10. PlanOf(r, A \cup B)
  BY <1>5, <1>6, <1>8, <1>9 DEF PlanOf
<1>11. \A k \in 1..n : k \in 1..n + p /\ r[k] = s[k]
  BY <1>5
<1>12. \A k \in 1..p : k + n \in 1..n + p /\ r[k + n] = t[k]
  <2> SUFFICES ASSUME NEW k \in 1..p
               PROVE  k + n \in 1..n + p /\ r[k + n] = t[k]
    OBVIOUS
  <2>1. k + n \in 1..n + p /\ ~(k + n <= n) /\ (k + n) - n = k
    OBVIOUS
  <2>2. QED
    BY <1>5, <2>1
<1>13. ASSUME NEW i, i \in Items(r) PROVE i \in Items(s) \cup Items(t)
  <2>1. PICK k \in 1..n + p : i \in ToSet(r[k].items)
    BY <1>6, <1>13 DEF Items
  <2>2. CASE k \in 1..n /\ r[k] = s[k]
    BY <1>2, <2>1, <2>2 DEF Items
  <2>3. CASE k - n \in 1..p /\ r[k] = t[k - n]
    BY <1>3, <2>1, <2>3 DEF Items
  <2>4. QED
    BY <1>7, <2>2, <2>3
<1>14. ASSUME NEW i, i \in Items(s) PROVE i \in Items(r)
  BY <1>2, <1>6, <1>11, <1>14 DEF Items
<1>15. ASSUME NEW i, i \in Items(t) PROVE i \in Items(r)
  <2>1. PICK k \in 1..p : i \in ToSet(t[k].items)
    BY <1>3, <1>15 DEF Items
  <2>2. k + n \in DOMAIN r /\ r[k + n] = t[k]
    BY <1>6, <1>12
  <2>3. QED
    BY <2>1, <2>2 DEF Items
<1>16. Items(r) = Items(s) \cup Items(t)
  BY <1>13, <1>14, <1>15
<1>17. QED
  BY <1>4, <1>10, <1>16

(* The tags that are read: those that may be, in the device's areas.       *)
Read == {i \in Tags : Readable(i) /\ Area(conf[i]) \in Areas}

(* Whatever the order of the areas, each tag that may be read is held by a *)
(* span that fits it, and there are no more spans than tags.               *)
THEOREM PlansFit ==
    ASSUME conf \in Layouts, NEW spans \in ReadOrders
    PROVE  /\ spans \in Seq(Spans) /\ Len(spans) <= N
           /\ \A k \in DOMAIN spans : Fits(spans[k])
           /\ Items(spans) = Read
<1> DEFINE used == {a \in Areas : MergeSpans(a) # <<>>}
<1>1. PICK as \in SetToSeqs(used) :
         spans = FlattenSeq([k \in DOMAIN as |-> MergeSpans(as[k])])
  BY DEF ReadOrders
<1>2. PICK n \in Nat : n = Cardinality(used) /\ IsFiniteSet(used)
  <2>1. IsFiniteSet({"coil", "discrete", "input", "holding"})
    <3>1. IsFiniteSet({"coil"})
      BY FS_Singleton
    <3>2. IsFiniteSet({"coil"} \cup {"discrete"})
      BY <3>1, FS_AddElement
    <3>3. IsFiniteSet(({"coil"} \cup {"discrete"}) \cup {"input"})
      BY <3>2, FS_AddElement
    <3>4. IsFiniteSet((({"coil"} \cup {"discrete"}) \cup {"input"})
                        \cup {"holding"})
      BY <3>3, FS_AddElement
    <3>5. (({"coil"} \cup {"discrete"}) \cup {"input"}) \cup {"holding"} =
             {"coil", "discrete", "input", "holding"}
      OBVIOUS
    <3>6. QED
      BY <3>4, <3>5
  <2>2. used \in SUBSET {"coil", "discrete", "input", "holding"}
    BY BoundsOK
  <2> HIDE DEF used
  <2>3. QED
    BY <2>1, <2>2, FS_Subset, FS_CardinalityType
<1>3. used \in SUBSET Areas
  OBVIOUS
<1>4. \A a \in Areas \ used : GroupByArea(a) = {}
  BY MergedFit, NoSpans
<1> HIDE DEF used
<1>5. /\ DOMAIN as = 1..n /\ as \in [1..n -> used]
      /\ \A k, l \in 1..n : k # l => as[k] # as[l]
  BY <1>2 DEF SetToSeqs
<1>6. \A a \in used : \E k \in 1..n : as[k] = a
  <2>1. as \in Injection(1..n, used)
    BY <1>5 DEF Injection, IsInjective
  <2>2. IsFiniteSet(1..n) /\ Cardinality(1..n) = n
    BY FS_Interval
  <2>3. as \in Surjection(1..n, used)
    BY <1>2, <2>1, <2>2, FS_Injection
  <2>4. QED
    BY <2>3 DEF Surjection
<1>7. PICK ss : ss = [k \in 1..n |-> MergeSpans(as[k])]
  OBVIOUS
<1>8. spans = FlattenSeq(ss) /\ Len(ss) = n /\ DOMAIN ss = 1..n
  <2>1. spans = FlattenSeq(ss)
    BY <1>1, <1>5, <1>7
  <2>2. ss = [k \in 1..n |-> ss[k]]
    BY <1>7
  <2>3. QED
    BY <2>1, <2>2, IsSequence
<1>9. \A k \in 1..n : /\ PlanOf(ss[k], {as[k]})
                      /\ Items(ss[k]) = GroupByArea(as[k])
  <2> SUFFICES ASSUME NEW k \in 1..n
               PROVE  /\ PlanOf(ss[k], {as[k]})
                      /\ Items(ss[k]) = GroupByArea(as[k])
    OBVIOUS
  <2>1. as[k] \in Areas
    BY <1>3, <1>5
  <2>2. ss[k] = MergeSpans(as[k])
    BY <1>7
  <2>3. SpansOf(ss[k], as[k]) /\ Items(ss[k]) = GroupByArea(as[k])
    BY <2>1, <2>2, MergedFit
  <2>4. QED
    BY <2>3 DEF SpansOf, PlanOf
<1>10. PlanOf(spans, used) /\ Items(spans) = Read
  <2>1. Read = UNION {GroupByArea(as[k]) : k \in 1..n}
    <3>1. \A i : i \in Read <=> \E a \in used : i \in GroupByArea(a)
      BY <1>3, <1>4 DEF Read, GroupByArea
    <3>2. \A i : i \in Read <=> \E k \in 1..n : i \in GroupByArea(as[k])
      BY <1>5, <1>6, <3>1
    <3>3. QED
      BY <3>2
  <2>2. CASE n = 0
    <3>1. ss = <<>> /\ used = {}
      <4>1. used = {}
        BY <1>2, <2>2, FS_EmptySet
      <4>2. 1..0 = {}
        OBVIOUS
      <4>3. ss = [k \in {} |-> MergeSpans(as[k])]
        BY <1>7, <2>2, <4>2
      <4>4. ss = <<>>
        BY <4>3
      <4>5. QED
        BY <4>1, <4>4
    <3>2. spans = <<>>
      BY <1>8, <2>2, <3>1 DEF FlattenSeq
    <3>3. Items(spans) = {} /\ PlanOf(spans, used)
      BY <3>2, NoSpans DEF PlanOf
    <3>4. QED
      BY <2>1, <2>2, <3>3
  <2>3. CASE n # 0
    <3>0. PICK f : Unfolds(f, ss, n)
      BY <1>8, <2>3, FlattenUnfolds
    <3>1. /\ f[1] = ss[1]
          /\ \A k \in 2..n : f[k] = f[k-1] \o ss[k]
          /\ FlattenSeq(ss) = f[n]
      BY <3>0 DEF Unfolds
    <3> DEFINE J(k) == /\ PlanOf(f[k], {as[l] : l \in 1..k})
                       /\ Items(f[k]) = UNION {GroupByArea(as[l]) : l \in 1..k}
               T == {k \in 1..n : ~J(k)}
    <3>2. J(1)
      <4>1. 1 \in 1..n /\ 1..1 = {1}
        BY <2>3
      <4>2. /\ {as[l] : l \in 1..1} = {as[1]}
            /\ UNION {GroupByArea(as[l]) : l \in 1..1} = GroupByArea(as[1])
        BY <4>1
      <4>3. QED
        BY <1>9, <3>1, <4>1, <4>2
    <3>3. ASSUME NEW k \in 2..n, J(k - 1) PROVE J(k)
      <4>1. k \in 1..n /\ 1..k = (1..k-1) \cup {k} /\ 1..k-1 \in SUBSET (1..n)
            /\ k \notin 1..k-1
        OBVIOUS
      <4>2. {as[l] : l \in 1..k-1} \cap {as[k]} = {}
        <5>1. \A l \in 1..k-1 : as[l] # as[k]
          BY <1>5, <4>1
        <5>2. QED
          BY <5>1
      <4>3. /\ {as[l] : l \in 1..k} = {as[l] : l \in 1..k-1} \cup {as[k]}
            /\ UNION {GroupByArea(as[l]) : l \in 1..k} =
                 (UNION {GroupByArea(as[l]) : l \in 1..k-1})
                    \cup GroupByArea(as[k])
        BY <4>1
      <4>4. PICK s, t, A : /\ s = f[k-1] /\ t = ss[k]
                           /\ A = {as[l] : l \in 1..k-1}
        OBVIOUS
      <4>5. PlanOf(s, A) /\ PlanOf(t, {as[k]}) /\ A \cap {as[k]} = {}
        BY <1>9, <3>3, <4>1, <4>2, <4>4
      <4>6. /\ PlanOf(s \o t, A \cup {as[k]})
            /\ Items(s \o t) = Items(s) \cup Items(t)
        BY <4>5, PlansConcatenate
      <4>7. f[k] = s \o t
        BY <3>1, <4>4
      <4>8. QED
        BY <1>9, <3>3, <4>1, <4>3, <4>4, <4>6, <4>7
    <3> HIDE DEF J
    <3>4. T = {}
      <4> SUFFICES ASSUME T # {} PROVE FALSE
        OBVIOUS
      <4>1. T \in SUBSET Nat
        OBVIOUS
      <4>2. PICK k \in T : \A l \in T : k <= l
        <5> HIDE DEF T
        <5>1. QED
          BY <4>1, Least
      <4>3. k \in 2..n
        BY <3>2, <4>2
      <4>4. k - 1 \in 1..n /\ ~(k <= k - 1)
        BY <4>3
      <4>5. J(k - 1)
        BY <4>2, <4>4
      <4>6. QED
        BY <3>3, <4>2, <4>3, <4>5
    <3>5. J(n)
      BY <2>3, <3>4
    <3>6. {as[l] : l \in 1..n} = used
      <4>1. \A l \in 1..n : as[l] \in used
        BY <1>5
      <4>2. QED
        BY <1>6, <4>1
    <3>7. QED
      BY <1>8, <2>1, <3>1, <3>5, <3>6 DEF J
  <2>4. QED
    BY <2>2, <2>3
<1>11. spans \in Seq(Spans) /\ \A k \in DOMAIN spans : Fits(spans[k])
  BY <1>10 DEF PlanOf
<1>12. Len(spans) <= N
  <2>1. PICK nn \in Nat : nn = Len(spans) /\ DOMAIN spans = 1..nn
    BY <1>11, LenProperties
  <2> DEFINE first == [k \in 1..nn |-> spans[k].items[1]]
  <2>2. first \in Injection(1..nn, Tags)
    <3>1. \A k \in 1..nn : spans[k].items[1] \in Tags
      BY <1>10, <2>1, FirstCovered DEF PlanOf
    <3>2. \A k, l \in 1..nn :
             spans[k].items[1] = spans[l].items[1] => k = l
      BY <1>10, <2>1 DEF PlanOf
    <3>3. QED
      BY <3>1, <3>2 DEF Injection, IsInjective
  <2> HIDE DEF first
  <2>3. /\ IsFiniteSet(Tags) /\ Cardinality(Tags) = N
        /\ Cardinality(1..nn) = nn
    <3>1. N \in Nat
      BY BoundsOK
    <3>2. IsFiniteSet(1..N) /\ Cardinality(1..N) = N
      BY <3>1, FS_Interval
    <3>3. IsFiniteSet(1..nn) /\ Cardinality(1..nn) = nn
      BY FS_Interval
    <3>4. QED
      BY <3>2, <3>3 DEF Tags
  <2>4. QED
    BY <2>1, <2>2, <2>3, FS_Injection
<1>13. QED
  BY <1>10, <1>11, <1>12


-----------------------------------------------------------------------------
USE DEF device, result, link

LEMMA MinOfTwo ==
    ASSUME NEW x \in Nat, NEW y \in Nat
    PROVE  /\ Min({x, y}) \in {x, y}
           /\ Min({x, y}) <= x /\ Min({x, y}) <= y
<1>1. \E z \in {x, y} : \A w \in {x, y} : z <= w
  OBVIOUS
<1>2. Min({x, y}) \in {x, y} /\ \A w \in {x, y} : Min({x, y}) <= w
  BY <1>1 DEF Min
<1>3. QED
  BY <1>2

(* Operations are counted one at a time, or the idle time is over.         *)
LEMMA AgesAre ==
    ASSUME IInv, NEW a \in Ages
    PROVE  /\ a \in 0..Expired
           /\ a = age + 1 \/ a = Expired
<1>1. age \in Nat /\ Expired \in Nat /\ age <= Expired
  BY BoundsOK DEF IInv, Shape
<1>2. PICK e : e = Min({age + 1, Expired})
  OBVIOUS
<1>3. e \in {age + 1, Expired} /\ e <= age + 1 /\ e <= Expired
  BY <1>1, <1>2, MinOfTwo
<1>4. a = e \/ a = Expired
  BY <1>2 DEF Ages
<1>5. QED
  BY <1>1, <1>3, <1>4

(* How many requests the connection may be behind grows with its age.      *)
LEMMA Product ==
    ASSUME NEW n \in Nat, NEW a \in Nat, NEW e \in Nat, a + 1 <= e
    PROVE  n * (a + 1) = n * a + n /\ n * a + n <= n * e /\ n * a \in Nat
<1>1. n * (a + 1) = n * a + n /\ n * a \in Nat
  OBVIOUS
<1>2. PICK d \in Nat : e = (a + 1) + d
  <2>1. e - (a + 1) \in Nat /\ e = (a + 1) + (e - (a + 1))
    OBVIOUS
  <2>2. QED
    BY <2>1
<1>3. n * e = n * (a + 1) + n * d /\ n * d \in Nat
  BY <1>2
<1>4. QED
  BY <1>1, <1>3

(* The parts of the inductive invariant, step by step.                     *)
LEMMA ShapeStep ==
    IInv /\ [Next]_vars => Shape'
<1> SUFFICES ASSUME IInv, [Next]_vars PROVE Shape'
  OBVIOUS
<1> USE DEF Shape
<1>0. /\ conf \in Layouts /\ age \in 0..Expired
      /\ out = [i \in Tags |-> out[i]]
  BY DEF IInv
<1>1. Expired \in Nat \ {0}
  BY BoundsOK
<1>2. CASE ReadTags
  BY <1>0, <1>1, <1>2, AgesAre DEF ReadTags, Connects, ConnectFails
<1>3. CASE ReadSpan
  BY <1>0, <1>1, <1>3 DEF ReadSpan, Send, SendFails, BadItems
<1>4. ASSUME NEW i \in Tags, WriteTag(i) PROVE Shape'
  BY <1>0, <1>1, <1>4, AgesAre DEF WriteTag, Send, SendFails, BadItems
<1>5. CASE Disconnect
  BY <1>0, <1>5 DEF Disconnect
<1>6. CASE Answer \/ AnswersWrong \/ DeviceChanges
  BY <1>0, <1>6 DEF Answer, AnswersWrong, DeviceChanges
<1>7. CASE Receive
  BY <1>0, <1>1, <1>7 DEF Receive, Accepted, Failed, BadItems
<1>8. CASE ReceiveShifted \/ TimesOut
  BY <1>0, <1>8 DEF ReceiveShifted, TimesOut, Failed, BadItems
<1>9. CASE UNCHANGED vars
  BY <1>0, <1>9 DEF vars
<1>10. QED
  BY <1>2, <1>3, <1>4, <1>5, <1>6, <1>7, <1>8, <1>9 DEF Next

LEMMA FitsStay ==
    ASSUME UNCHANGED conf, NEW span, Fits(span)
    PROVE  Fits(span)'
  BY DEF Fits, Covers, Readable, ParsesAddress, Area, Offset, RegisterCount

(* The layout does not change, and so the spans keep fitting.              *)
LEMMA ConfStays ==
    [Next]_vars => UNCHANGED conf
  BY DEF Next, vars, ReadTags, ReadSpan, WriteTag, Disconnect, Answer,
      AnswersWrong, DeviceChanges, Receive, ReceiveShifted, TimesOut

LEMMA PlanStays ==
    ASSUME UNCHANGED <<conf, todo>>, PlanFits
    PROVE  PlanFits'
<1>1. ASSUME NEW k \in DOMAIN todo PROVE Fits(todo[k])'
  <2>1. PICK x : x = todo[k]
    OBVIOUS
  <2>2. Fits(x)'
    BY <2>1, FitsStay DEF PlanFits
  <2>3. QED
    BY <2>1, <2>2
<1>2. QED
  BY <1>1 DEF PlanFits

LEMMA PlanFitsStep ==
    IInv /\ [Next]_vars => PlanFits'
<1> SUFFICES ASSUME IInv, [Next]_vars PROVE PlanFits'
  OBVIOUS
<1>1. UNCHANGED conf /\ PlanFits /\ conf \in Layouts
  BY ConfStays DEF IInv, Shape
<1>2. CASE UNCHANGED todo
  BY <1>1, <1>2, PlanStays
<1>3. ASSUME NEW spans \in ReadOrders, todo' = spans PROVE PlanFits'
  <2>1. /\ spans \in Seq(Spans) /\ Len(spans) <= N
        /\ \A k \in DOMAIN spans : Fits(spans[k])
    BY <1>1, PlansFit
  <2>2. ASSUME NEW k \in DOMAIN spans PROVE Fits(todo[k])'
    <3>1. PICK x : x = spans[k]
      OBVIOUS
    <3>2. Fits(x)'
      BY <1>1, <2>1, <3>1, FitsStay
    <3>3. QED
      BY <1>3, <3>1, <3>2
  <2>3. QED
    BY <1>3, <2>1, <2>2 DEF PlanFits
<1>4. ASSUME todo # <<>>, todo' = Tail(todo) PROVE PlanFits'
  <2>1. /\ todo \in Seq(Spans) /\ Len(todo) <= N
        /\ \A k \in DOMAIN todo : Fits(todo[k])
    BY <1>1 DEF PlanFits
  <2>2. PICK t : t = Tail(todo)
    OBVIOUS
  <2>3. /\ t \in Seq(Spans) /\ Len(t) = Len(todo) - 1
        /\ \A k \in 1..Len(t) : t[k] = todo[k+1]
        /\ DOMAIN t = 1..Len(t) /\ DOMAIN todo = 1..Len(todo)
        /\ Len(todo) \in Nat
    BY <1>4, <2>1, <2>2, HeadTailProperties, LenProperties
  <2>4. ASSUME NEW k \in DOMAIN t PROVE Fits(todo[k])'
    <3>1. PICK x : x = t[k]
      OBVIOUS
    <3>2. Fits(x)
      <4>1. k \in 1..Len(t) /\ k + 1 \in DOMAIN todo
        BY <2>3
      <4>2. x = todo[k + 1]
        BY <2>3, <3>1, <4>1
      <4>3. QED
        BY <2>1, <4>1, <4>2
    <3>3. Fits(x)'
      BY <1>1, <3>2, FitsStay
    <3>4. QED
      BY <1>4, <2>2, <3>1, <3>3
  <2>5. N \in Nat
    BY BoundsOK
  <2>6. QED
    BY <1>4, <2>1, <2>2, <2>3, <2>4, <2>5 DEF PlanFits
<1>5. \/ UNCHANGED todo
      \/ \E spans \in ReadOrders : todo' = spans
      \/ todo # <<>> /\ todo' = Tail(todo)
  BY DEF Next, vars, ReadTags, ReadSpan, WriteTag, Disconnect, Answer,
      AnswersWrong, DeviceChanges, Receive, ReceiveShifted, TimesOut
<1>6. QED
  BY <1>2, <1>3, <1>4, <1>5

(* The request under way is one of the plan, on a connection in use.       *)
LEMMA RequestFitsStep ==
    IInv /\ [Next]_vars => RequestFits'
<1> SUFFICES ASSUME IInv, [Next]_vars PROVE RequestFits'
  OBVIOUS
<1>1. UNCHANGED conf /\ RequestFits /\ PlanFits /\ Shape
  BY ConfStays DEF IInv
<1>2. N \in Nat /\ Expired \in Nat \ {0}
  BY BoundsOK
<1>3. age \in 0..Expired /\ todo \in Seq(Spans) /\ Len(todo) <= N
  BY <1>1 DEF Shape, PlanFits
<1>4. ASSUME req' = None PROVE RequestFits'
  BY <1>4 DEF RequestFits
<1>5. ASSUME NEW r \in Requests, NEW a \in 0..Expired, Send(r, a), Len(todo') < N,
             Reads(r) => Fits(r.span)
      PROVE  RequestFits'
  <2>1. req' = r /\ conn' = TRUE /\ age' < Expired
    BY <1>2, <1>5 DEF Send, Kept
  <2>2. Reads(r) => Fits(r.span)'
    BY <1>1, <1>5, FitsStay
  <2>3. Reads(req)' => Fits(r.span)'
    BY <2>1, <2>2 DEF Reads
  <2>4. QED
    BY <1>5, <2>1, <2>3 DEF RequestFits
<1>6. ASSUME UNCHANGED <<req, conn, age, todo>> PROVE RequestFits'
  <2>1. PICK r : r = req
    OBVIOUS
  <2>2. Reads(r) /\ r # None => Fits(r.span)'
    BY <1>1, <2>1, FitsStay DEF RequestFits
  <2>3. QED
    BY <1>1, <1>6, <2>1, <2>2 DEF RequestFits, Reads
<1>7. ASSUME UNCHANGED <<conn, age, todo>>, req # None,
             req' = [req EXCEPT !.answered = TRUE]
      PROVE  RequestFits'
  <2>1. PICK r : r = req
    OBVIOUS
  <2>2. /\ r \in Requests /\ conn /\ age < Expired /\ Len(todo) < N
        /\ Reads(r) => Fits(r.span)
    BY <1>1, <1>7, <2>1 DEF RequestFits
  <2>3. PICK q : q = [r EXCEPT !.answered = TRUE]
    OBVIOUS
  <2>4. q \in Requests /\ q.span = r.span /\ q.write = r.write
    BY <2>2, <2>3 DEF Requests
  <2>5. Reads(q) => Fits(q.span)'
    BY <1>1, <2>2, <2>4, FitsStay DEF Reads
  <2>6. req' = q
    BY <1>7, <2>1, <2>3
  <2>7. QED
    BY <1>7, <2>2, <2>4, <2>5, <2>6 DEF RequestFits, Reads
<1>8. CASE ReadTags
  <2>1. req' = None
    BY <1>8 DEF ReadTags, Idle
  <2>2. QED
    BY <1>4, <2>1
<1>9. CASE ReadSpan
  <2>1. req = None /\ todo # <<>> /\ todo' = Tail(todo)
    BY <1>9 DEF ReadSpan
  <2>2. /\ Len(todo) \in Nat \ {0} /\ Len(Tail(todo)) = Len(todo) - 1
        /\ Head(todo) = todo[1] /\ 1 \in DOMAIN todo
    BY <1>3, <2>1, HeadTailProperties, LenProperties, EmptySeq
  <2>3. PICK span : span = Head(todo)
    OBVIOUS
  <2>4. Fits(span) /\ span \in Spans
    BY <1>1, <2>2, <2>3 DEF PlanFits, Fits
  <2>5. PICK r : r = [NoRequest EXCEPT !.span = span]
    OBVIOUS
  <2>6. r \in Requests /\ r.span = span
    BY <2>4, <2>5 DEF Requests, NoRequest
  <2>7. Len(todo') < N
    BY <1>2, <1>3, <2>1, <2>2
  <2>8. CASE Send(r, age)
    BY <1>3, <1>5, <2>4, <2>6, <2>7, <2>8
  <2>9. CASE UNCHANGED req
    BY <1>4, <2>1, <2>9
  <2>10. QED
    BY <1>9, <2>3, <2>5, <2>8, <2>9 DEF ReadSpan, SendFails
<1>10. ASSUME NEW i \in Tags, WriteTag(i) PROVE RequestFits'
  <2>1. req = None /\ todo = <<>> /\ UNCHANGED todo
    BY <1>10 DEF WriteTag, Idle
  <2>2. PICK r : r = [NoRequest EXCEPT !.write = i]
    OBVIOUS
  <2>3. i # 0
    BY <1>2 DEF Tags
  <2>4. r \in Requests /\ ~Reads(r)
    BY <2>2, <2>3 DEF Requests, NoRequest, Reads
  <2>5. Len(todo') < N
    BY <1>2, <2>1 DEF Tags
  <2>6. CASE \E a \in Ages : Send(r, a)
    <3>1. PICK a \in Ages : Send(r, a)
      BY <2>6
    <3>2. a \in 0..Expired
      BY AgesAre
    <3>3. QED
      BY <1>5, <2>4, <2>5, <3>1, <3>2
  <2>7. CASE UNCHANGED req
    BY <1>4, <2>1, <2>7
  <2>8. QED
    BY <1>10, <2>2, <2>6, <2>7 DEF WriteTag, SendFails
<1>11. CASE Disconnect
  BY <1>4, <1>11 DEF Disconnect, Idle
<1>12. CASE Answer
  BY <1>7, <1>12 DEF Answer
<1>13. CASE AnswersWrong
  BY <1>7, <1>13 DEF AnswersWrong
<1>14. CASE DeviceChanges
  BY <1>6, <1>14 DEF DeviceChanges
<1>15. CASE Receive \/ ReceiveShifted \/ TimesOut
  <2>1. req' = None
    BY <1>15 DEF Receive, ReceiveShifted, TimesOut, Accepted, Failed
  <2>2. QED
    BY <1>4, <2>1
<1>16. CASE UNCHANGED vars
  BY <1>6, <1>16 DEF vars
<1>17. QED
  BY <1>8, <1>9, <1>10, <1>11, <1>12, <1>13, <1>14, <1>15, <1>16 DEF Next

(* InOrder, with the bound of the frames' age as a hypothesis.             *)
LEMMA Sent ==
    ASSUME IInv, NEW r, NEW a \in 0..Expired, Send(r, a), TidsSuffice,
           Len(todo') \in 0..N,
           Kept(a) => \A k \in DOMAIN stream :
                        stream[k].behind + 1 <= N * a + N - Len(todo')
    PROVE  InOrder'
<1>1. N \in Nat /\ Expired \in Nat \ {0} /\ Tids \in Nat \ {0}
  BY BoundsOK
<1>2. /\ stream \in Seq(ToSet(stream))
      /\ \A k \in DOMAIN stream :
           /\ IsFrame(stream[k])
           /\ \A l \in DOMAIN stream :
                k < l => stream[k].behind >= stream[l].behind
  BY DEF IInv, InOrder
<1>3. conn' = TRUE
  BY DEF Send
<1>4. CASE ~Kept(a)
  <2>1. stream' = <<>>
    BY <1>4 DEF Send
  <2>2. PICK t : t = <<>>
    OBVIOUS
  <2>3. t \in Seq(ToSet(t)) /\ DOMAIN t = {}
    BY <2>2
  <2>4. QED
    BY <1>3, <2>1, <2>2, <2>3 DEF InOrder
<1>5. CASE Kept(a)
  <2>1. a < Expired /\ a \in Nat /\ age' = a
    BY <1>1, <1>5 DEF Kept, Send
  <2>2. PICK p \in Nat, q \in Nat : p = N * a /\ q = N * Expired
    BY <1>1, <2>1
  <2>3. p + N <= q
    BY <1>1, <2>1, <2>2, Product
  <2>4. q < Tids
    BY <2>2 DEF TidsSuffice
  <2>5. PICK t : t = [k \in DOMAIN stream |->
                        [stream[k] EXCEPT !.behind = (@ + 1) % Tids]]
    OBVIOUS
  <2>6. t = stream'
    BY <1>5, <2>5 DEF Send
  <2>7. DOMAIN stream = 1..Len(stream) /\ Len(stream) \in Nat
    BY <1>2, LenProperties
  <2>8. DOMAIN t = 1..Len(stream)
    BY <2>5, <2>7
  <2>9. t = [k \in 1..Len(stream) |-> t[k]]
    BY <2>5, <2>7
  <2>10. t \in Seq(ToSet(t))
    BY <2>7, <2>9, IsSequence
  <2>11. ASSUME NEW k \in DOMAIN t
         PROVE  /\ IsFrame(t[k]) /\ t[k].behind = stream[k].behind + 1
                /\ stream[k].behind \in Nat
                /\ stream[k].behind + 1 <= p + N - Len(todo')
    <3>1. PICK f : f = stream[k]
      OBVIOUS
    <3>2. f = [behind |-> f.behind, body |-> f.body] /\ f.behind \in Nat
      BY <1>2, <2>7, <2>8, <3>1 DEF IsFrame
    <3>3. f.behind + 1 <= p + N - Len(todo')
      BY <1>5, <2>2, <2>7, <2>8, <3>1
    <3>4. (f.behind + 1) % Tids = f.behind + 1
      <4>1. PICK x \in Nat : x = f.behind + 1
        BY <3>2
      <4>2. x < Tids
        BY <1>1, <2>3, <2>4, <3>3, <4>1
      <4>3. x % Tids = x
        BY <1>1, <4>1, <4>2
      <4>4. QED
        BY <4>1, <4>3
    <3>5. t[k] = [f EXCEPT !.behind = (f.behind + 1) % Tids]
      BY <2>5, <2>7, <2>8, <3>1
    <3>6. t[k] = [behind |-> f.behind + 1, body |-> f.body]
      BY <3>2, <3>4, <3>5
    <3>7. QED
      BY <3>1, <3>2, <3>3, <3>6 DEF IsFrame
  <2>12. ASSUME NEW k \in DOMAIN t, NEW l \in DOMAIN t, k < l
         PROVE  t[k].behind >= t[l].behind
    <3>1. stream[k].behind >= stream[l].behind
      BY <1>2, <2>7, <2>8, <2>12
    <3>2. QED
      BY <2>11, <3>1
  <2>13. \A k \in DOMAIN t : t[k].behind > 0
    BY <2>11
  <2>14. \A k \in DOMAIN t : t[k].behind <= N * age' + N - Len(todo')
    BY <2>1, <2>2, <2>11
  <2>15. QED
    BY <1>3, <2>6, <2>10, <2>11, <2>12, <2>13, <2>14 DEF InOrder
<1>6. QED
  BY <1>4, <1>5

(* A part of the frames at the end is in order if they were, unless the    *)
(* connection's age or the spans to read say otherwise.                    *)
LEMMA Received ==
    ASSUME IInv, NEW n \in 0..Len(stream),
           stream' = SubSeq(stream, n + 1, Len(stream)),
           conn' = conn, todo' = todo, req' = None,
           \/ age' = age
           \/ age' = 0 /\ n = 1 /\ stream # <<>> /\ stream[1].behind = 0
    PROVE  InOrder'
<1>1. N \in Nat /\ Len(todo) \in 0..N
  BY BoundsOK, LenProperties DEF IInv, PlanFits
<1>2. InOrder
  BY DEF IInv
<1>3. PICK t : t = SubSeq(stream, n + 1, Len(stream))
  OBVIOUS
<1>4. stream \in Seq(ToSet(stream))
  BY <1>2 DEF InOrder
<1>5. IsRest(t, stream, n)
  BY <1>3, <1>4, SuffixIs
<1> USE DEF IsRest
<1>6. ~conn => t = <<>>
  <2>1. ASSUME ~conn PROVE t = <<>>
    <3>1. stream = <<>>
      BY <1>2, <2>1 DEF InOrder
    <3>2. Len(stream) = 0
      BY <3>1
    <3>3. DOMAIN t = {}
      BY <1>5, <3>2
    <3>4. QED
      BY <1>5, <3>3, EmptySeq, LenProperties
  <2>2. QED
    BY <2>1
<1>7. ASSUME NEW k \in DOMAIN t
      PROVE  /\ IsFrame(t[k])
             /\ \A l \in DOMAIN t : k < l => t[k].behind >= t[l].behind
             /\ age' < Expired => t[k].behind <= N * age' + N - Len(todo)
  <2>0. /\ DOMAIN t \subseteq Nat \ {0}
        /\ \A l \in DOMAIN t : l + n \in DOMAIN stream /\ t[l] = stream[l + n]
    <3>1. PICK l, lt : l = Len(stream) /\ lt = Len(t)
      OBVIOUS
    <3>2. /\ l \in Nat /\ lt = l - n /\ DOMAIN t = 1..lt /\ DOMAIN stream = 1..l
          /\ \A j \in 1..lt : t[j] = stream[j + n]
      BY <1>5, <3>1
    <3>3. \A j \in 1..lt : j \in Nat \ {0} /\ j + n \in 1..l
      BY <3>1, <3>2
    <3>4. QED
      BY <3>2, <3>3
  <2>1. k + n \in DOMAIN stream /\ t[k] = stream[k + n] /\ k + n > n
    BY <2>0
  <2>2. IsFrame(t[k])
    BY <1>2, <2>1 DEF InOrder
  <2>3. ASSUME NEW l \in DOMAIN t, k < l PROVE t[k].behind >= t[l].behind
    <3>1. l + n \in DOMAIN stream /\ t[l] = stream[l + n] /\ k + n < l + n
      BY <2>0, <2>3
    <3>2. QED
      BY <1>2, <2>1, <3>1 DEF InOrder
  <2>4. CASE age' = age
    <3>1. age < Expired => stream[k + n].behind <= N * age + N - Len(todo)
      BY <1>2, <2>1 DEF InOrder
    <3>2. QED
      BY <2>1, <2>2, <2>3, <2>4, <3>1
  <2>5. CASE age' = 0 /\ n = 1 /\ stream # <<>> /\ stream[1].behind = 0
    <3>1. 1 \in DOMAIN stream /\ 1 < k + n
      BY <1>5, <2>1, <2>5
    <3>2. stream[1].behind >= t[k].behind
      BY <1>2, <2>1, <3>1 DEF InOrder
    <3>3. t[k].behind \in Nat
      BY <2>2 DEF IsFrame
    <3>4. t[k].behind = 0
      BY <2>5, <3>2, <3>3
    <3>5. N * age' = 0
      BY <1>1, <2>5
    <3>6. QED
      BY <1>1, <2>2, <2>3, <3>4, <3>5
  <2>6. QED
    BY <2>2, <2>3, <2>4, <2>5
<1>8. stream' = t
  BY <1>3
<1>9. QED
  BY <1>5, <1>6, <1>7, <1>8 DEF InOrder

(* Frames in the order they were sent, none more than b requests behind.   *)
Ordered(s, b) ==
    /\ s \in Seq(ToSet(s))
    /\ \A k \in DOMAIN s :
         /\ IsFrame(s[k]) /\ s[k].behind <= b
         /\ \A l \in DOMAIN s : k < l => s[k].behind >= s[l].behind

(* A frame that is no older than those before it may follow them.          *)
LEMMA AppendOrdered ==
    ASSUME NEW b \in Int, NEW s, Ordered(s, b), NEW f, IsFrame(f), f.behind <= b,
           \A k \in DOMAIN s : f.behind <= s[k].behind,
           NEW t, t = Append(s, f)
    PROVE  /\ Ordered(t, b)
           /\ \A k \in DOMAIN t : f.behind <= t[k].behind
           /\ DOMAIN t = 1..Len(s) + 1 /\ DOMAIN s = 1..Len(s) /\ Len(s) \in Nat
           /\ \A k \in 1..Len(s) : t[k] = s[k]
           /\ t[Len(s) + 1] = f
<1>1. /\ t \in Seq(ToSet(t))
      /\ DOMAIN t = 1..Len(s) + 1 /\ DOMAIN s = 1..Len(s) /\ Len(s) \in Nat
      /\ \A k \in 1..Len(s) : t[k] = s[k]
      /\ t[Len(s) + 1] = f
  <2>1. s \in Seq(ToSet(s))
    BY DEF Ordered
  <2>2. IsAppended(t, s, f)
    BY <2>1, AppendIs
  <2>3. QED
    BY <2>2 DEF IsAppended
<1>2. f.behind \in Nat
  BY DEF IsFrame
<1>3. \A k \in 1..Len(s) : s[k].behind \in Nat /\ IsFrame(s[k])
  BY <1>1 DEF Ordered, IsFrame
<1>4. ASSUME NEW k \in DOMAIN t
      PROVE  IsFrame(t[k]) /\ t[k].behind <= b /\ f.behind <= t[k].behind
  <2>1. CASE k \in 1..Len(s)
    BY <1>1, <2>1 DEF Ordered
  <2>2. CASE k = Len(s) + 1
    BY <1>1, <1>2, <2>2
  <2>3. QED
    BY <1>1, <2>1, <2>2
<1>5. ASSUME NEW k \in DOMAIN t, NEW l \in DOMAIN t, k < l
      PROVE  t[k].behind >= t[l].behind
  <2>1. k \in 1..Len(s)
    BY <1>1, <1>5
  <2>2. CASE l \in 1..Len(s)
    BY <1>1, <1>5, <2>1, <2>2 DEF Ordered
  <2>3. CASE l = Len(s) + 1
    BY <1>1, <1>2, <1>3, <2>1, <2>3
  <2>4. QED
    BY <1>1, <2>2, <2>3
<1>6. QED
  BY <1>1, <1>4, <1>5 DEF Ordered

(* What the device sends while a request is waiting.                       *)
LEMMA Arrives ==
    ASSUME IInv, req # None, ~req.answered, req'.answered,
           UNCHANGED <<conn, age, todo>>,
           NEW b \in Int, b = N * age + N - Len(todo),
           Ordered(stream', b)
    PROVE  InOrder'
<1>1. conn
  BY DEF IInv, RequestFits
<1>2. QED
  BY <1>1 DEF InOrder, Ordered

(* While the device has not answered, what is in the stream is older.      *)
LEMMA Waiting ==
    ASSUME IInv, req # None, ~req.answered,
           NEW b, b = N * age + N - Len(todo)
    PROVE  /\ b \in Int /\ b >= 1 /\ Ordered(stream, b)
           /\ \A k \in DOMAIN stream : stream[k].behind >= 1
<1>1. N \in Nat /\ age \in Nat /\ Len(todo) \in Nat
  BY BoundsOK, LenProperties DEF IInv, Shape, PlanFits
<1>2. age < Expired /\ Len(todo) < N
  BY DEF IInv, RequestFits
<1>3. b \in Int /\ b >= 1
  <2>1. PICK p \in Nat : p = N * age
    BY <1>1
  <2>2. QED
    BY <1>1, <1>2, <2>1
<1>4. \A k \in DOMAIN stream : stream[k].behind \in Nat /\ stream[k].behind > 0
  BY DEF IInv, InOrder, IsFrame
<1>5. Ordered(stream, b)
  BY <1>2 DEF IInv, InOrder, Ordered
<1>6. QED
  BY <1>3, <1>4, <1>5

(* Frames stay in order: no id comes round again within the idle time.     *)
LEMMA InOrderStep ==
    ASSUME TidsSuffice
    PROVE  IInv /\ [Next]_vars => InOrder'
<1> SUFFICES ASSUME IInv, [Next]_vars PROVE InOrder'
  OBVIOUS
<1>1. InOrder /\ PlanFits /\ RequestFits /\ Shape
  BY DEF IInv
<1>2. N \in Nat /\ Expired \in Nat \ {0}
  BY BoundsOK
<1>3. age \in 0..Expired /\ age \in Nat /\ todo \in Seq(Spans) /\ Len(todo) \in 0..N
  BY <1>1, <1>2, LenProperties DEF Shape, PlanFits
<1>4. ASSUME UNCHANGED <<conn, age, stream>>, req' = None, Len(todo') <= Len(todo),
             Len(todo') \in Nat
      PROVE  InOrder'
  <2>1. ASSUME NEW k \in DOMAIN stream, age < Expired
        PROVE  stream[k].behind <= N * age + N - Len(todo')
    <3>1. PICK p \in Nat : p = N * age
      BY <1>2, <1>3
    <3>2. stream[k].behind <= p + N - Len(todo) /\ stream[k].behind \in Nat
      BY <1>1, <2>1, <3>1 DEF InOrder, IsFrame
    <3>3. stream[k].behind <= p + N - Len(todo')
      BY <1>2, <1>3, <1>4, <3>2
    <3>4. QED
      BY <3>1, <3>3
  <2>2. QED
    BY <1>1, <1>4, <2>1 DEF InOrder
<1>5. ASSUME stream' = <<>> PROVE InOrder'
  <2>1. PICK t : t = <<>>
    OBVIOUS
  <2>2. t \in Seq(ToSet(t)) /\ DOMAIN t = {}
    BY <2>1
  <2>3. QED
    BY <1>5, <2>1, <2>2 DEF InOrder
<1>6. CASE ReadTags
  <2>1. req = None /\ req' = None /\ todo = <<>> /\ stream' = stream
    BY <1>6 DEF ReadTags, Idle
  <2>2. Len(todo) = 0
    BY <2>1
  <2>3. CASE ~conn
    BY <1>1, <1>5, <2>1, <2>3 DEF InOrder
  <2>4. CASE conn
    <3>1. age' \in Ages /\ conn' = conn
      BY <1>6, <2>4 DEF ReadTags, Connects, ConnectFails
    <3>2. age' = age + 1 \/ age' = Expired
      BY <3>1, AgesAre
    <3>3. PICK spans \in ReadOrders : todo' = spans
      BY <1>6, <2>4 DEF ReadTags, ConnectFails
    <3>4. Len(todo') \in Nat /\ Len(todo') <= N
      BY <1>1, <3>3, PlansFit, LenProperties DEF Shape
    <3>5. ASSUME NEW k \in DOMAIN stream, age' < Expired
          PROVE  stream[k].behind <= N * age' + N - Len(todo')
      <4>1. age' = age + 1 /\ age < Expired
        BY <1>2, <1>3, <3>2, <3>5
      <4>2. PICK p \in Nat : p = N * age
        BY <1>2, <1>3
      <4>3. stream[k].behind <= p + N /\ stream[k].behind \in Nat
        BY <1>1, <1>2, <2>2, <4>1, <4>2 DEF InOrder, IsFrame
      <4>4. age + 1 <= Expired
        BY <1>2, <1>3, <4>1
      <4>5. N * (age + 1) = p + N
        BY <1>2, <1>3, <4>2, <4>4, Product
      <4>6. stream[k].behind <= (p + N) + N - Len(todo')
        BY <1>2, <3>4, <4>3
      <4>7. QED
        BY <4>1, <4>5, <4>6
    <3>6. QED
      BY <1>1, <2>1, <2>4, <3>1, <3>5 DEF InOrder
  <2>5. QED
    BY <2>3, <2>4
<1>7. CASE ReadSpan
  <2>1. req = None /\ todo # <<>> /\ todo' = Tail(todo)
    BY <1>7 DEF ReadSpan
  <2>2. Len(todo) \in Nat \ {0} /\ Len(todo') = Len(todo) - 1
    BY <1>3, <2>1, HeadTailProperties, LenProperties, EmptySeq
  <2>3. ASSUME NEW r, Send(r, age) PROVE InOrder'
    <3>1. ASSUME Kept(age), NEW k \in DOMAIN stream
          PROVE  stream[k].behind + 1 <= N * age + N - Len(todo')
      <4>1. PICK p \in Nat : p = N * age
        BY <1>2, <1>3
      <4>2. stream[k].behind <= p + N - Len(todo) /\ stream[k].behind \in Nat
        BY <1>1, <3>1, <4>1 DEF InOrder, IsFrame, Kept
      <4>3. stream[k].behind + 1 <= p + N - Len(todo')
        BY <1>2, <2>2, <4>2
      <4>4. QED
        BY <4>1, <4>3
    <3>2. Len(todo') \in 0..N
      BY <1>2, <1>3, <2>2
    <3>3. QED
      BY <1>3, <2>3, <3>1, <3>2, Sent
  <2>4. CASE stream' = <<>>
    BY <1>5, <2>4
  <2>5. CASE UNCHANGED <<req, conn, age, stream>>
    BY <1>4, <2>1, <2>2, <2>5
  <2>6. QED
    BY <1>7, <2>3, <2>4, <2>5 DEF ReadSpan, SendFails, CloseConn
<1>8. ASSUME NEW i \in Tags, WriteTag(i) PROVE InOrder'
  <2>1. req = None /\ todo = <<>> /\ UNCHANGED todo
    BY <1>8 DEF WriteTag, Idle
  <2>2. Len(todo) = 0 /\ Len(todo') = 0 /\ 1 <= N
    BY <1>2, <2>1 DEF Tags
  <2>3. ASSUME NEW r, NEW a \in Ages, Send(r, a) PROVE InOrder'
    <3>1. a \in 0..Expired /\ (a = age + 1 \/ a = Expired)
      BY AgesAre
    <3>2. ASSUME Kept(a), NEW k \in DOMAIN stream
          PROVE  stream[k].behind + 1 <= N * a + N - Len(todo')
      <4>1. a = age + 1 /\ age < Expired /\ age + 1 <= Expired
        BY <1>2, <1>3, <3>1, <3>2 DEF Kept
      <4>2. PICK p \in Nat : p = N * age
        BY <1>2, <1>3
      <4>3. stream[k].behind <= p + N /\ stream[k].behind \in Nat
        BY <1>1, <1>2, <2>2, <3>2, <4>1, <4>2 DEF InOrder, IsFrame
      <4>4. N * (age + 1) = p + N
        BY <1>2, <1>3, <4>1, <4>2, Product
      <4>5. stream[k].behind + 1 <= (p + N) + N - Len(todo')
        BY <1>2, <2>2, <4>2, <4>3
      <4>6. QED
        BY <4>1, <4>4, <4>5
    <3>3. Len(todo') \in 0..N
      BY <1>2, <2>2
    <3>4. QED
      BY <2>3, <3>1, <3>2, <3>3, Sent
  <2>4. CASE stream' = <<>>
    BY <1>5, <2>4
  <2>5. QED
    BY <1>8, <2>3, <2>4 DEF WriteTag, SendFails, CloseConn
<1>9. CASE Disconnect
  BY <1>5, <1>9 DEF Disconnect, CloseConn
<1>10. ASSUME Answer \/ AnswersWrong PROVE InOrder'
  <2>1. req # None /\ ~req.answered /\ UNCHANGED <<conn, age, todo>>
    BY <1>10 DEF Answer, AnswersWrong
  <2>2. req'.answered
    <3>1. PICK r : r = req
      OBVIOUS
    <3>2. r \in Requests /\ req' = [r EXCEPT !.answered = TRUE]
      BY <1>1, <1>10, <2>1, <3>1 DEF RequestFits, Answer, AnswersWrong
    <3>3. QED
      BY <3>2 DEF Requests
  <2>3. PICK b : b = N * age + N - Len(todo)
    OBVIOUS
  <2>4. /\ b \in Int /\ b >= 1 /\ Ordered(stream, b)
        /\ \A k \in DOMAIN stream : stream[k].behind >= 1
    BY <2>1, <2>3, Waiting
  <2>5. \A k \in DOMAIN stream : stream[k].behind \in Nat
    BY <2>4 DEF Ordered, IsFrame
  <2>6. ASSUME NEW f, IsFrame(f), f.behind \in {0, 1}
        PROVE  /\ Ordered(Append(stream, f), b)
               /\ \A k \in DOMAIN Append(stream, f) :
                    f.behind <= Append(stream, f)[k].behind
    <3>1. PICK t : t = Append(stream, f)
      OBVIOUS
    <3>2. \A k \in DOMAIN stream : f.behind <= stream[k].behind
      BY <2>4, <2>5, <2>6
    <3>3. f.behind <= b
      BY <2>4, <2>6
    <3>4. Ordered(t, b) /\ \A k \in DOMAIN t : f.behind <= t[k].behind
      BY <2>4, <2>6, <3>1, <3>2, <3>3, AppendOrdered
    <3>5. QED
      BY <3>1, <3>4
  <2>7. ASSUME NEW f, IsFrame(f), f.behind \in {0, 1}, stream' = Append(stream, f)
        PROVE  InOrder'
    <3>1. Ordered(stream', b)
      BY <2>6, <2>7
    <3>2. QED
      BY <2>1, <2>2, <2>3, <2>4, <3>1, Arrives
  <2>8. ASSUME NEW f, IsFrame(f), f.behind = 0, stream' = stream \o <<f, f>>
        PROVE  InOrder'
    <3>1. PICK s : s = Append(stream, f)
      OBVIOUS
    <3>2. Ordered(s, b) /\ \A k \in DOMAIN s : f.behind <= s[k].behind
      BY <2>6, <2>8, <3>1
    <3>3. PICK t : t = Append(s, f)
      OBVIOUS
    <3>4. f.behind <= b
      BY <2>4, <2>8
    <3>5. Ordered(t, b)
      BY <2>4, <2>8, <3>2, <3>3, <3>4, AppendOrdered
    <3>6. stream' = t
      <4>1. stream \in Seq(ToSet(stream) \cup {f})
        BY <2>4, SeqMonotonic DEF Ordered
      <4>2. QED
        BY <2>8, <3>1, <3>3, <4>1
    <3>7. QED
      BY <2>1, <2>2, <2>3, <2>4, <3>5, <3>6, Arrives
  <2>9. ASSUME NEW v, NEW x \in {0, 1}
        PROVE  /\ IsFrame([behind |-> x, body |-> v])
               /\ [behind |-> x, body |-> v].behind = x
    BY DEF IsFrame
  <2>10. IsFrame(Frame(req, Result)) /\ Frame(req, Result).behind = 0
    BY DEF IsFrame, Frame
  <2>11. CASE Answer
    BY <2>7, <2>10, <2>11 DEF Answer
  <2>12. CASE AnswersWrong
    BY <2>7, <2>8, <2>9, <2>10, <2>12 DEF AnswersWrong
  <2>13. QED
    BY <1>10, <2>11, <2>12
<1>11. CASE DeviceChanges \/ UNCHANGED vars
  BY <1>1, <1>11 DEF DeviceChanges, vars, InOrder
<1>12. CASE Receive
  <2>1. /\ req' = None /\ stream # <<>> /\ stream' = Tail(stream)
        /\ UNCHANGED <<conn, todo>>
        /\ \/ age' = age
           \/ age' = 0 /\ Head(stream).behind = 0
    BY <1>12 DEF Receive, Accepted, Failed
  <2>2. stream \in Seq(ToSet(stream))
    BY <1>1 DEF InOrder
  <2>3. Head(stream) = stream[1] /\ 1 \in 0..Len(stream)
    BY <2>1, <2>2, TailIs
  <2>4. stream' = SubSeq(stream, 1 + 1, Len(stream))
    BY <2>1, <2>2, TailIsSubSeq
  <2>5. QED
    BY <2>1, <2>3, <2>4, Received
<1>13. CASE ReceiveShifted
  <2>1. req' = None /\ UNCHANGED <<conn, todo, age>>
    BY <1>13 DEF ReceiveShifted, Failed
  <2>2. PICK n \in 0..Len(stream) : stream' = SubSeq(stream, n + 1, Len(stream))
    BY <1>13 DEF ReceiveShifted
  <2>3. QED
    BY <2>1, <2>2, Received
<1>14. CASE TimesOut
  BY <1>5, <1>14 DEF TimesOut, CloseConn
<1>15. QED
  BY <1>6, <1>7, <1>8, <1>9, <1>10, <1>11, <1>12, <1>13, <1>14 DEF Next

(* A request that was just sent finds no answer in the stream.             *)
LEMMA NotYet ==
    ASSUME InOrder', req' = None \/ ~req'.answered
    PROVE  FramesRight'
  BY DEF InOrder, FramesRight

(* More memories, the same frames.                                         *)
LEMMA FramesStay ==
    ASSUME FramesRight, UNCHANGED <<req, stream>>, held \subseteq held'
    PROVE  FramesRight'
<1> HIDE DEF Frame
<1>1. SUFFICES ASSUME req # None, Reads(req), NEW k \in DOMAIN stream,
                      stream[k].behind = 0, stream[k].body # Bad
               PROVE  \E m \in held' : stream[k].body = Frame(req', m).body
  BY DEF FramesRight, Reads, Frame
<1>2. PICK m \in held : stream[k].body = Frame(req, m).body
  BY <1>1 DEF FramesRight
<1>3. QED
  BY <1>2

(* The frame that is expected answers the request under way.               *)
LEMMA FramesRightStep ==
    ASSUME TidsSuffice
    PROVE  IInv /\ [Next]_vars => FramesRight'
<1> SUFFICES ASSUME IInv, [Next]_vars PROVE FramesRight'
  OBVIOUS
<1>1. InOrder' /\ FramesRight
  BY InOrderStep DEF IInv
<1>2. CASE ReadTags \/ Disconnect \/ Receive \/ ReceiveShifted \/ TimesOut
  <2>1. req' = None
    BY <1>2 DEF ReadTags, Disconnect, Idle, Receive, ReceiveShifted, TimesOut,
         Accepted, Failed
  <2>2. QED
    BY <1>1, <2>1, NotYet
<1>3. CASE ReadSpan
  <2>1. req = None /\ NoRequest.answered = FALSE
    BY <1>3 DEF ReadSpan, NoRequest
  <2>2. req' = None \/ ~req'.answered
    BY <1>3, <2>1 DEF ReadSpan, Send, SendFails, NoRequest
  <2>3. QED
    BY <1>1, <2>2, NotYet
<1>4. ASSUME NEW i \in Tags, WriteTag(i) PROVE FramesRight'
  <2>1. req' = None \/ ~req'.answered
    BY <1>4 DEF WriteTag, Idle, Send, SendFails, NoRequest
  <2>2. QED
    BY <1>1, <2>1, NotYet
<1>5. CASE DeviceChanges \/ UNCHANGED vars
  BY <1>1, <1>5, FramesStay DEF DeviceChanges, vars
<1>6. CASE Answer \/ AnswersWrong
  <2>1. req # None /\ ~req.answered
    BY <1>6 DEF Answer, AnswersWrong
  <2>2. PICK r : r = req
    OBVIOUS
  <2>3. r \in Requests /\ req' = [r EXCEPT !.answered = TRUE]
    BY <1>6, <2>1, <2>2 DEF IInv, RequestFits, Answer, AnswersWrong
  <2>4. req'.span = r.span /\ req'.write = r.write
    BY <2>3 DEF Requests
  <2>5. \A m : Frame(req', m) = Frame(r, m)
    BY <2>4 DEF Frame, Reads, Quantity
  <2>6. SUFFICES ASSUME Reads(r), NEW k \in DOMAIN stream', stream'[k].behind = 0,
                        stream'[k].body # Bad
                 PROVE  \E m \in held' : stream'[k].body = Frame(r, m).body
    BY <2>4, <2>5 DEF FramesRight, Reads
  <2>7. stream \in Seq(ToSet(stream))
        /\ \A l \in DOMAIN stream : stream[l].behind > 0 /\ stream[l].behind \in Nat
    BY <2>1 DEF IInv, InOrder, IsFrame
  <2>8. ASSUME NEW f, stream' = Append(stream, f)
        PROVE  stream'[k] = f
    <3>1. PICK t : t = stream'
      OBVIOUS
    <3>2. IsAppended(t, stream, f)
      BY <2>7, <2>8, <3>1, AppendIs
    <3>3. CASE k \in 1..Len(stream)
      BY <2>6, <2>7, <3>1, <3>2, <3>3 DEF IsAppended
    <3>4. CASE k = Len(t)
      BY <3>1, <3>2, <3>4 DEF IsAppended
    <3>5. QED
      BY <2>6, <3>1, <3>2, <3>3, <3>4 DEF IsAppended
  <2>9. ASSUME NEW f, stream' = stream \o <<f, f>>
        PROVE  stream'[k] = f
    <3>1. PICK s, t : s = Append(stream, f) /\ t = Append(s, f)
      OBVIOUS
    <3>2. IsAppended(s, stream, f)
      BY <2>7, <3>1, AppendIs
    <3>3. s \in Seq(ToSet(s))
      BY <3>2 DEF IsAppended
    <3>4. IsAppended(t, s, f)
      BY <3>1, <3>3, AppendIs
    <3>5. stream' = t
      <4>1. stream \in Seq(ToSet(stream) \cup {f})
        BY <2>7, SeqMonotonic
      <4>2. QED
        BY <2>9, <3>1, <4>1
    <3>6. CASE k \in 1..Len(stream)
      <4>1. t[k] = stream[k] /\ k \in DOMAIN stream
        BY <3>2, <3>4, <3>6 DEF IsAppended
      <4>2. QED
        BY <2>6, <2>7, <3>5, <4>1
    <3>7. CASE k \notin 1..Len(stream)
      <4>1. k = Len(s) \/ k = Len(t)
        BY <2>6, <3>2, <3>4, <3>5, <3>7 DEF IsAppended
      <4>2. QED
        BY <3>2, <3>4, <3>5, <4>1 DEF IsAppended
    <3>8. QED
      BY <3>6, <3>7
  <2>10. ASSUME Taken(Result), stream'[k] = Frame(req, Result)
         PROVE  \E m \in held' : stream'[k].body = Frame(r, m).body
    <3>1. Result \in held'
      BY <2>1, <2>10 DEF Taken, Idle
    <3>2. QED
      BY <2>2, <2>10, <3>1
  <2>11. CASE Answer
    BY <2>8, <2>10, <2>11 DEF Answer
  <2>12. CASE AnswersWrong
    <3>1. CASE \/ stream' = Append(stream, [behind |-> 0, body |-> Bad])
               \/ stream' = Append(stream, [behind |-> 1, body |-> Bad])
      BY <2>6, <2>8, <3>1
    <3>2. CASE /\ Taken(Result)
               /\ stream' = stream \o <<Frame(req, Result), Frame(req, Result)>>
      BY <2>9, <2>10, <3>2
    <3>3. QED
      BY <2>12, <3>1, <3>2 DEF AnswersWrong
  <2>13. QED
    BY <1>6, <2>11, <2>12
<1>7. QED
  BY <1>2, <1>3, <1>4, <1>5, <1>6 DEF Next

(* What a span's answer holds of a tag that it covers is the tag's.        *)
LEMMA DecodesOwn ==
    ASSUME NoBitNumbers, conf \in Layouts, NEW i \in Tags, NEW span \in Spans,
           Covers(span, i), NEW m, NEW raw,
           raw = [k \in 1..Quantity(span) |-> m[span.area][span.start + k - 1]]
    PROVE  DecodeOne(conf[i], span, raw) = Reading(conf[i], m)
<1> DEFINE t == conf[i]
<1>1. PICK start, end, o, off, n, area, q :
         /\ start = span.start /\ end = span.end /\ o = Offset(t)
         /\ off = o - start /\ n = RegisterCount(t) /\ area = Area(t)
         /\ q = Quantity(span)
  OBVIOUS
<1>2. /\ start \in Nat /\ end \in Nat /\ n \in Nat \ {0} /\ o \in Nat
      /\ start <= o /\ o + n - 1 <= end /\ span.area = area
      /\ t = conf[i] /\ q = end - start + 1
  BY <1>1, SpanFields, Rows DEF Covers, Readable, Quantity
<1>3. area \in Bits => t.bit = 0
  BY <1>1, <1>2 DEF NoBitNumbers
<1> HIDE DEF t
<1>4. /\ off \in Nat /\ off + n <= q /\ start + off = o /\ q \in Nat /\ off < q
  <2>1. off = o - start
    BY <1>1
  <2>2. QED
    BY <1>2, <2>1
<1>5. raw = [k \in 1..q |-> raw[k]]
  BY <1>1
<1>6. raw \in Seq(ToSet(raw)) /\ Len(raw) = q /\ DOMAIN raw = 1..q
  BY <1>4, <1>5, IsSequence
<1>6a. Len(raw) = q /\ ~(off + n > Len(raw)) /\ ~(off >= Len(raw)) /\ off < Len(raw)
  <2>1. Len(raw) = q
    BY <1>6
  <2>2. ~(off + n > q) /\ ~(off >= q)
    BY <1>2, <1>4
  <2>3. QED
    BY <1>4, <2>1, <2>2
<1>7. ASSUME NEW k \in 1..n PROVE raw[off + k] = m[area][o + k - 1]
  <2>1. off + k \in 1..q /\ start + (off + k) - 1 = o + k - 1
    BY <1>2, <1>4
  <2>2. raw[off + k] = m[span.area][span.start + (off + k) - 1]
    BY <1>1, <2>1
  <2>3. QED
    BY <1>1, <1>2, <2>1, <2>2
<1>8. CASE area \in Bits
  <2>1. PICK b, c : b = (Offset(t) - span.start) + t.bit /\ c = Offset(t) + t.bit
    OBVIOUS
  <2>2. b = off /\ c = o /\ b \in Nat
    <3>1. t.bit = 0 /\ Offset(t) - span.start = off
      BY <1>1, <1>3, <1>8
    <3>2. b = off + 0 /\ c = o + 0
      BY <1>1, <2>1, <3>1
    <3>3. QED
      BY <1>2, <1>4, <3>2
  <2>3. raw[b + 1] = m[area][o]
    <3>1. 1 \in 1..n /\ o + 1 - 1 = o
      BY <1>2
    <3>2. QED
      BY <1>7, <2>2, <3>1
  <2>4. DecodeOne(t, span, raw) = raw[b + 1]
    <3>1. b < Len(raw) /\ ~(b >= Len(raw))
      BY <1>6a, <2>2
    <3>2. DecodeOne(t, span, raw) =
            CASE b < Len(raw) -> raw[b + 1]
              [] b >= Len(raw) /\ b < ((Len(raw) + 7) \div 8) * 8 -> <<"zero">>
              [] OTHER -> Bad
      BY <1>1, <1>8, <2>1 DEF DecodeOne
    <3>3. QED
      BY <3>1, <3>2
  <2>5. Reading(t, m) = m[area][c]
    BY <1>1, <1>8, <2>1 DEF Reading
  <2>6. QED
    BY <1>2, <2>2, <2>3, <2>4, <2>5
<1>9. CASE area \notin Bits
  <2>1. PICK a, b, part : /\ a = off + 1 /\ b = off + n
                          /\ part = SubSeq(raw, a, b)
    OBVIOUS
  <2>2. /\ a \in Nat /\ b \in Nat /\ a <= b /\ b - a + 1 = n
        /\ \A k \in a..b : k \in 1..q
        /\ \A k \in 1..n : a + k - 1 = off + k
    <3>1. a = off + 1 /\ b = off + n
      BY <2>1
    <3>2. off \in Nat /\ n \in Nat \ {0} /\ q \in Nat /\ off + n <= q
      BY <1>2, <1>4
    <3>3. QED
      BY ONLY <3>1, <3>2
  <2>3. \A k \in a..b : raw[k] \in ToSet(raw)
    BY <1>6, <2>2 DEF ToSet
  <2>4. /\ part \in Seq(ToSet(raw))
        /\ Len(part) = IF a <= b THEN b - a + 1 ELSE 0
        /\ \A k \in 1..b - a + 1 : part[k] = raw[a + k - 1]
    <3>1. a \in Int /\ b \in Int
      BY <2>2
    <3>2. \A S, x : (\A k \in a..b : x[k] \in S) =>
              /\ SubSeq(x, a, b) \in Seq(S)
              /\ Len(SubSeq(x, a, b)) = IF a <= b THEN b - a + 1 ELSE 0
              /\ \A k \in 1..b - a + 1 : SubSeq(x, a, b)[k] = x[a + k - 1]
      BY <3>1, SubSeqProperties
    <3>3. /\ SubSeq(raw, a, b) \in Seq(ToSet(raw))
          /\ Len(SubSeq(raw, a, b)) = IF a <= b THEN b - a + 1 ELSE 0
          /\ \A k \in 1..b - a + 1 : SubSeq(raw, a, b)[k] = raw[a + k - 1]
      BY <2>3, <3>2
    <3>4. QED
      BY <2>1, <3>3
  <2>5. Len(part) = n
    BY <2>2, <2>4
  <2>6. ASSUME NEW k \in 1..n PROVE part[k] = m[area][o + k - 1]
    <3>1. a + k - 1 = off + k /\ k \in 1..b - a + 1
      BY <2>2
    <3>2. part[k] = raw[a + k - 1]
      BY <2>4, <3>1
    <3>3. QED
      BY <1>7, <3>1, <3>2
  <2>7. part = [k \in 1..n |-> m[area][o + k - 1]]
    <3>1. DOMAIN part = 1..n
      BY <2>4, <2>5, LenProperties
    <3>2. part = [k \in 1..n |-> part[k]]
      BY <2>4, <2>5
    <3>3. QED
      BY <2>6, <3>2
  <2>8. ~(off + n > Len(raw))
    BY <1>6a
  <2>9. DecodeOne(t, span, raw) = DecodeByType(t, FlattenSeq(part))
    BY <1>1, <1>9, <2>1, <2>8 DEF DecodeOne
  <2>10. Reading(t, m) = DecodeByType(t, FlattenSeq(part))
    BY <1>1, <1>9, <2>7 DEF Reading
  <2>11. QED
    BY <1>2, <2>9, <2>10
<1>10. QED
  BY <1>8, <1>9

(* Nothing new in `out`.                                                   *)
LEMMA GoodStay ==
    ASSUME GoodIsRight, UNCHANGED conf, held \subseteq held',
           \A i \in Tags : out'[i] \in {out[i], None, Bad}
    PROVE  GoodIsRight'
<1>1. SUFFICES ASSUME NEW i \in Tags, out'[i] \notin {None, Bad}
               PROVE  \E m \in held' : out'[i] = Reading(conf'[i], m)
  BY DEF GoodIsRight, Good
<1>2. out'[i] = out[i]
  BY <1>1
<1>3. PICK m \in held : out[i] = Reading(conf[i], m)
  BY <1>1, <1>2 DEF GoodIsRight, Good
<1>4. QED
  BY <1>2, <1>3

(* A value is taken out of the frame that was expected.                    *)
LEMMA GoodIsRightStep ==
    ASSUME NoBitNumbers
    PROVE  IInv /\ [Next]_vars => GoodIsRight'
<1> SUFFICES ASSUME IInv, [Next]_vars PROVE GoodIsRight'
  OBVIOUS
<1>1. UNCHANGED conf /\ GoodIsRight /\ conf \in Layouts
  BY ConfStays DEF IInv, Shape
<1>2. \A r : \A i \in Tags : BadItems(r)[i] \in {out[i], Bad}
  BY DEF BadItems
<1>3. CASE ReadTags
  <2>1. SUFFICES ASSUME NEW i \in Tags PROVE out'[i] \in {None, Bad}
    BY DEF GoodIsRight, Good
  <2>2. QED
    BY <1>3, <2>1 DEF ReadTags
<1>4. CASE ReadSpan
  <2>1. held' = held /\ \/ out' = out
                        \/ \E r : out' = BadItems(r)
    BY <1>4 DEF ReadSpan, SendFails
  <2>2. QED
    BY <1>1, <1>2, <2>1, GoodStay
<1>5. ASSUME NEW i \in Tags, WriteTag(i) PROVE GoodIsRight'
  <2>1. held' = held /\ \/ out' = out
                        \/ \E r : out' = BadItems(r)
    BY <1>5 DEF WriteTag, SendFails
  <2>2. QED
    BY <1>1, <1>2, <2>1, GoodStay
<1>6. CASE Disconnect \/ Answer \/ AnswersWrong \/ DeviceChanges \/ UNCHANGED vars
  <2>1. out' = out /\ held \subseteq held'
    BY <1>6 DEF Disconnect, Answer, AnswersWrong, DeviceChanges, Taken, vars
  <2>2. QED
    BY <1>1, <2>1, GoodStay
<1>7. ASSUME Failed, held' = held PROVE GoodIsRight'
  BY <1>1, <1>2, <1>7, GoodStay DEF Failed
<1>8. CASE ReceiveShifted \/ TimesOut
  BY <1>7, <1>8 DEF ReceiveShifted, TimesOut
<1>9. CASE Receive
  <2>1. held' = held /\ req # None /\ stream # <<>>
    BY <1>9 DEF Receive
  <2>2. PICK body : body = Head(stream).body
    OBVIOUS
  <2>3. CASE Failed
    BY <1>7, <2>1, <2>3
  <2>4. CASE ~Failed
    <3>1. Head(stream).behind = 0 /\ Accepted(body)
      BY <1>9, <2>2, <2>4 DEF Receive
    <3>2. CASE Reads(req)
      <4>1. /\ body # Bad
            /\ out' = [i \in Tags |-> IF i \in ToSet(req.span.items)
                                      THEN DecodeOne(conf[i], req.span, body)
                                      ELSE out[i]]
        BY <2>4, <3>1, <3>2 DEF Accepted
      <4>2. stream \in Seq(ToSet(stream))
        BY DEF IInv, InOrder
      <4>3. Head(stream) = stream[1] /\ 1 \in DOMAIN stream
        BY <2>1, <4>2, TailIs
      <4>4. PICK m \in held : body = Frame(req, m).body
        BY <2>1, <2>2, <3>1, <3>2, <4>1, <4>3 DEF IInv, FramesRight
      <4>5. body = [k \in 1..Quantity(req.span) |->
                      m[req.span.area][req.span.start + k - 1]]
        BY <3>2, <4>4 DEF Frame
      <4>6. Fits(req.span)
        BY <2>1, <3>2 DEF IInv, RequestFits
      <4>7. PICK span : span = req.span
        OBVIOUS
      <4>8. SUFFICES ASSUME NEW i \in Tags, out'[i] \notin {None, Bad}
                     PROVE  \E l \in held' : out'[i] = Reading(conf'[i], l)
        BY DEF GoodIsRight, Good
      <4>9. CASE i \in ToSet(span.items)
        <5>1. span \in Spans /\ Covers(span, i)
          BY <4>6, <4>7, <4>9 DEF Fits
        <5>2. body = [k \in 1..Quantity(span) |-> m[span.area][span.start + k - 1]]
          BY <4>5, <4>7
        <5>3. DecodeOne(conf[i], span, body) = Reading(conf[i], m)
          BY <1>1, <5>1, <5>2, DecodesOwn
        <5>4. out'[i] = DecodeOne(conf[i], span, body)
          BY <4>1, <4>7, <4>9
        <5>5. QED
          BY <1>1, <2>1, <5>3, <5>4
      <4>10. CASE i \notin ToSet(span.items)
        <5>1. out'[i] = out[i]
          BY <4>1, <4>7, <4>10
        <5>2. PICK l \in held : out[i] = Reading(conf[i], l)
          BY <1>1, <4>8, <5>1 DEF GoodIsRight, Good
        <5>3. QED
          BY <1>1, <2>1, <5>1, <5>2
      <4>11. QED
        BY <4>9, <4>10
    <3>3. CASE ~Reads(req)
      <4>1. out' = [out EXCEPT ![req.write] = None]
        BY <2>4, <3>1, <3>3 DEF Accepted
      <4>2. out = [i \in Tags |-> out[i]]
        BY DEF IInv, Shape
      <4>3. \A i \in Tags : out'[i] \in {out[i], None}
        BY <4>1, <4>2
      <4>4. QED
        BY <1>1, <2>1, <4>3, GoodStay
    <3>4. QED
      BY <3>2, <3>3
  <2>5. QED
    BY <2>3, <2>4
<1>10. QED
  BY <1>3, <1>4, <1>5, <1>6, <1>8, <1>9 DEF Next

(* The invariant holds at the start.                                       *)
LEMMA InitIInv ==
    Init => IInv
<1> SUFFICES ASSUME Init PROVE IInv
  OBVIOUS
<1> USE DEF Init
<1>1. Shape
  <2>1. Expired \in Nat
    BY BoundsOK
  <2>2. QED
    BY <2>1 DEF Shape
<1>2. PlanFits
  <2>1. N \in Nat /\ Len(todo) = 0 /\ DOMAIN todo = {}
    BY BoundsOK
  <2>2. todo \in Seq(Spans)
    OBVIOUS
  <2>3. QED
    BY <2>1, <2>2 DEF PlanFits
<1>3. RequestFits /\ FramesRight
  BY DEF RequestFits, FramesRight
<1>4. InOrder
  <2>1. stream \in Seq(ToSet(stream)) /\ DOMAIN stream = {}
    OBVIOUS
  <2>2. QED
    BY <2>1 DEF InOrder
<1>5. GoodIsRight
  BY DEF GoodIsRight, Good
<1>6. QED
  BY <1>1, <1>2, <1>3, <1>4, <1>5 DEF IInv

(* The inductive invariant of the driver holds of every reachable state.   *)
THEOREM Inductive ==
    ASSUME NoBitNumbers, TidsSuffice
    PROVE  Spec => []IInv
<1>1. IInv /\ [Next]_vars => IInv'
  BY ShapeStep, PlanFitsStep, RequestFitsStep, InOrderStep, FramesRightStep,
     GoodIsRightStep DEF IInv
<1>2. QED
  BY InitIInv, <1>1, PTL DEF Spec

(* Whatever the layout, the order of the areas, the faults of the device   *)
(* and the connection: a value that the driver calls good is the one the   *)
(* device held at the tag's own address at some moment of the read         *)
(* (readSpan, decodeOne, readFrame).                                       *)
THEOREM Right ==
    ASSUME NoBitNumbers, TidsSuffice
    PROVE  Spec => []GoodIsRight
<1>1. IInv => GoodIsRight
  BY DEF IInv
<1>2. QED
  BY Inductive, <1>1, PTL

-----------------------------------------------------------------------------
(* `Bad` and `None` are neither values, which are sequences of bytes, nor  *)
(* is `None` a request.                                                    *)
NotData ==
    /\ None \notin Requests
    /\ \A S : Bad \notin Seq(S) /\ None \notin Seq(S)

(* The bytes of n registers are 2n bytes.                                  *)
LEMMA FlattenPairs ==
    ASSUME NEW n \in Nat, n # 0, NEW ss, ss = [k \in 1..n |-> ss[k]],
           \A k \in 1..n : ss[k] = <<ss[k][1], ss[k][2]>>
    PROVE  \E S : FlattenSeq(ss) \in Seq(S) /\ Len(FlattenSeq(ss)) = 2 * n
<1> DEFINE S == {ss[k][j] : k \in 1..n, j \in {1, 2}}
<1>1. Len(ss) = n
  BY IsSequence
<1>2. PICK f : Unfolds(f, ss, n)
  BY <1>1, FlattenUnfolds
<1>3. ASSUME NEW k \in 1..n PROVE ss[k] \in Seq(S) /\ Len(ss[k]) = 2
  <2>1. PICK x, y : x = ss[k][1] /\ y = ss[k][2]
    OBVIOUS
  <2>2. x \in S /\ y \in S
    BY <2>1
  <2> HIDE DEF S
  <2>3. ss[k] = <<x, y>>
    BY <2>1
  <2>4. <<x, y>> \in Seq({x, y}) /\ Len(<<x, y>>) = 2
    OBVIOUS
  <2>5. <<x, y>> \in Seq(S)
    BY <2>2, <2>4, SeqMonotonic
  <2>6. QED
    BY <2>3, <2>4, <2>5
<1> HIDE DEF S
<1> DEFINE J(k) == f[k] \in Seq(S) /\ Len(f[k]) = 2 * k
           T == {k \in 1..n : ~J(k)}
<1>4. J(1)
  <2>1. 1 \in 1..n /\ f[1] = ss[1]
    BY <1>2 DEF Unfolds
  <2>2. QED
    BY <1>3, <2>1
<1>5. ASSUME NEW k \in 2..n, J(k - 1) PROVE J(k)
  <2>1. PICK p, q : p = f[k - 1] /\ q = ss[k]
    OBVIOUS
  <2>2. k \in 1..n /\ f[k] = p \o q
    <3>1. \A l \in 2..n : f[l] = f[l - 1] \o ss[l]
      BY <1>2 DEF Unfolds
    <3>2. k \in 1..n
      OBVIOUS
    <3>3. QED
      BY <2>1, <3>1, <3>2
  <2>3. p \in Seq(S) /\ q \in Seq(S) /\ Len(p) = 2 * (k - 1) /\ Len(q) = 2
    BY <1>3, <1>5, <2>1, <2>2
  <2>4. p \o q \in Seq(S) /\ Len(p \o q) = Len(p) + Len(q)
    BY <2>3, ConcatProperties
  <2>5. 2 * (k - 1) + 2 = 2 * k
    OBVIOUS
  <2>6. QED
    BY <2>2, <2>3, <2>4, <2>5
<1> HIDE DEF J
<1>6. T = {}
  <2> SUFFICES ASSUME T # {} PROVE FALSE
    OBVIOUS
  <2>1. T \in SUBSET Nat
    OBVIOUS
  <2>2. PICK k \in T : \A l \in T : k <= l
    <3> HIDE DEF T
    <3>1. QED
      BY <2>1, Least
  <2>3. k \in 2..n
    BY <1>4, <2>2
  <2>4. k - 1 \in 1..n /\ ~(k <= k - 1)
    BY <2>3
  <2>5. J(k - 1)
    BY <2>2, <2>4
  <2>6. QED
    BY <1>5, <2>2, <2>3, <2>5
<1>7. J(n)
  BY <1>6
<1>8. FlattenSeq(ss) = f[n]
  BY <1>2 DEF Unfolds
<1>9. QED
  BY <1>7, <1>8 DEF J

(* Whether a tag can be decoded is a matter of its row, not of the memory. *)
LEMMA ReadingIs ==
    ASSUME conf \in Layouts, InDevice, NoBitNumbers, NotData,
           NEW i \in Tags, ParsesAddress(conf[i]), NEW m, Cells(m)
    PROVE  /\ Reading(conf[i], m) # Bad => Decodable(conf[i])
           /\ Decodable(conf[i]) => Reading(conf[i], m) \notin {Bad, None}
<1>1. PICK t, o, n, area :
         t = conf[i] /\ o = Offset(t) /\ n = RegisterCount(t) /\ area = Area(t)
  OBVIOUS
<1>2. /\ o \in Nat /\ n \in Nat \ {0} /\ area \in Areas /\ o + n <= Top + 1
      /\ Top \in Nat
  BY <1>1, Rows, BoundsOK DEF InDevice
<1>3. area \in Bits => t.bit = 0
  BY <1>1 DEF NoBitNumbers
<1>4. ASSUME NEW r \in 0..Top
      PROVE  m[area][r] = <<m[area][r][1], m[area][r][2]>>
  BY <1>2 DEF Cells
<1>5. \A s : (\E S : s \in Seq(S)) => s # Bad /\ s # None
  BY DEF NotData
<1>6. \A x, y : <<x, y>> \in Seq({x, y}) /\ <<x>> \in Seq({x})
  OBVIOUS
<1>7. CASE area \in Bits
  <2>1. o \in 0..Top
    BY <1>2
  <2>2. o + t.bit = o
    BY <1>2, <1>3, <1>7
  <2>3. Reading(t, m) = m[area][o]
    BY <1>1, <1>7, <2>2 DEF Reading
  <2>4. Reading(t, m) # Bad /\ Reading(t, m) # None
    BY <1>4, <1>5, <1>6, <2>1, <2>3
  <2>5. QED
    BY <1>1, <1>7, <2>4 DEF Decodable
<1>8. CASE area \notin Bits
  <2>1. PICK ss : ss = [k \in 1..n |-> m[area][o + k - 1]]
    OBVIOUS
  <2>2. ASSUME NEW k \in 1..n PROVE ss[k] = <<ss[k][1], ss[k][2]>>
    <3>1. o + k - 1 \in 0..Top
      BY <1>2
    <3>2. PICK r \in 0..Top : r = o + k - 1
      BY <3>1
    <3>3. ss[k] = m[area][r]
      BY <2>1, <3>2
    <3>4. QED
      BY <1>4, <3>3
  <2>3. ss = [k \in 1..n |-> ss[k]]
    BY <2>1
  <2>4. PICK data : data = FlattenSeq(ss)
    OBVIOUS
  <2>5. PICK S : data \in Seq(S) /\ Len(data) = 2 * n
    BY <1>2, <2>2, <2>3, <2>4, FlattenPairs
  <2>6. Reading(t, m) = DecodeByType(t, data)
    BY <1>1, <1>8, <2>1, <2>4 DEF Reading
  <2>7. CASE t.type = "bool"
    <3>1. Reading(t, m) = <<data[2]>>
      BY <2>6, <2>7 DEF DecodeByType
    <3>2. Reading(t, m) # Bad /\ Reading(t, m) # None
      BY <1>5, <1>6, <3>1
    <3>3. QED
      BY <1>1, <2>7, <3>2 DEF Decodable
  <2>8. CASE t.type = "text"
    <3>1. Reading(t, m) = data
      BY <2>6, <2>8 DEF DecodeByType
    <3>2. Reading(t, m) # Bad /\ Reading(t, m) # None
      BY <1>5, <2>5, <3>1
    <3>3. QED
      BY <1>1, <2>8, <3>2 DEF Decodable
  <2>9. CASE t.type \notin {"bool", "text"}
    <3>1. Reading(t, m) = DecodeBytes(data, t.order)
      BY <2>6, <2>9 DEF DecodeByType
    <3>2. CASE Len(t.order) # 2 * n
      <4>1. Reading(t, m) = Bad
        BY <2>5, <3>1, <3>2 DEF DecodeBytes
      <4>2. ~Decodable(t)
        BY <1>1, <1>8, <2>9, <3>2 DEF Decodable
      <4>3. QED
        BY <1>1, <4>1, <4>2
    <3>3. CASE Len(t.order) = 2 * n
      <4>1. PICK v : v = Reorder(data, t.order)
        OBVIOUS
      <4>2. Reading(t, m) = v
        BY <2>5, <3>1, <3>3, <4>1 DEF DecodeBytes
      <4>3. DOMAIN data = 1..Len(data) /\ Len(data) \in Nat
        BY <2>5, LenProperties
      <4>4. v = [k \in 1..Len(data) |-> v[k]]
        BY <4>1, <4>3 DEF Reorder
      <4>5. v \in Seq(ToSet(v))
        BY <4>3, <4>4, IsSequence
      <4>6. Reading(t, m) # Bad /\ Reading(t, m) # None
        BY <1>5, <4>2, <4>5
      <4>7. Decodable(t)
        BY <1>1, <3>3 DEF Decodable
      <4>8. QED
        BY <1>1, <4>6, <4>7
    <3>4. QED
      BY <3>2, <3>3
  <2>10. QED
    BY <2>7, <2>8, <2>9
<1>9. QED
  BY <1>7, <1>8

(* A write sets whole registers of the device.                             *)
LEMMA CellsWritten ==
    ASSUME Cells(mem), NEW t
    PROVE  Cells(Written(t))
<1> DEFINE bytes == IF Area(t) = "coil" THEN NewValue(t)
                    ELSE EncodeBytes(Number, t.order)
           cell(k) == <<bytes[2*k - 1], bytes[2*k]>>
           in(r) == r + 1 - Offset(t) \in 1..WriteCount(t)
           row == [r \in DOMAIN mem[Area(t)] |->
                     IF in(r) THEN cell(r + 1 - Offset(t)) ELSE mem[Area(t)][r]]
<1>1. Written(t) = [mem EXCEPT ![Area(t)] = row]
  BY DEF Written
<1> HIDE DEF bytes, in
<1>2. PICK w : w = Written(t)
  OBVIOUS
<1>3. mem = [a \in Areas |-> mem[a]]
  BY DEF Cells
<1> HIDE DEF row
<1>4. w = [a \in Areas |-> w[a]]
  BY <1>1, <1>2, <1>3
<1>5. ASSUME NEW a \in Areas
      PROVE  /\ w[a] = [r \in 0..Top |-> w[a][r]]
             /\ \A r \in 0..Top : w[a][r] = <<w[a][r][1], w[a][r][2]>>
  <2>1. mem[a] = [r \in 0..Top |-> mem[a][r]]
    BY DEF Cells
  <2>2. \A r \in 0..Top : mem[a][r] = <<mem[a][r][1], mem[a][r][2]>>
    BY DEF Cells
  <2>3. CASE a # Area(t)
    <3>1. w[a] = mem[a]
      BY <1>1, <1>2, <1>3, <2>3
    <3>2. QED
      BY <2>1, <2>2, <3>1
  <2>4. CASE a = Area(t)
    <3>1. w[a] = row
      BY <1>1, <1>2, <1>3, <2>4
    <3>2. DOMAIN mem[Area(t)] = 0..Top
      BY <2>1, <2>4
    <3>3. /\ row = [r \in 0..Top |-> row[r]]
          /\ \A r \in 0..Top : row[r] = IF in(r) THEN cell(r + 1 - Offset(t))
                                        ELSE mem[a][r]
      BY <2>4, <3>2 DEF row
    <3>4. \A k : cell(k) = <<cell(k)[1], cell(k)[2]>>
      OBVIOUS
    <3> HIDE DEF cell
    <3>5. ASSUME NEW r \in 0..Top PROVE row[r] = <<row[r][1], row[r][2]>>
      <4>1. CASE in(r)
        BY <3>3, <3>4, <4>1
      <4>2. CASE ~in(r)
        BY <2>2, <3>3, <4>2
      <4>3. QED
        BY <4>1, <4>2
    <3>6. QED
      BY <3>1, <3>3, <3>5
  <2>5. QED
    BY <2>3, <2>4
<1>6. w = [a \in Areas |-> [r \in 0..Top |-> w[a][r]]]
  BY <1>4, <1>5
<1>7. QED
  BY <1>2, <1>5, <1>6 DEF Cells

(* The device's registers stay pairs of bytes.                             *)
LEMMA CellsStep ==
    ASSUME CleanInv, [Next]_vars
    PROVE  \A m \in held' \cup {mem'} : Cells(m)
<1>1. \A m \in held \cup {mem} : Cells(m)
  BY DEF CleanInv
<1>2. Cells(Result)
  BY <1>1, CellsWritten DEF Result
<1>3. CASE DeviceChanges
  <2>1. PICK v, m : v = version + 1 /\ m = mem'
    OBVIOUS
  <2>2. m = [a \in Areas |-> [r \in 0..Top |-> Cell(a, r, v)]]
    BY <1>3, <2>1 DEF DeviceChanges
  <2>3. \A a, r : Cell(a, r, v) = <<Cell(a, r, v)[1], Cell(a, r, v)[2]>>
    BY DEF Cell
  <2>4. Cells(m)
    BY <2>2, <2>3 DEF Cells
  <2>5. held' = held \cup {m}
    BY <1>3, <2>1 DEF DeviceChanges
  <2>6. QED
    BY <1>1, <2>1, <2>4, <2>5
<1>4. CASE Answer \/ AnswersWrong
  <2>1. \/ mem' = mem /\ held' = held
        \/ mem' = Result /\ held' \subseteq held \cup {Result}
    BY <1>4 DEF Answer, AnswersWrong, Taken
  <2>2. QED
    BY <1>1, <1>2, <2>1
<1>5. CASE ~(DeviceChanges \/ Answer \/ AnswersWrong)
  <2>1. mem' = mem /\ held' \subseteq held \cup {mem}
    BY <1>5 DEF Next, vars, ReadTags, ReadSpan, WriteTag, Disconnect, Send,
        SendFails, Receive, ReceiveShifted, TimesOut
  <2>2. QED
    BY <1>1, <2>1
<1>6. QED
  BY <1>3, <1>4, <1>5

(* A read that is clean was clean before, or begins.                       *)
LEMMA StaysClean ==
    ASSUME [Next]_vars, clean', ~ReadTags
    PROVE  clean
  BY DEF Next, vars, ReadSpan, WriteTag, Disconnect, Send, SendFails, Fault,
      Answer, AnswersWrong, DeviceChanges, Receive, ReceiveShifted, TimesOut

(* Then the device's answer comes, and is the one that is expected.        *)
LEMMA OnlyAnswerStep ==
    ASSUME NotData, IInv, CleanInv, [Next]_vars, clean'
    PROVE  OnlyAnswer'
<1>1. CASE ReadTags
  <2>1. req = None /\ req' = None /\ stream' = stream /\ shifted' = shifted
    BY <1>1 DEF ReadTags, Idle
  <2>2. InStep
    BY <1>1 DEF ReadTags, ConnectFails, Fault
  <2>3. DOMAIN stream = {} /\ ~shifted
    BY <2>1, <2>2 DEF InStep
  <2>4. stream = <<>>
    <3>1. stream \in Seq(ToSet(stream))
      BY DEF IInv, InOrder
    <3>2. QED
      BY <2>3, <3>1, EmptySeq, LenProperties
  <2>5. QED
    BY <2>1, <2>3, <2>4 DEF OnlyAnswer
<1> SUFFICES ASSUME ~ReadTags PROVE OnlyAnswer'
  BY <1>1
<1>2. OnlyAnswer
  BY StaysClean DEF CleanInv
<1>3. CASE UNCHANGED <<shifted, req, stream>> /\ held \subseteq held'
  BY <1>2, <1>3 DEF OnlyAnswer, Reads, Frame
<1>4. CASE ReadSpan
  <2>1. req = None /\ stream = <<>>
    BY <1>2, <1>4 DEF ReadSpan, OnlyAnswer
  <2>2. CASE UNCHANGED link /\ req' = req
    BY <1>2, <2>1, <2>2 DEF OnlyAnswer
  <2>3. CASE Send([NoRequest EXCEPT !.span = Head(todo)], age)
    <3>1. PICK r : r = [NoRequest EXCEPT !.span = Head(todo)]
      OBVIOUS
    <3>2. r.write = 0 /\ ~r.answered
      BY <3>1 DEF NoRequest
    <3>3. stream' = <<>> /\ ~shifted' /\ req' = r
      <4>1. PICK t : t = [k \in DOMAIN stream |->
                            [stream[k] EXCEPT !.behind = (@ + 1) % Tids]]
        OBVIOUS
      <4>2. DOMAIN t = {} /\ t = [k \in 1..0 |-> t[k]]
        BY <2>1, <4>1
      <4>3. t = <<>>
        BY <4>2, IsSequence, EmptySeq
      <4>4. stream' \in {t, <<>>}
        BY <2>3, <4>1 DEF Send
      <4>5. QED
        BY <1>2, <2>3, <3>1, <4>3, <4>4 DEF Send, OnlyAnswer
    <3>4. QED
      BY <3>2, <3>3 DEF OnlyAnswer, Reads
  <2>4. QED
    BY <1>4, <2>2, <2>3 DEF ReadSpan, SendFails, Fault
<1>5. ASSUME NEW i \in Tags, WriteTag(i) PROVE OnlyAnswer'
  BY <1>5 DEF WriteTag, SendFails, Fault
<1>6. CASE Disconnect
  BY <1>6 DEF Disconnect, Idle, CloseConn, OnlyAnswer
<1>7. CASE Answer
  <2>1. req # None /\ Reads(req) /\ ~req.answered /\ stream = <<>> /\ ~shifted
    BY <1>2, <1>7 DEF Answer, OnlyAnswer
  <2>2. PICK r : r = req
    OBVIOUS
  <2>3. r \in Requests /\ req' = [r EXCEPT !.answered = TRUE]
    BY <1>7, <2>1, <2>2 DEF IInv, RequestFits, Answer
  <2>4. /\ req'.span = r.span /\ req'.write = r.write /\ req'.answered
        /\ req' # None
    <3>1. PICK q : q = [r EXCEPT !.answered = TRUE]
      OBVIOUS
    <3>2. /\ q.span = r.span /\ q.write = r.write /\ q.answered
          /\ q \in Requests
      BY <2>3, <3>1 DEF Requests
    <3>3. QED
      BY <2>3, <3>1, <3>2 DEF NotData
  <2>5. Frame(req', Result) = Frame(req, Result) /\ Reads(req')
    BY <2>1, <2>2, <2>4 DEF Frame, Reads, Quantity
  <2>6. stream' = <<Frame(req, Result)>> /\ shifted' = shifted
    BY <1>7, <2>1 DEF Answer
  <2>7. PICK m : m = Result
    OBVIOUS
  <2>8. m \in held'
    BY <1>7, <2>1, <2>7 DEF Answer, Taken, Idle
  <2>9. stream' = <<Frame(req', m)>>
    BY <2>5, <2>6, <2>7
  <2>10. QED
    BY <2>1, <2>4, <2>5, <2>6, <2>8, <2>9 DEF OnlyAnswer
<1>8. CASE AnswersWrong
  BY <1>8 DEF AnswersWrong, Fault
<1>9. CASE DeviceChanges \/ UNCHANGED vars
  BY <1>3, <1>9 DEF DeviceChanges, vars
<1>10. CASE Receive
  <2>1. req # None /\ stream # <<>> /\ stream' = Tail(stream) /\ held' = held
    BY <1>10 DEF Receive
  <2>2. PICK m \in held : stream = <<Frame(req, m)>>
    BY <1>2, <2>1 DEF OnlyAnswer
  <2>3. Head(stream) = Frame(req, m) /\ Tail(stream) = <<>>
    BY <2>2
  <2>4. Head(stream).behind = 0
    BY <2>3 DEF Frame
  <2>5. req' = None /\ shifted' = shifted
    BY <1>10, <2>4 DEF Receive, Accepted, Failed
  <2>6. QED
    BY <1>2, <2>1, <2>3, <2>5 DEF OnlyAnswer
<1>11. CASE ReceiveShifted
  BY <1>2, <1>11 DEF ReceiveShifted, OnlyAnswer
<1>12. CASE TimesOut
  BY <1>2, <1>12 DEF TimesOut, Fault, OnlyAnswer
<1>13. QED
  BY <1>4, <1>5, <1>6, <1>7, <1>8, <1>9, <1>10, <1>11, <1>12 DEF Next

(* No tag gets lost between the plan, the request and the result.          *)
LEMMA NoneMissedStep ==
    ASSUME NoBitNumbers, RequestsAllowed, InDevice, NotData,
           IInv, CleanInv, [Next]_vars, clean'
    PROVE  NoneMissed'
<1>1. UNCHANGED conf /\ conf \in Layouts /\ PlanFits
  BY ConfStays DEF IInv, Shape
<1>2. SUFFICES ASSUME NEW i \in Tags, Readable(i), Decodable(conf[i])
               PROVE  \/ out'[i] \notin {None, Bad} \/ i \in Items(todo')
                      \/ req' # None /\ i \in ToSet(req'.span.items)
  BY <1>1 DEF NoneMissed, Readable, Good
<1>3. CASE ReadTags
  <2>1. PICK spans \in ReadOrders : todo' = spans
    BY <1>3 DEF ReadTags, ConnectFails, Fault
  <2>2. Items(spans) = Read
    BY <1>1, <2>1, PlansFit
  <2>3. i \in Read
    BY <1>1, <1>2 DEF Read, Readable, InDevice
  <2>4. QED
    BY <2>1, <2>2, <2>3
<1>4. CASE ~ReadTags
  <2>1. OnlyAnswer /\ (\/ Good(i) \/ i \in Items(todo)
                       \/ req # None /\ i \in ToSet(req.span.items))
    BY <1>2, <1>4, StaysClean DEF CleanInv, NoneMissed
  <2>2. CASE UNCHANGED <<out, todo, req>>
    BY <2>1, <2>2 DEF Good
  <2>3. CASE ReadSpan
    <3>1. req = None /\ todo # <<>> /\ todo' = Tail(todo)
      BY <2>3 DEF ReadSpan
    <3>2. PICK s, t : s = todo /\ t = Tail(todo)
      OBVIOUS
    <3>3. /\ s \in Seq(Spans) /\ s # <<>> /\ t = Tail(s)
          /\ \A k \in DOMAIN s : Fits(s[k])
      BY <1>1, <3>1, <3>2 DEF PlanFits
    <3>4. /\ Head(s) = s[1] /\ Len(s) \in Nat \ {0} /\ DOMAIN s = 1..Len(s)
          /\ Len(t) = Len(s) - 1 /\ DOMAIN t = 1..Len(t)
          /\ \A k \in 1..Len(t) : t[k] = s[k + 1]
      BY <3>3, HeadTailProperties, LenProperties, EmptySeq
    <3>5. Fits(Head(s)) /\ Head(s) \in Spans /\ QuantityOK(Head(s))
      BY <3>3, <3>4 DEF Fits
    <3>6. PICK r : r = [NoRequest EXCEPT !.span = Head(s)]
      OBVIOUS
    <3>7. r \in Requests /\ r.span = Head(s) /\ r # None
      BY <3>5, <3>6 DEF Requests, NoRequest, NotData
    <3>8. req' = r /\ out' = out
      BY <2>3, <3>2, <3>5, <3>6 DEF ReadSpan, Send, SendFails, Fault
    <3>9. i \in Items(s) => i \in ToSet(Head(s).items) \/ i \in Items(t)
      <4>1. ASSUME NEW k \in DOMAIN s, i \in ToSet(s[k].items)
            PROVE  i \in ToSet(Head(s).items) \/ i \in Items(t)
        <5>1. CASE k = 1
          BY <3>4, <4>1, <5>1
        <5>2. CASE k # 1
          <6>1. PICK l \in DOMAIN t : l + 1 = k
            <7>1. k - 1 \in DOMAIN t /\ (k - 1) + 1 = k
              BY <3>4, <5>2
            <7>2. QED
              BY <7>1
          <6>2. t[l] = s[k]
            BY <3>4, <6>1
          <6>3. QED
            BY <4>1, <6>1, <6>2 DEF Items
        <5>3. QED
          BY <5>1, <5>2
      <4>2. QED
        BY <4>1 DEF Items
    <3>10. QED
      BY <2>1, <3>1, <3>2, <3>7, <3>8, <3>9 DEF Good
  <2>4. ASSUME NEW j \in Tags, WriteTag(j) PROVE FALSE
    BY <2>4 DEF WriteTag, SendFails, Fault
  <2>5. CASE Answer
    <3>1. req # None /\ UNCHANGED <<out, todo>>
      BY <2>5 DEF Answer
    <3>2. PICK r : r = req
      OBVIOUS
    <3>3. r \in Requests /\ req' = [r EXCEPT !.answered = TRUE]
      BY <2>5, <3>1, <3>2 DEF IInv, RequestFits, Answer
    <3>4. req'.span = r.span /\ req' # None
      <4>1. PICK q : q = [r EXCEPT !.answered = TRUE]
        OBVIOUS
      <4>2. q.span = r.span /\ q \in Requests
        BY <3>3, <4>1 DEF Requests
      <4>3. QED
        BY <3>3, <4>1, <4>2 DEF NotData
    <3>5. QED
      BY <2>1, <3>1, <3>2, <3>4 DEF Good
  <2>6. CASE Receive
    <3>1. req # None /\ stream # <<>> /\ todo' = todo
      BY <2>6 DEF Receive
    <3>2. Reads(req) /\ ~shifted
      BY <2>1, <3>1 DEF OnlyAnswer
    <3>3. PICK m \in held : stream = <<Frame(req, m)>>
      BY <2>1, <3>1 DEF OnlyAnswer
    <3>4. PICK body, span : body = Head(stream).body /\ span = req.span
      OBVIOUS
    <3>5. Head(stream).behind = 0 /\ Accepted(body)
      BY <2>6, <3>3, <3>4 DEF Receive, Frame
    <3>6. body = [k \in 1..Quantity(span) |-> m[span.area][span.start + k - 1]]
      <4>1. Head(stream) = Frame(req, m)
        BY <3>3
      <4>2. Frame(req, m).body = [k \in 1..Quantity(req.span) |->
                                    m[req.span.area][req.span.start + k - 1]]
        BY <3>2 DEF Frame
      <4>3. body = Frame(req, m).body
        BY <3>4, <4>1
      <4>4. QED
        BY <3>4, <4>2, <4>3
    <3>7. Fits(span) /\ span \in Spans
      BY <3>1, <3>2, <3>4 DEF IInv, RequestFits, Fits
    <3>8. CASE i \in ToSet(span.items)
      <4>1. Covers(span, i)
        BY <3>7, <3>8 DEF Fits
      <4>2. Quantity(span) \in Nat
        <5>1. /\ span.start \in Nat /\ span.end \in Nat
              /\ Offset(conf[i]) \in Nat /\ RegisterCount(conf[i]) \in Nat \ {0}
          BY <1>1, <1>2, <3>7, SpanFields, Rows DEF Readable
        <5>2. /\ span.start <= Offset(conf[i])
              /\ Offset(conf[i]) + RegisterCount(conf[i]) - 1 <= span.end
          BY <4>1 DEF Covers
        <5>3. QED
          BY <5>1, <5>2 DEF Quantity
      <4>3. body = [k \in 1..Quantity(span) |-> body[k]]
        BY <3>6
      <4>4. body \in Seq(ToSet(body)) /\ Len(body) = Quantity(span)
        BY <4>2, <4>3, IsSequence
      <4>5. body # Bad
        BY <4>4 DEF NotData
      <4>6. out'[i] = DecodeOne(conf[i], span, body)
        BY <3>2, <3>4, <3>5, <3>8, <4>4, <4>5 DEF Accepted
      <4>7. DecodeOne(conf[i], span, body) = Reading(conf[i], m)
        BY <1>1, <3>6, <3>7, <4>1, DecodesOwn
      <4>8. Cells(m) /\ ParsesAddress(conf[i])
        BY <1>2 DEF CleanInv, Readable
      <4>9. Reading(conf[i], m) \notin {Bad, None}
        BY <1>1, <1>2, <4>8, ReadingIs
      <4>10. QED
        BY <4>6, <4>7, <4>9
    <3>9. CASE i \notin ToSet(span.items)
      <4>1. out'[i] = out[i]
        <5>1. CASE Failed
          BY <3>2, <3>4, <3>9, <5>1 DEF Failed, BadItems
        <5>2. CASE ~Failed
          BY <3>2, <3>4, <3>5, <3>9, <5>2 DEF Accepted
        <5>3. QED
          BY <5>1, <5>2
      <4>2. QED
        BY <2>1, <3>1, <3>4, <3>9, <4>1 DEF Good
    <3>10. QED
      BY <3>8, <3>9
  <2>7. CASE Disconnect \/ DeviceChanges \/ UNCHANGED vars
    BY <2>2, <2>7 DEF Disconnect, DeviceChanges, vars
  <2>8. CASE AnswersWrong \/ ReceiveShifted \/ TimesOut
    BY <2>1, <2>8 DEF AnswersWrong, ReceiveShifted, TimesOut, OnlyAnswer, Fault
  <2>9. QED
    BY <1>4, <2>3, <2>4, <2>5, <2>6, <2>7, <2>8 DEF Next
<1>5. QED
  BY <1>3, <1>4

(* A clean read misses no tag that may be read: when it is over, each that *)
(* the device holds a value for has one (mergeSpans, readSpan, decodeOne), *)
(* whatever it was merged with.                                            *)
THEOREM Complete ==
    ASSUME NoBitNumbers, TidsSuffice, RequestsAllowed, InDevice, NotData
    PROVE  Spec => []CleanReadsAreGood
<1>1. Init => CleanInv
  <2> SUFFICES ASSUME Init PROVE CleanInv
    OBVIOUS
  <2>1. \A a, r : Cell(a, r, 0) = <<Cell(a, r, 0)[1], Cell(a, r, 0)[2]>>
    BY DEF Cell
  <2>2. Cells(mem)
    BY <2>1 DEF Init, Cells
  <2>3. QED
    BY <2>2 DEF Init, CleanInv
<1>2. IInv /\ CleanInv /\ [Next]_vars => CleanInv'
  <2> SUFFICES ASSUME IInv, CleanInv, [Next]_vars PROVE CleanInv'
    OBVIOUS
  <2>1. \A m \in held' \cup {mem'} : Cells(m)
    BY CellsStep
  <2>2. ASSUME clean' PROVE OnlyAnswer' /\ NoneMissed'
    BY <2>2, OnlyAnswerStep, NoneMissedStep
  <2>3. QED
    BY <2>1, <2>2 DEF CleanInv
<1>3. IInv /\ CleanInv => CleanReadsAreGood
  <2> SUFFICES ASSUME IInv, CleanInv, clean, Idle,
                      NEW i \in Tags, Readable(i), Reading(conf[i], mem) # Bad
               PROVE  Good(i)
    BY DEF CleanReadsAreGood
  <2>1. conf \in Layouts /\ Cells(mem) /\ ParsesAddress(conf[i])
    BY DEF IInv, Shape, CleanInv, Readable
  <2>2. Decodable(conf[i])
    BY <2>1, ReadingIs
  <2>3. todo = <<>> /\ req = None
    BY DEF Idle
  <2>4. Items(todo) = {}
    BY <2>3 DEF Items
  <2>5. QED
    BY <2>2, <2>3, <2>4 DEF CleanInv, NoneMissed
<1>4. QED
  BY Inductive, <1>1, <1>2, <1>3, PTL DEF Spec
=============================================================================
