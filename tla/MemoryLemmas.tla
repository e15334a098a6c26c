---------------------------- MODULE MemoryLemmas ----------------------------
(***************************************************************************)
(* What the parts of memory do, for any memory, page size, growth and      *)
(* layouts: the boot's lists of regions stay sorted and exact, the heap    *)
(* keeps its blocks apart, and the search for free frames finds the first  *)
(* run there is.  MemoryProofs has the theorems these lemmas lead to.      *)
(***************************************************************************)
EXTENDS SlabHeap, WellFoundedInduction, TLAPS

(***************************************************************************)
(* Numbers                                                                 *)
(***************************************************************************)

\* A set of numbers that is not empty has a least member.
LEMMA MinOp ==
  ASSUME NEW S \in SUBSET Nat, S # {}
  PROVE  Min(S) \in S /\ \A x \in S : Min(S) <= x
<1> DEFINE Less == {ss \in Nat \X Nat : ss[1] < ss[2]}
<1>1. IsWellFoundedOn(Less, Nat)
  BY NatLessThanWellFounded, Zenon DEF OpToRel
<1>2. PICK n \in S : \A m \in S : ~(<<m, n>> \in Less)
  <2> HIDE DEF Less
  <2> QED BY <1>1, WFMin, ZenonT(30)
<1>3. ASSUME NEW m \in S PROVE n <= m
  <2>1. m \in Nat /\ n \in Nat
    BY Zenon
  <2>2. m < n => <<m, n>> \in Less
    BY <2>1, Zenon
  <2>3. ~(<<m, n>> \in Less)
    BY <1>2, Zenon
  <2> HIDE DEF Less
  <2> QED BY <2>1, <2>2, <2>3
<1> QED BY <1>3, Zenon DEF Min

LEMMA MaxOp ==
  ASSUME NEW a \in Nat, NEW b \in Nat
  PROVE  Max({a, b}) \in {a, b} /\ a <= Max({a, b}) /\ b <= Max({a, b})
<1>1. CASE a <= b
  <2>1. \A y \in {a, b} : b >= y
    BY <1>1
  <2>2. Max({a, b}) \in {a, b} /\ \A y \in {a, b} : Max({a, b}) >= y
    BY <2>1, Zenon DEF Max
  <2> QED BY <2>2, Zenon
<1>2. CASE b <= a
  <2>1. \A y \in {a, b} : a >= y
    BY <1>2
  <2>2. Max({a, b}) \in {a, b} /\ \A y \in {a, b} : Max({a, b}) >= y
    BY <2>1, Zenon DEF Max
  <2> QED BY <2>2
<1> QED BY <1>1, <1>2

LEMMA DivOp ==
  ASSUME NEW a \in Nat, NEW p \in Nat \ {0}
  PROVE  /\ a \div p \in Nat /\ a % p \in 0..(p - 1)
         /\ a = p * (a \div p) + (a % p)
<1>1. a \div p \in Nat
  OBVIOUS
<1>2. a % p \in 0..(p - 1)
  OBVIOUS
<1>3. a = p * (a \div p) + (a % p)
  OBVIOUS
<1> QED BY <1>1, <1>2, <1>3, Zenon

\* The quotient is the one number with a remainder below the divisor.
LEMMA DivIs ==
  ASSUME NEW a \in Nat, NEW p \in Nat \ {0}, NEW n \in Nat, NEW r \in 0..(p - 1), a = p * n + r
  PROVE  a \div p = n /\ a % p = r
<1> DEFINE m == a \div p
           s == a % p
<1>1. m \in Nat /\ s \in 0..(p - 1) /\ a = p * m + s
  BY DivOp, Zenon
<1> HIDE DEF m, s
<1>2. CASE m < n
  <2>1. p * n >= p * (m + 1)
    BY <1>1, <1>2
  <2> QED BY <2>1, <1>1
<1>3. CASE n < m
  <2>1. p * m >= p * (n + 1)
    BY <1>1, <1>3
  <2> QED BY <2>1, <1>1
<1>4. CASE m = n
  <2>1. s = r
    BY <1>1, <1>4
  <2> QED BY <2>1, <1>4, Zenon DEF m, s
<1>5. m < n \/ n < m \/ m = n
  BY <1>1
<1> QED BY <1>2, <1>3, <1>4, <1>5, Zenon

LEMMA Multiple ==
  ASSUME NEW a \in Nat, NEW p \in Nat \ {0}
  PROVE  a % p = 0 <=> \E k \in Nat : a = p * k
<1>1. a % p = 0 => a = p * (a \div p) /\ a \div p \in Nat
  BY DivOp
<1>2. ASSUME NEW k \in Nat, a = p * k PROVE a % p = 0
  <2>1. 0 \in 0..(p - 1) /\ a = p * k + 0
    BY <1>2
  <2> QED BY <2>1, DivIs, Zenon
<1> QED BY <1>1, <1>2, Zenon

\* Two ranges have no number in common if, and only if, one ends before the other.
LEMMA RangesApart ==
  ASSUME NEW a \in Nat, NEW b \in Nat, NEW m \in Nat \ {0}, NEW n \in Nat \ {0}
  PROVE  (a..(a + m - 1)) \cap (b..(b + n - 1)) = {} <=> (a + m <= b \/ b + n <= a)
<1>1. ASSUME a + m <= b \/ b + n <= a PROVE (a..(a + m - 1)) \cap (b..(b + n - 1)) = {}
  BY <1>1
<1>2. ASSUME ~(a + m <= b), ~(b + n <= a)
      PROVE  \E x \in Nat : x \in a..(a + m - 1) /\ x \in b..(b + n - 1)
  <2>1. CASE a <= b
    BY <2>1, <1>2
  <2>2. CASE b < a
    BY <2>2, <1>2
  <2> QED BY <2>1, <2>2
<1> QED BY <1>1, <1>2, Zenon

(***************************************************************************)
(* The collector                                                           *)
(***************************************************************************)

LEMMA FunctionIsSeq ==
  ASSUME NEW S, NEW n \in Nat, NEW f \in [1..n -> S]
  PROVE  f \in Seq(S) /\ Len(f) = n
OBVIOUS

LEMMA RangeOp ==
  ASSUME NEW r \in RC!Region
  PROVE  r.start \in Nat /\ r.end \in Nat /\ r.start <= MaxFrame /\ r.end <= MaxFrame
<1>1. r.start \in 0..MaxFrame /\ r.end \in 0..MaxFrame
  BY Zenon DEF RC!Region
<1> QED BY <1>1, FrameAssumption

LEMMA RangeIs ==
  ASSUME NEW r \in RC!Region, NEW q \in RC!Region
  PROVE  [start |-> r.start, end |-> q.end] \in RC!Region
<1>1. r.start \in 0..MaxFrame /\ q.end \in 0..MaxFrame
  BY Zenon DEF RC!Region
<1> QED BY <1>1, Zenon DEF RC!Region

LEMMA ListOp ==
  ASSUME NEW rs \in Seq(RC!Region)
  PROVE  /\ Len(rs) \in Nat
         /\ \A i \in 1..Len(rs) : rs[i] \in RC!Region
OBVIOUS

LEMMA PagesOp ==
  ASSUME NEW rs, NEW x
  PROVE  x \in RC!PagesOf(rs) <=> \E i \in 1..Len(rs) : x \in RC!Pages(rs[i])
BY Zenon DEF RC!PagesOf

LEMMA Joined ==
  ASSUME NEW a \in Nat, NEW b \in Nat, NEW c \in Nat, a <= b, b <= c
  PROVE  (a..(b - 1)) \cup (b..(c - 1)) = a..(c - 1)
OBVIOUS

LEMMA Chain ==
  ASSUME NEW a \in Nat, NEW b \in Nat, NEW c \in Nat, NEW d \in Nat, a < b, b <= c, c < d
  PROVE  a < d
OBVIOUS

\* Sorted, but for region i, which may reach into the next one.
Nearly(m, i) ==
  \A j \in 1..Len(m) :
    /\ m[j].start < m[j].end
    /\ \A k \in 1..Len(m) : j < k /\ ~(j = i /\ k = i + 1) => m[j].end <= m[k].start

LEMMA Union ==
  ASSUME NEW a \in Nat, NEW b \in Nat, NEW c \in Nat, NEW d \in Nat, a <= c, c <= b, c < d,
         NEW e \in Nat, e = IF d > b THEN d ELSE b
  PROVE  (a..(b - 1)) \cup (c..(d - 1)) = a..(e - 1) /\ b <= e
<1>1. CASE d > b
  BY <1>1
<1>2. CASE ~(d > b)
  BY <1>2
<1> QED BY <1>1, <1>2

\* try_merge keeps the order of the list and its pages, and region i ends before the
\* others if only the next one was in its way.
LEMMA MergeOp ==
  ASSUME NEW m \in Seq(RC!Region), RC!Ascending(m), NEW i \in 1..Len(m)
  PROVE  /\ RC!TryMerge(m, i) \in Seq(RC!Region) /\ Len(RC!TryMerge(m, i)) <= Len(m)
         /\ RC!Ascending(RC!TryMerge(m, i))
         /\ RC!PagesOf(RC!TryMerge(m, i)) = RC!PagesOf(m)
         /\ Nearly(m, i) => RC!Sorted(RC!TryMerge(m, i))
<1> DEFINE n == Len(m)
<1>1. n \in Nat /\ n - 1 \in Nat /\ i \in Nat /\ i <= n /\ 1 <= i
  BY ListOp
<1>2. CASE ~(i + 1 <= n /\ m[i].end >= m[i + 1].start)
  <2>1. RC!TryMerge(m, i) = m
    BY <1>2, Zenon DEF RC!TryMerge
  <2>2. ASSUME Nearly(m, i), NEW j \in 1..n, NEW k \in 1..n, j < k PROVE m[j].end <= m[k].start
    <3>1. CASE ~(j = i /\ k = i + 1)
      BY <2>2, <3>1, Zenon DEF Nearly
    <3>2. CASE j = i /\ k = i + 1
      <4>1. i + 1 <= n
        BY <3>2, <1>1
      <4>2. ~(m[j].end >= m[k].start)
        BY <4>1, <3>2, <1>2, Zenon
      <4>3. m[j].end \in Nat /\ m[k].start \in Nat
        BY ListOp, RangeOp, Zenon
      <4> QED BY <4>2, <4>3
    <3> QED BY <3>1, <3>2, Zenon
  <2>3. Nearly(m, i) => RC!Sorted(m)
    BY <2>2, Zenon DEF Nearly, RC!Sorted
  <2>4. n <= n
    BY <1>1
  <2> QED BY <2>1, <2>3, <2>4, Zenon
<1>3. CASE i + 1 <= n /\ m[i].end >= m[i + 1].start
  <2> DEFINE e == IF m[i + 1].end > m[i].end THEN m[i + 1].end ELSE m[i].end
             g == [m EXCEPT ![i].end = IF m[i + 1].end > @ THEN m[i + 1].end ELSE @]
             t == RC!TryMerge(m, i)
             lo(j) == IF j <= i THEN j ELSE j + 1
             hi(j) == IF j < i THEN j ELSE j + 1
  <2>1. t = [j \in 1..(n - 1) |-> IF j < i + 1 THEN g[j] ELSE g[j + 1]]
    <3>1. t = RC!CloseUp(g, i + 1)
      BY <1>3, Zenon DEF RC!TryMerge
    <3>2. Len(g) = n
      OBVIOUS
    <3> QED BY <3>1, <3>2, Zenon DEF RC!CloseUp
  <2>2. i \in 1..n /\ i + 1 \in 1..n /\ i < i + 1
    BY <1>1, <1>3
  <2>3. /\ m[i] \in RC!Region /\ m[i + 1] \in RC!Region
        /\ m[i].start < m[i].end /\ m[i].start <= m[i + 1].start /\ m[i + 1].start < m[i + 1].end
    BY <2>2, ListOp, Zenon DEF RC!Ascending
  <2>4. /\ m[i].start \in Nat /\ m[i].end \in Nat /\ m[i + 1].start \in Nat /\ m[i + 1].end \in Nat
    BY <2>3, RangeOp, Zenon
  <2>e. e \in {m[i].end, m[i + 1].end} /\ e \in Nat
    BY <2>4, Zenon
  <2>5. /\ \A j \in 1..n : j # i => g[j] = m[j]
        /\ g[i] = [start |-> m[i].start, end |-> e]
    <3>1. \A j \in 1..n : j # i => g[j] = m[j]
      OBVIOUS
    <3>2. g[i] = [m[i] EXCEPT !.end = e]
      OBVIOUS
    <3> HIDE DEF g, e
    <3>3. g[i] = [start |-> m[i].start, end |-> e]
      BY <3>2, <2>3, Zenon DEF RC!Region
    <3> QED BY <3>1, <3>3, Zenon
  <2>u. (m[i].start..(m[i].end - 1)) \cup (m[i + 1].start..(m[i + 1].end - 1)) = m[i].start..(e - 1)
        /\ m[i].end <= e
    <3> DEFINE a == m[i].start
               b == m[i].end
               c == m[i + 1].start
               d == m[i + 1].end
    <3>1. /\ a \in Nat /\ b \in Nat /\ c \in Nat /\ d \in Nat /\ a <= c /\ b >= c /\ c < d
          /\ e \in Nat /\ e = IF d > b THEN d ELSE b
      BY <1>3, <2>3, <2>4, <2>e, Zenon
    <3> HIDE DEF a, b, c, d, e
    <3>2. c <= b
      BY <3>1
    <3>3. (a..(b - 1)) \cup (c..(d - 1)) = a..(e - 1) /\ b <= e
      BY <3>1, <3>2, Union
    <3> QED BY <3>3, Zenon DEF a, b, c, d
  <2> HIDE DEF g, t, e
  <2>6. ASSUME NEW j \in 1..(n - 1)
        PROVE  /\ lo(j) \in 1..n /\ hi(j) \in 1..n /\ lo(j) # i + 1
               /\ j < i => lo(j) = j /\ hi(j) = j
               /\ j = i => lo(j) = i /\ hi(j) = i + 1
               /\ j > i => lo(j) = j + 1 /\ hi(j) = j + 1
               /\ j < i \/ j = i \/ j > i
               /\ \A k \in 1..(n - 1) : j < k => hi(j) < lo(k) /\ lo(j) < lo(k)
    BY <1>1, <1>3
  <2> HIDE DEF lo, hi
  <2>7. ASSUME NEW j \in 1..(n - 1)
        PROVE  /\ t[j] \in RC!Region
               /\ t[j].start = m[lo(j)].start
               /\ t[j].end = IF j = i THEN e ELSE m[hi(j)].end
               /\ j # i => hi(j) = lo(j)
               /\ RC!Pages(t[j]) = RC!Pages(m[lo(j)]) \cup RC!Pages(m[hi(j)])
    <3>1. CASE j < i
      <4>1. t[j] = m[j] /\ j \in 1..n /\ j # i
        BY <3>1, <1>1, <2>1, <2>5
      <4>2. lo(j) = j /\ hi(j) = j /\ m[j] \in RC!Region
        BY <4>1, <3>1, <2>6, ListOp, Zenon
      <4> QED BY <4>1, <4>2, Zenon
    <3>2. CASE j > i
      <4>1. t[j] = m[j + 1] /\ j + 1 \in 1..n /\ j # i
        BY <3>2, <1>1, <2>1, <2>5
      <4>2. lo(j) = j + 1 /\ hi(j) = j + 1 /\ m[j + 1] \in RC!Region
        BY <4>1, <3>2, <2>6, ListOp, Zenon
      <4> QED BY <4>1, <4>2, Zenon
    <3>3. CASE j = i
      <4>1. j < i + 1
        BY <3>3, <1>1
      <4>2. t[j] = [start |-> m[i].start, end |-> e]
        BY <4>1, <3>3, <2>1, <2>5, Zenon
      <4>3. t[j].start = m[i].start /\ t[j].end = e
        BY <4>2
      <4>4. t[j] \in RC!Region
        BY <4>2, <2>3, <2>e, RangeIs, Zenon
      <4>8. RC!Pages(t[j]) = RC!Pages(m[i]) \cup RC!Pages(m[i + 1])
        BY <4>3, <2>u, Zenon DEF RC!Pages
      <4> QED BY <4>3, <4>4, <4>8, <3>3, <2>6, Zenon
    <3> QED BY <3>1, <3>2, <3>3, <2>6, Zenon
  <2>8. t \in Seq(RC!Region) /\ Len(t) = n - 1
    <3>1. t \in [1..(n - 1) -> RC!Region]
      BY <2>1, <2>7, Zenon
    <3> QED BY <3>1, <1>1, FunctionIsSeq, Zenon
  <2>9. ASSUME NEW j \in 1..(n - 1) PROVE t[j].start < t[j].end
    <3>1. CASE j = i
      <4>1. t[j].start = m[i].start /\ t[j].end = e
        BY <3>1, <2>6, <2>7, Zenon
      <4> QED BY <4>1, <2>3, <2>4, <2>e, <2>u
    <3>2. CASE j # i
      BY <3>2, <2>6, <2>7, Zenon DEF RC!Ascending
    <3> QED BY <3>1, <3>2, Zenon
  <2>a. RC!Ascending(t)
    <3>1. ASSUME NEW j \in 1..(n - 1), NEW k \in 1..(n - 1), j < k PROVE t[j].start <= t[k].start
      <4>1. lo(j) \in 1..n /\ lo(k) \in 1..n /\ lo(j) < lo(k)
        BY <3>1, <2>6, Zenon
      <4>2. m[lo(j)].start <= m[lo(k)].start
        BY <4>1, Zenon DEF RC!Ascending
      <4> QED BY <4>2, <2>7, Zenon
    <3> QED BY <3>1, <2>8, <2>9, Zenon DEF RC!Ascending
  <2>b. ASSUME Nearly(m, i) PROVE RC!Sorted(t)
    <3>1. ASSUME NEW j \in 1..(n - 1), NEW k \in 1..(n - 1), j < k PROVE t[j].end <= t[k].start
      <4>1. /\ lo(j) \in 1..n /\ hi(j) \in 1..n /\ lo(k) \in 1..n /\ lo(k) # i + 1
            /\ hi(j) < lo(k) /\ lo(j) < lo(k)
        BY <3>1, <2>6, Zenon
      <4>2. m[hi(j)].end <= m[lo(k)].start /\ m[lo(j)].end <= m[lo(k)].start
        BY <4>1, <2>b, Zenon DEF Nearly
      <4>3. CASE j = i
        <5>1. lo(j) = i /\ hi(j) = i + 1 /\ t[j].end = e
          BY <4>3, <2>6, <2>7, Zenon
        <5> QED BY <5>1, <4>2, <2>e, <2>7, Zenon
      <4>4. CASE j # i
        BY <4>2, <4>4, <2>7, Zenon
      <4> QED BY <4>3, <4>4, Zenon
    <3> QED BY <3>1, <2>8, <2>9, Zenon DEF RC!Sorted
  <2>10. ASSUME NEW x PROVE x \in RC!PagesOf(t) <=> x \in RC!PagesOf(m)
    <3>1. x \in RC!PagesOf(t) => x \in RC!PagesOf(m)
      <4> SUFFICES ASSUME x \in RC!PagesOf(t) PROVE x \in RC!PagesOf(m)
        BY Zenon
      <4>1. PICK j \in 1..(n - 1) : x \in RC!Pages(t[j])
        BY <2>8, PagesOp, Zenon
      <4>2. lo(j) \in 1..n /\ hi(j) \in 1..n
        BY <2>6, Zenon
      <4>3. x \in RC!Pages(m[lo(j)]) \/ x \in RC!Pages(m[hi(j)])
        BY <4>1, <2>7, Zenon
      <4> QED BY <4>2, <4>3, PagesOp, Zenon
    <3>2. ASSUME NEW k \in 1..n PROVE \E j \in 1..(n - 1) : k = lo(j) \/ k = hi(j)
      <4>1. CASE k <= i
        <5>1. k \in 1..(n - 1) /\ (k < i \/ k = i)
          BY <4>1, <1>1, <1>3
        <5> QED BY <5>1, <2>6, Zenon
      <4>2. CASE k > i
        <5>1. k - 1 \in 1..(n - 1) /\ (k - 1 > i \/ k - 1 = i) /\ (k - 1) + 1 = k
          BY <4>2, <1>1, <1>3
        <5> QED BY <5>1, <2>6, Zenon
      <4> QED BY <4>1, <4>2, <1>1
    <3>3. x \in RC!PagesOf(m) => x \in RC!PagesOf(t)
      <4> SUFFICES ASSUME x \in RC!PagesOf(m) PROVE x \in RC!PagesOf(t)
        BY Zenon
      <4>1. PICK k \in 1..n : x \in RC!Pages(m[k])
        BY PagesOp, Zenon
      <4>2. PICK j \in 1..(n - 1) : k = lo(j) \/ k = hi(j)
        BY <3>2, Zenon
      <4>3. x \in RC!Pages(t[j])
        BY <4>1, <4>2, <2>7, Zenon
      <4> QED BY <4>3, <2>8, PagesOp, Zenon
    <3> QED BY <3>1, <3>3, Zenon
  <2>11. n - 1 <= n
    BY <1>1
  <2> QED BY <2>8, <2>a, <2>b, <2>10, <2>11, Zenon DEF t
<1> QED BY <1>2, <1>3, Zenon

\* A region takes in a range that starts in it or where it ends; only the next region may
\* then be in its way if the range ends before the others.
LEMMA ExtendOp ==
  ASSUME NEW rs \in Seq(RC!Region), RC!Ascending(rs), NEW i \in 1..Len(rs),
         NEW new \in RC!Region, RC!Reaches(rs[i], new), rs[i].end < new.end,
         NEW m, m = [rs EXCEPT ![i].end = new.end]
  PROVE  /\ m \in Seq(RC!Region) /\ Len(m) = Len(rs) /\ RC!Ascending(m)
         /\ RC!PagesOf(m) = RC!PagesOf(rs) \cup RC!Pages(new)
         /\ RC!Sorted(rs) /\ (\A j \in 1..Len(rs) : i + 1 < j => new.end <= rs[j].start) => Nearly(m, i)
<1> DEFINE n == Len(rs)
<1>1. rs[i] \in RC!Region /\ n \in Nat /\ rs[i].start < rs[i].end
  BY ListOp, Zenon DEF RC!Ascending
<1>2. m[i] = [start |-> rs[i].start, end |-> new.end]
  <2>1. m[i] = [rs[i] EXCEPT !.end = new.end]
    OBVIOUS
  <2> QED BY <2>1, <1>1, SMTT(30) DEF RC!Region
<1>3. m[i].start = rs[i].start /\ m[i].end = new.end /\ m[i] \in RC!Region
  <2>1. m[i].start = rs[i].start /\ m[i].end = new.end
    BY <1>2
  <2> QED BY <2>1, <1>1, <1>2, RangeIs, Zenon
<1>4. m \in [1..n -> RC!Region] /\ \A j \in 1..n : j # i => m[j] = rs[j]
  <2>1. rs \in [1..n -> RC!Region]
    BY ListOp
  <2>2. \A j \in 1..n : j # i => m[j] = rs[j]
    BY <2>1, Zenon
  <2>3. m = [j \in 1..n |-> m[j]]
    BY <2>1, Zenon
  <2>4. \A j \in 1..n : m[j] \in RC!Region
    BY <2>2, <1>3, ListOp, Zenon
  <2> QED BY <2>2, <2>3, <2>4, Zenon
<1>5. m \in Seq(RC!Region) /\ Len(m) = n
  <2>1. n \in Nat /\ m \in [1..n -> RC!Region]
    BY <1>1, <1>4, Zenon
  <2> HIDE DEF n
  <2> QED BY <2>1, FunctionIsSeq, Zenon
<1>6. /\ rs[i].start \in Nat /\ rs[i].end \in Nat /\ new.start \in Nat /\ new.end \in Nat
      /\ rs[i].start < new.end
      /\ rs[i].start < new.start /\ new.start <= rs[i].end /\ rs[i].end < new.end
  <2>1. rs[i].start \in Nat /\ rs[i].end \in Nat /\ new.start \in Nat /\ new.end \in Nat
    BY <1>1, RangeOp, Zenon
  <2>2. rs[i].start < new.start /\ new.start <= rs[i].end
    BY Zenon DEF RC!Reaches
  <2> QED BY <2>1, <2>2, <1>1
<1>7. \A j \in 1..n : m[j].start = rs[j].start /\ m[j].start < m[j].end
  BY <1>3, <1>4, <1>6, Zenon DEF RC!Ascending
<1>a. RC!Ascending(m)
  BY <1>5, <1>7, Zenon DEF RC!Ascending
<1>b. ASSUME RC!Sorted(rs), \A j \in 1..n : i + 1 < j => new.end <= rs[j].start
      PROVE  Nearly(m, i)
  <2>1. ASSUME NEW j \in 1..n, NEW k \in 1..n, j < k, ~(j = i /\ k = i + 1)
        PROVE  m[j].end <= m[k].start
    <3>1. CASE j = i
      <4>1. i + 1 < k
        BY <3>1, <2>1, <1>1
      <4> QED BY <4>1, <3>1, <1>b, <1>3, <1>7, Zenon
    <3>2. CASE j # i
      BY <3>2, <2>1, <1>b, <1>4, <1>7, Zenon DEF RC!Sorted
    <3> QED BY <3>1, <3>2, Zenon
  <2> QED BY <2>1, <1>5, <1>7, Zenon DEF Nearly
<1>8. RC!Pages(m[i]) = RC!Pages(rs[i]) \cup RC!Pages(new)
  <2>1. (rs[i].start..(rs[i].end - 1)) \cup (new.start..(new.end - 1)) = rs[i].start..(new.end - 1)
    <3> DEFINE a == rs[i].start
               b == rs[i].end
               c == new.start
               d == new.end
    <3>1. a \in Nat /\ b \in Nat /\ c \in Nat /\ d \in Nat /\ a < c /\ c <= b /\ b < d
      BY <1>6, Zenon
    <3> HIDE DEF a, b, c, d
    <3>2. (a..(b - 1)) \cup (c..(d - 1)) = a..(d - 1)
      BY <3>1
    <3> QED BY <3>2, Zenon DEF a, b, c, d
  <2> QED BY <2>1, <1>3, Zenon DEF RC!Pages
<1>9. ASSUME NEW x
      PROVE  x \in RC!PagesOf(m) <=> x \in RC!PagesOf(rs) \/ x \in RC!Pages(new)
  <2>1. x \in RC!PagesOf(m) <=> \E j \in 1..n : x \in RC!Pages(m[j])
    BY <1>5, PagesOp, Zenon
  <2>2. x \in RC!PagesOf(rs) <=> \E j \in 1..n : x \in RC!Pages(rs[j])
    BY PagesOp, Zenon
  <2> QED BY <2>1, <2>2, <1>4, <1>8, Zenon
<1> QED BY <1>5, <1>a, <1>b, <1>9, Zenon

\* insert puts a region between those that start before it and the others.
LEMMA InsertOp ==
  ASSUME NEW rs \in Seq(RC!Region), RC!Ascending(rs), NEW i \in 1..(Len(rs) + 1),
         NEW new \in RC!Region, new.start < new.end,
         \A j \in 1..Len(rs) : j < i => rs[j].start <= new.start,
         \A j \in 1..Len(rs) : ~(j < i) => new.start <= rs[j].start
  PROVE  /\ RC!Insert(rs, i, new) \in Seq(RC!Region)
         /\ Len(RC!Insert(rs, i, new)) = Len(rs) + 1
         /\ RC!Ascending(RC!Insert(rs, i, new))
         /\ RC!PagesOf(RC!Insert(rs, i, new)) = RC!PagesOf(rs) \cup RC!Pages(new)
         /\ /\ RC!Sorted(rs)
            /\ \A j \in 1..Len(rs) : j < i => rs[j].end <= new.start
            /\ \A j \in 1..Len(rs) : ~(j < i) => new.end <= rs[j].start
            => RC!Sorted(RC!Insert(rs, i, new))
<1> DEFINE n == Len(rs)
           t == RC!Insert(rs, i, new)
           at(j) == IF j < i THEN j ELSE j - 1
<1>1. n \in Nat /\ n + 1 \in Nat /\ i \in Nat /\ 1 <= i /\ i <= n + 1
  BY ListOp
<1>2. t = [j \in 1..(n + 1) |-> IF j < i THEN rs[j] ELSE IF j = i THEN new ELSE rs[j - 1]]
  BY Zenon DEF RC!Insert
<1> HIDE DEF t
<1>3. ASSUME NEW j \in 1..(n + 1), j # i
      PROVE  /\ at(j) \in 1..n /\ t[j] = rs[at(j)] /\ (j < i <=> at(j) < i)
             /\ \A k \in 1..(n + 1) : j < k /\ k # i => at(j) < at(k)
  <2>1. t[j] = rs[at(j)]
    BY <1>3, <1>2, Zenon
  <2>2. /\ at(j) \in 1..n /\ (j < i <=> at(j) < i)
        /\ \A k \in 1..(n + 1) : j < k /\ k # i => at(j) < at(k)
    BY <1>1, <1>3
  <2> QED BY <2>1, <2>2, Zenon
<1>4. t[i] = new
  <2>1. ~(i < i)
    BY <1>1
  <2> QED BY <2>1, <1>2, Zenon
<1>5. \A k \in 1..n : \E j \in 1..(n + 1) : j # i /\ at(j) = k
  <2>1. ASSUME NEW k \in 1..n PROVE \E j \in 1..(n + 1) : j # i /\ at(j) = k
    <3>1. CASE k < i
      <4>1. k \in 1..(n + 1) /\ k # i
        BY <3>1, <1>1
      <4> QED BY <4>1, <3>1, Zenon
    <3>2. CASE ~(k < i)
      <4>1. k + 1 \in 1..(n + 1) /\ k + 1 # i /\ ~(k + 1 < i) /\ (k + 1) - 1 = k
        BY <3>2, <1>1
      <4> QED BY <4>1, Zenon
    <3> QED BY <3>1, <3>2, Zenon
  <2> QED BY <2>1, Zenon
<1> HIDE DEF at
<1>6. t \in Seq(RC!Region) /\ Len(t) = n + 1
  <2>1. \A j \in 1..(n + 1) : t[j] \in RC!Region
    BY <1>3, <1>4, ListOp, Zenon
  <2>2. t \in [1..(n + 1) -> RC!Region]
    BY <2>1, <1>2, Zenon
  <2> QED BY <2>2, <1>1, FunctionIsSeq, Zenon
<1>a. ASSUME NEW j \in 1..(n + 1), NEW k \in 1..(n + 1), j < k
      PROVE  \/ j = i /\ at(k) \in 1..n /\ t[k] = rs[at(k)] /\ ~(at(k) < i)
             \/ k = i /\ at(j) \in 1..n /\ t[j] = rs[at(j)] /\ at(j) < i
             \/ /\ at(j) \in 1..n /\ t[j] = rs[at(j)] /\ at(k) \in 1..n /\ t[k] = rs[at(k)]
                /\ at(j) < at(k)
  <2>1. CASE j = i
    <3>1. k # i /\ ~(k < i)
      BY <2>1, <1>a, <1>1
    <3> QED BY <3>1, <2>1, <1>3, Zenon
  <2>2. CASE k = i
    <3>1. j # i /\ j < i
      BY <2>2, <1>a, <1>1
    <3> QED BY <3>1, <2>2, <1>3, Zenon
  <2>3. CASE j # i /\ k # i
    BY <2>3, <1>a, <1>3, Zenon
  <2> QED BY <2>1, <2>2, <2>3, Zenon
<1>b. ASSUME NEW j \in 1..(n + 1) PROVE t[j].start < t[j].end
  BY <1>3, <1>4, Zenon DEF RC!Ascending
<1>7. RC!Ascending(t)
  <2>2. ASSUME NEW j \in 1..(n + 1), NEW k \in 1..(n + 1), j < k PROVE t[j].start <= t[k].start
    BY <2>2, <1>a, <1>4, Zenon DEF RC!Ascending
  <2> QED BY <2>2, <1>b, <1>6, Zenon DEF RC!Ascending
<1>c. ASSUME RC!Sorted(rs), \A j \in 1..n : j < i => rs[j].end <= new.start,
             \A j \in 1..n : ~(j < i) => new.end <= rs[j].start
      PROVE  RC!Sorted(t)
  <2>2. ASSUME NEW j \in 1..(n + 1), NEW k \in 1..(n + 1), j < k PROVE t[j].end <= t[k].start
    BY <2>2, <1>a, <1>c, <1>4, Zenon DEF RC!Sorted
  <2> QED BY <2>2, <1>b, <1>6, Zenon DEF RC!Sorted
<1>8. ASSUME NEW x
      PROVE  x \in RC!PagesOf(t) <=> x \in RC!PagesOf(rs) \/ x \in RC!Pages(new)
  <2>1. x \in RC!PagesOf(t) <=> \E j \in 1..(n + 1) : x \in RC!Pages(t[j])
    BY <1>6, PagesOp, Zenon
  <2>2. x \in RC!PagesOf(rs) <=> \E j \in 1..n : x \in RC!Pages(rs[j])
    BY PagesOp, Zenon
  <2>3. ASSUME NEW j \in 1..n, x \in RC!Pages(rs[j]) PROVE \E k \in 1..(n + 1) : x \in RC!Pages(t[k])
    BY <2>3, <1>3, <1>5, Zenon
  <2>4. ASSUME NEW j \in 1..(n + 1), x \in RC!Pages(t[j]), j # i
        PROVE  \E k \in 1..n : x \in RC!Pages(rs[k])
    BY <2>4, <1>3, Zenon
  <2> QED BY <2>1, <2>2, <2>3, <2>4, <1>4, Zenon
<1> QED BY <1>6, <1>7, <1>c, <1>8, Zenon DEF t

\* The scan of add stops at the place of the new range: what is before it ends below.
LEMMA StopOp ==
  ASSUME NEW rs \in Seq(RC!Region), NEW new \in RC!Region
  PROVE  /\ RC!Stop(rs, new) \in 1..(Len(rs) + 1)
         /\ \A j \in 1..Len(rs) : j < RC!Stop(rs, new) =>
              rs[j].start < new.start /\ rs[j].end < new.start
         /\ RC!Stop(rs, new) \in 1..Len(rs) =>
              (rs[RC!Stop(rs, new)].start < new.start => rs[RC!Stop(rs, new)].end >= new.start)
<1> DEFINE n == Len(rs)
           stops == {i \in 1..n : rs[i].start < new.start => rs[i].end >= new.start}
           i == RC!Stop(rs, new)
<1>1. n \in Nat
  BY ListOp, Zenon
<1>2. ASSUME NEW j \in 1..n, j \notin stops PROVE rs[j].start < new.start /\ rs[j].end < new.start
  <2>1. rs[j].start < new.start /\ ~(rs[j].end >= new.start)
    BY <1>2, Zenon
  <2>2. rs[j].end \in Nat /\ new.start \in Nat
    BY ListOp, RangeOp, Zenon
  <2> QED BY <2>1, <2>2
<1>3. CASE stops = {}
  <2>1. i = n + 1
    BY <1>3, Zenon DEF RC!Stop
  <2>2. n + 1 \in 1..(n + 1) /\ n + 1 \notin 1..n
    BY <1>1
  <2> QED BY <2>1, <2>2, <1>2, <1>3, Zenon
<1>4. CASE stops # {}
  <2>1. i = Min(stops)
    BY <1>4, Zenon DEF RC!Stop, Min
  <2>2. stops \in SUBSET Nat
    BY <1>1
  <2>3. i \in stops /\ \A j \in stops : i <= j
    <3> HIDE DEF stops, i
    <3> QED BY <2>1, <2>2, <1>4, MinOp, Zenon
  <2>4. i \in 1..n /\ (rs[i].start < new.start => rs[i].end >= new.start)
    BY <2>3, Zenon
  <2> HIDE DEF i
  <2>5. i \in 1..(n + 1)
    BY <2>4, <1>1
  <2>6. ASSUME NEW j \in 1..n, j < i PROVE j \notin stops
    <3>1. ~(i <= j)
      BY <2>4, <2>6, <1>1
    <3> QED BY <3>1, <2>3, Zenon
  <2> QED BY <2>4, <2>5, <2>6, <1>2, Zenon DEF i
<1> QED BY <1>3, <1>4, Zenon

\* add keeps the order of the list, adds exactly the pages of the new range, and one region
\* at most; and a list of disjoint regions stays one if it handles what overlaps the range.
LEMMA AddedOp ==
  ASSUME NEW rs \in Seq(RC!Region), RC!Ascending(rs),
         NEW new \in RC!Region, new.start < new.end
  PROVE  /\ RC!Added(rs, new) \in Seq(RC!Region)
         /\ Len(RC!Added(rs, new)) <= Len(rs) + 1
         /\ RC!Ascending(RC!Added(rs, new))
         /\ RC!PagesOf(RC!Added(rs, new)) = RC!PagesOf(rs) \cup RC!Pages(new)
         /\ RC!Sorted(rs) /\ RC!Handled(rs, new) => RC!Sorted(RC!Added(rs, new))
<1> DEFINE n == Len(rs)
           i == RC!Stop(rs, new)
<1>1. /\ n \in Nat /\ i \in 1..(n + 1)
      /\ \A j \in 1..n : j < i => rs[j].start < new.start /\ rs[j].end < new.start
      /\ i \in 1..n => (rs[i].start < new.start => rs[i].end >= new.start)
  BY ListOp, StopOp, Zenon
<1>2. new.start \in Nat /\ new.end \in Nat
  BY RangeOp, Zenon
<1>3. ASSUME NEW j \in 1..n
      PROVE  rs[j].start \in Nat /\ rs[j].end \in Nat /\ rs[j].start < rs[j].end
  BY ListOp, RangeOp, Zenon DEF RC!Ascending
<1> HIDE DEF i
<1>a. ASSUME NEW j \in 1..n, i \in 1..n, i <= j PROVE rs[i].start <= rs[j].start
  <2>1. i = j \/ i < j
    BY <1>a, <1>1
  <2>2. rs[j].start <= rs[j].start
    BY <1>3
  <2> QED BY <2>1, <2>2, <1>a, Zenon DEF RC!Ascending
\* a region that starts after the range and that nothing leads to
<1>b. ASSUME RC!Handled(rs, new), NEW j \in 1..n, new.start <= rs[j].start,
             j > 1 => ~RC!Reaches(rs[j - 1], new)
      PROVE  new.end <= rs[j].start
  <2>1. ~RC!Reaches(rs[j], new)
    BY <1>2, <1>3, <1>b DEF RC!Reaches
  <2>2. ~RC!Overlaps(rs[j], new)
    BY <2>1, <1>b, Zenon DEF RC!Handled
  <2> QED BY <2>2, <1>2, <1>3, <1>b DEF RC!Overlaps
<1>4. CASE i <= n /\ rs[i].start < new.start
  <2>1. i \in 1..n
    BY <1>4, <1>1
  <2>2. RC!Reaches(rs[i], new) /\ new.start <= rs[i].end
    <3>1. rs[i].end >= new.start /\ rs[i].end \in Nat
      BY <2>1, <1>1, <1>3, <1>4, Zenon
    <3> QED BY <3>1, <1>2, <1>4 DEF RC!Reaches
  <2>3. CASE new.end > rs[i].end
    <3>1. rs[i].end < new.end
      BY <2>1, <2>3, <1>2, <1>3
    <3>2. ASSUME RC!Sorted(rs), RC!Handled(rs, new), NEW j \in 1..n, i + 1 < j
          PROVE  new.end <= rs[j].start
      <4>1. /\ j - 1 \in 1..n /\ i < j - 1 /\ i < j
        BY <3>2, <2>1, <1>1
      <4>2. rs[i].end <= rs[j].start /\ rs[i].end <= rs[j - 1].start
        BY <4>1, <2>1, <3>2, Zenon DEF RC!Sorted
      <4>3. /\ rs[i].end \in Nat /\ rs[j].start \in Nat /\ rs[j - 1].start \in Nat
        BY <4>1, <2>1, <1>3, Zenon
      <4>4. new.start <= rs[j].start /\ ~(rs[j - 1].start < new.start)
        BY <4>2, <4>3, <2>2, <1>2
      <4> QED BY <4>4, <3>2, <1>b, Zenon DEF RC!Reaches
    <3> DEFINE m == [rs EXCEPT ![i].end = new.end]
    <3>3. RC!Added(rs, new) = RC!TryMerge(m, i)
      BY <2>3, <1>4, Zenon DEF RC!Added, i
    <3> HIDE DEF m
    <3>4. /\ m \in Seq(RC!Region) /\ Len(m) = n /\ RC!Ascending(m)
          /\ RC!PagesOf(m) = RC!PagesOf(rs) \cup RC!Pages(new)
          /\ RC!Sorted(rs) /\ (\A j \in 1..n : i + 1 < j => new.end <= rs[j].start) => Nearly(m, i)
      BY <2>1, <2>2, <3>1, ExtendOp, Zenon DEF m
    <3>5. i \in 1..Len(m)
      BY <2>1, <3>4, Zenon
    <3>6. /\ RC!TryMerge(m, i) \in Seq(RC!Region) /\ Len(RC!TryMerge(m, i)) <= n
          /\ RC!Ascending(RC!TryMerge(m, i))
          /\ RC!PagesOf(RC!TryMerge(m, i)) = RC!PagesOf(rs) \cup RC!Pages(new)
          /\ Nearly(m, i) => RC!Sorted(RC!TryMerge(m, i))
      BY <3>4, <3>5, MergeOp, Zenon
    <3>7. Len(RC!TryMerge(m, i)) <= n + 1
      <4>1. Len(RC!TryMerge(m, i)) \in Nat
        BY <3>6, ListOp, Zenon
      <4> QED BY <4>1, <3>6, <1>1
    <3> QED BY <3>2, <3>3, <3>4, <3>6, <3>7, Zenon
  <2>4. CASE ~(new.end > rs[i].end)
    <3>1. RC!Added(rs, new) = rs
      BY <2>4, <1>4, Zenon DEF RC!Added, i
    <3>2. RC!Pages(new) \subseteq RC!Pages(rs[i])
      BY <2>1, <2>4, <1>2, <1>3, <1>4 DEF RC!Pages
    <3>3. \A x \in RC!Pages(new) : x \in RC!PagesOf(rs)
      BY <3>2, <2>1, PagesOp, Zenon
    <3>4. n <= n + 1
      BY <1>1
    <3> QED BY <3>1, <3>3, <3>4, Zenon
  <2> QED BY <2>3, <2>4, Zenon
<1>5. CASE ~(i <= n /\ rs[i].start < new.start)
  <2>1. ~(i > 1 /\ rs[i - 1].end = new.start)
    <3>1. SUFFICES ASSUME i > 1 PROVE rs[i - 1].end # new.start
      BY Zenon
    <3>2. i - 1 \in 1..n /\ i - 1 < i
      BY <3>1, <1>1
    <3>3. rs[i - 1].end < new.start /\ rs[i - 1].end \in Nat
      BY <3>2, <1>1, <1>3, Zenon
    <3> QED BY <3>3, <1>2
  <2>2. RC!Added(rs, new) = RC!Insert(rs, i, new)
    BY <2>1, <1>5, Zenon DEF RC!Added, i
  <2>3. ASSUME NEW j \in 1..n, j < i PROVE rs[j].start <= new.start /\ rs[j].end <= new.start
    <3>1. /\ rs[j].start < new.start /\ rs[j].end < new.start /\ rs[j].start \in Nat
          /\ rs[j].end \in Nat
      BY <2>3, <1>1, <1>3, Zenon
    <3> QED BY <3>1, <1>2
  <2>4. ASSUME NEW j \in 1..n, ~(j < i) PROVE new.start <= rs[j].start
    <3>1. i \in 1..n /\ i <= n /\ i <= j
      BY <2>4, <1>1
    <3>2. rs[i].start <= rs[j].start /\ ~(rs[i].start < new.start)
      BY <3>1, <1>a, <1>5, Zenon
    <3>3. rs[i].start \in Nat /\ rs[j].start \in Nat
      BY <3>1, <1>3, Zenon
    <3> QED BY <3>2, <3>3, <1>2
  <2>5. ASSUME RC!Handled(rs, new), NEW j \in 1..n, ~(j < i) PROVE new.end <= rs[j].start
    <3>1. ASSUME j > 1 PROVE ~RC!Reaches(rs[j - 1], new)
      <4>1. j - 1 \in 1..n
        BY <3>1, <1>1
      <4>2. CASE j - 1 < i
        <5>1. rs[j - 1].end < new.start /\ rs[j - 1].end \in Nat
          BY <4>1, <4>2, <1>1, <1>3, Zenon
        <5> QED BY <5>1, <1>2 DEF RC!Reaches
      <4>3. CASE ~(j - 1 < i)
        <5>1. new.start <= rs[j - 1].start /\ rs[j - 1].start \in Nat
          BY <4>1, <4>3, <2>4, <1>3, Zenon
        <5> QED BY <5>1, <1>2 DEF RC!Reaches
      <4> QED BY <4>2, <4>3, Zenon
    <3> QED BY <3>1, <2>4, <2>5, <1>b, Zenon
  <2>6. /\ RC!Insert(rs, i, new) \in Seq(RC!Region)
        /\ Len(RC!Insert(rs, i, new)) = n + 1
        /\ RC!Ascending(RC!Insert(rs, i, new))
        /\ RC!PagesOf(RC!Insert(rs, i, new)) = RC!PagesOf(rs) \cup RC!Pages(new)
        /\ /\ RC!Sorted(rs)
           /\ \A j \in 1..n : j < i => rs[j].end <= new.start
           /\ \A j \in 1..n : ~(j < i) => new.end <= rs[j].start
           => RC!Sorted(RC!Insert(rs, i, new))
    BY <2>3, <2>4, <1>1, InsertOp, Zenon
  <2>7. n + 1 <= n + 1
    BY <1>1
  <2> QED BY <2>2, <2>3, <2>5, <2>6, <2>7, Zenon
<1> QED BY <1>4, <1>5, Zenon

(***************************************************************************)
(* Clipping                                                                *)
(***************************************************************************)

LEMMA NoneOp ==
  << >> \in Seq(RC!Region) /\ Len(<< >>) = 0 /\ 1..0 = {} /\ RC!PagesOf(<< >>) = {}
<1>1. << >> \in Seq(RC!Region) /\ Len(<< >>) = 0 /\ 1..0 = {}
  OBVIOUS
<1> QED BY <1>1, PagesOp, Zenon

LEMMA OneOp ==
  ASSUME NEW p \in RC!Region
  PROVE  /\ <<p>> \in Seq(RC!Region) /\ Len(<<p>>) = 1
         /\ \A i \in 1..1 : i = 1 /\ <<p>>[i] = p
         /\ RC!PagesOf(<<p>>) = RC!Pages(p)
<1>1. <<p>> \in Seq(RC!Region) /\ Len(<<p>>) = 1 /\ 1 \in 1..1
  OBVIOUS
<1>2. \A i \in 1..1 : i = 1 /\ <<p>>[i] = p
  OBVIOUS
<1>3. \A x : x \in RC!PagesOf(<<p>>) <=> \E i \in 1..1 : x \in RC!Pages(<<p>>[i])
  BY <1>1, PagesOp, Zenon
<1> QED BY <1>1, <1>2, <1>3, Zenon

LEMMA TwoOp ==
  ASSUME NEW p \in RC!Region, NEW q \in RC!Region
  PROVE  /\ <<p, q>> \in Seq(RC!Region) /\ Len(<<p, q>>) = 2
         /\ \A i \in 1..2 : (i = 1 /\ <<p, q>>[i] = p) \/ (i = 2 /\ <<p, q>>[i] = q)
         /\ RC!PagesOf(<<p, q>>) = RC!Pages(p) \cup RC!Pages(q)
<1>1. <<p, q>> \in Seq(RC!Region) /\ Len(<<p, q>>) = 2 /\ 1 \in 1..2 /\ 2 \in 1..2
  OBVIOUS
<1>2. \A i \in 1..2 : (i = 1 /\ <<p, q>>[i] = p) \/ (i = 2 /\ <<p, q>>[i] = q)
  OBVIOUS
<1>3. <<p, q>>[1] = p /\ <<p, q>>[2] = q
  BY Zenon
<1>4. \A x : x \in RC!PagesOf(<<p, q>>) <=> \E i \in 1..2 : x \in RC!Pages(<<p, q>>[i])
  BY <1>1, PagesOp, Zenon
<1> QED BY <1>1, <1>2, <1>3, <1>4, Zenon

LEMMA PairOp ==
  ASSUME NEW S, NEW p \in S, NEW q \in S
  PROVE  <<p>> \o <<q>> = <<p, q>>
<1> DEFINE s == <<p>> \o <<q>>
<1>1. s \in Seq(S) /\ Len(s) = 2 /\ s[1] = p /\ s[2] = q
  OBVIOUS
<1>2. <<p, q>> \in Seq(S) /\ Len(<<p, q>>) = 2 /\ <<p, q>>[1] = p /\ <<p, q>>[2] = q
  OBVIOUS
<1>3. \A i \in 1..2 : i = 1 \/ i = 2
  OBVIOUS
<1> HIDE DEF s
<1>4. \A i \in 1..2 : s[i] = <<p, q>>[i]
  BY <1>1, <1>2, <1>3, Zenon
<1>5. s = <<p, q>>
  BY <1>1, <1>2, <1>4
<1> QED BY <1>5, Zenon DEF s

\* Ranges from a to b, in order.
Within(cs, a, b) ==
  \A i \in 1..Len(cs) :
    /\ a <= cs[i].start /\ cs[i].start < cs[i].end /\ cs[i].end <= b
    /\ \A j \in 1..Len(cs) : i < j => cs[i].end <= cs[j].start

LEMMA OneWithin ==
  ASSUME NEW p \in RC!Region, NEW a, NEW b, a <= p.start, p.start < p.end, p.end <= b
  PROVE  Within(<<p>>, a, b)
<1>1. ~(1 < 1)
  OBVIOUS
<1>2. Len(<<p>>) = 1 /\ \A i \in 1..1 : i = 1 /\ <<p>>[i] = p
  BY OneOp, Zenon
<1> QED BY <1>1, <1>2, Zenon DEF Within

LEMMA TwoWithin ==
  ASSUME NEW p \in RC!Region, NEW q \in RC!Region, NEW a, NEW b,
         a <= p.start, p.start < p.end, p.end <= q.start, q.start < q.end, q.end <= b,
         a <= q.start, p.end <= b
  PROVE  Within(<<p, q>>, a, b)
<1>1. ~(1 < 1) /\ ~(2 < 2) /\ ~(2 < 1)
  OBVIOUS
<1>2. /\ Len(<<p, q>>) = 2
      /\ \A i \in 1..2 : (i = 1 /\ <<p, q>>[i] = p) \/ (i = 2 /\ <<p, q>>[i] = q)
  BY TwoOp, Zenon
<1>3. ASSUME NEW i \in 1..2, NEW x, x = <<p, q>>[i]
      PROVE  /\ a <= x.start /\ x.start < x.end /\ x.end <= b
             /\ \A j \in 1..2 : i < j => x.end <= <<p, q>>[j].start
  <2>1. CASE i = 1 /\ x = p
    <3>1. \A j \in 1..2 : i < j => <<p, q>>[j] = q
      BY <2>1, <1>1, <1>2, Zenon
    <3> QED BY <3>1, <2>1, Zenon
  <2>2. CASE i = 2 /\ x = q
    <3>1. \A j \in 1..2 : ~(i < j)
      BY <2>2, <1>1, <1>2, Zenon
    <3> QED BY <3>1, <2>2, Zenon
  <2> QED BY <2>1, <2>2, <1>2, <1>3, Zenon
<1> QED BY <1>2, <1>3, Zenon DEF Within

LEMMA TailOp ==
  ASSUME NEW rs \in Seq(RC!Region), rs # << >>
  PROVE  /\ Head(rs) = rs[1] /\ 1 \in 1..Len(rs)
         /\ Tail(rs) \in Seq(RC!Region) /\ Len(Tail(rs)) = Len(rs) - 1
         /\ \A i \in 1..Len(Tail(rs)) : /\ i + 1 \in 1..Len(rs) /\ Tail(rs)[i] = rs[i + 1]
                                        /\ 1 < i + 1
                                        /\ \A j \in 1..Len(Tail(rs)) : i < j => i + 1 < j + 1
         /\ RC!PagesOf(rs) = RC!Pages(Head(rs)) \cup RC!PagesOf(Tail(rs))
<1>1. /\ Head(rs) = rs[1] /\ 1 \in 1..Len(rs)
      /\ Tail(rs) \in Seq(RC!Region) /\ Len(Tail(rs)) = Len(rs) - 1
  OBVIOUS
<1>2. /\ \A i \in 1..Len(Tail(rs)) : i + 1 \in 1..Len(rs) /\ Tail(rs)[i] = rs[i + 1]
      /\ \A k \in 1..Len(rs) : k = 1 \/ (k - 1 \in 1..Len(Tail(rs)) /\ (k - 1) + 1 = k)
  OBVIOUS
<1>3. \A i \in 1..Len(Tail(rs)) : /\ 1 < i + 1
                                  /\ \A j \in 1..Len(Tail(rs)) : i < j => i + 1 < j + 1
  BY <1>1
<1>4. \A x : x \in RC!PagesOf(rs) <=> x \in RC!Pages(rs[1]) \/ x \in RC!PagesOf(Tail(rs))
  <2>1. ASSUME NEW x, x \in RC!PagesOf(rs)
        PROVE  x \in RC!Pages(rs[1]) \/ x \in RC!PagesOf(Tail(rs))
    <3>1. PICK k \in 1..Len(rs) : x \in RC!Pages(rs[k])
      BY <2>1, PagesOp, Zenon
    <3>2. CASE k = 1
      BY <3>1, <3>2, Zenon
    <3>3. CASE k # 1
      <4>1. k - 1 \in 1..Len(Tail(rs)) /\ Tail(rs)[k - 1] = rs[k]
        BY <3>3, <1>2, Zenon
      <4> QED BY <4>1, <3>1, PagesOp, Zenon
    <3> QED BY <3>2, <3>3, Zenon
  <2>2. ASSUME NEW x, x \in RC!Pages(rs[1]) \/ x \in RC!PagesOf(Tail(rs))
        PROVE  x \in RC!PagesOf(rs)
    <3>1. CASE x \in RC!Pages(rs[1])
      BY <3>1, <1>1, PagesOp, Zenon
    <3>2. CASE x \in RC!PagesOf(Tail(rs))
      <4>1. PICK k \in 1..Len(Tail(rs)) : x \in RC!Pages(Tail(rs)[k])
        BY <3>2, PagesOp, Zenon
      <4>2. k + 1 \in 1..Len(rs) /\ x \in RC!Pages(rs[k + 1])
        BY <4>1, <1>2, Zenon
      <4> QED BY <4>2, PagesOp, Zenon
    <3> QED BY <2>2, <3>1, <3>2, Zenon
  <2> QED BY <2>1, <2>2, Zenon
<1> QED BY <1>1, <1>2, <1>3, <1>4, Zenon

LEMMA Cut ==
  ASSUME NEW a \in Nat, NEW b \in Nat, NEW c \in Nat, NEW d \in Nat, c < d, c < b, a < d
  PROVE  /\ a < c /\ d < b => (a..(b - 1)) \ (c..(d - 1)) = (a..(c - 1)) \cup (d..(b - 1))
         /\ a < c /\ ~(d < b) => (a..(b - 1)) \ (c..(d - 1)) = a..(c - 1)
         /\ ~(a < c) /\ d < b => (a..(b - 1)) \ (c..(d - 1)) = d..(b - 1)
         /\ ~(a < c) /\ ~(d < b) => (a..(b - 1)) \ (c..(d - 1)) = {}
<1>1. a < c /\ d < b => (a..(b - 1)) \ (c..(d - 1)) = (a..(c - 1)) \cup (d..(b - 1))
  OBVIOUS
<1>2. a < c /\ ~(d < b) => (a..(b - 1)) \ (c..(d - 1)) = a..(c - 1)
  OBVIOUS
<1>3. ~(a < c) /\ d < b => (a..(b - 1)) \ (c..(d - 1)) = d..(b - 1)
  OBVIOUS
<1>4. ~(a < c) /\ ~(d < b) => (a..(b - 1)) \ (c..(d - 1)) = {}
  OBVIOUS
<1> QED BY <1>1, <1>2, <1>3, <1>4, Zenon

\* What clip_region leaves of a region: its pages outside the hole, in order, in two
\* pieces only if the hole is inside.
LEMMA ClipOp ==
  ASSUME NEW r \in RC!Region, r.start < r.end, NEW h \in RC!Region,
         NEW cs, cs = RC!ClipRegion(r, h)
  PROVE  /\ cs \in Seq(RC!Region)
         /\ \/ Len(cs) = 0 \/ Len(cs) = 1
            \/ Len(cs) = 2 /\ r.start < h.start /\ h.start < h.end /\ h.end < r.end
         /\ Within(cs, r.start, r.end)
         /\ RC!PagesOf(cs) = RC!Pages(r) \ RC!Pages(h)
<1> DEFINE p == [start |-> r.start, end |-> h.start]
           q == [start |-> h.end, end |-> r.end]
           away == h.start >= h.end \/ r.end <= h.start \/ r.start >= h.end
<1>1. /\ r.start \in Nat /\ r.end \in Nat /\ h.start \in Nat /\ h.end \in Nat
  BY RangeOp, Zenon
<1>2. p \in RC!Region /\ q \in RC!Region
  <2>1. r.start \in 0..MaxFrame /\ h.start \in 0..MaxFrame /\ h.end \in 0..MaxFrame /\ r.end \in 0..MaxFrame
    BY Zenon DEF RC!Region
  <2> QED BY <2>1, Zenon DEF RC!Region
<1>3. p.start = r.start /\ p.end = h.start /\ q.start = h.end /\ q.end = r.end
  BY Zenon
<1>5. CASE away
  <2>1. cs = <<r>>
    BY <1>5, Zenon DEF RC!ClipRegion
  <2>2. RC!Pages(r) \cap RC!Pages(h) = {}
    <3> DEFINE a == r.start
               b == r.end
               c == h.start
               d == h.end
    <3>1. a \in Nat /\ b \in Nat /\ c \in Nat /\ d \in Nat /\ (c >= d \/ b <= c \/ a >= d)
      BY <1>1, <1>5, Zenon
    <3> HIDE DEF a, b, c, d
    <3>2. (a..(b - 1)) \cap (c..(d - 1)) = {}
      BY <3>1
    <3> QED BY <3>2, Zenon DEF a, b, c, d, RC!Pages
  <2>3. r.start <= r.start /\ r.end <= r.end
    BY <1>1
  <2>4. RC!PagesOf(cs) = RC!Pages(r) \ RC!Pages(h)
    BY <2>1, <2>2, OneOp, Zenon
  <2>5. Within(cs, r.start, r.end)
    BY <2>1, <2>3, OneWithin, Zenon
  <2> QED BY <2>1, <2>4, <2>5, OneOp, Zenon
<1>6. CASE ~away
  <2>1. h.start < h.end /\ h.start < r.end /\ r.start < h.end
    BY <1>1, <1>6
  <2>2. cs = (IF r.start < h.start THEN <<p>> ELSE << >>) \o (IF r.end > h.end THEN <<q>> ELSE << >>)
    BY <1>6, Zenon DEF RC!ClipRegion
  <2> HIDE DEF p, q, away
  <2>7. /\ r.end > h.end <=> h.end < r.end
        /\ r.start <= r.start /\ r.end <= r.end /\ r.start <= h.end /\ h.start <= r.end
        /\ h.start <= h.end
    BY <2>1, <1>1
  <2>8. /\ r.start < h.start /\ h.end < r.end =>
             RC!Pages(r) \ RC!Pages(h) = RC!Pages(p) \cup RC!Pages(q)
        /\ r.start < h.start /\ ~(h.end < r.end) => RC!Pages(r) \ RC!Pages(h) = RC!Pages(p)
        /\ ~(r.start < h.start) /\ h.end < r.end => RC!Pages(r) \ RC!Pages(h) = RC!Pages(q)
        /\ ~(r.start < h.start) /\ ~(h.end < r.end) => RC!Pages(r) \ RC!Pages(h) = {}
    <3> DEFINE a == r.start
               b == r.end
               c == h.start
               d == h.end
    <3>1. a \in Nat /\ b \in Nat /\ c \in Nat /\ d \in Nat /\ c < d /\ c < b /\ a < d
      BY <1>1, <2>1, Zenon
    <3>2. /\ RC!Pages(r) = a..(b - 1) /\ RC!Pages(h) = c..(d - 1)
          /\ RC!Pages(p) = a..(c - 1) /\ RC!Pages(q) = d..(b - 1)
      BY <1>3, Zenon DEF RC!Pages
    <3> HIDE DEF a, b, c, d
    <3>3. /\ a < c /\ d < b => RC!Pages(r) \ RC!Pages(h) = RC!Pages(p) \cup RC!Pages(q)
          /\ a < c /\ ~(d < b) => RC!Pages(r) \ RC!Pages(h) = RC!Pages(p)
          /\ ~(a < c) /\ d < b => RC!Pages(r) \ RC!Pages(h) = RC!Pages(q)
          /\ ~(a < c) /\ ~(d < b) => RC!Pages(r) \ RC!Pages(h) = {}
      <4>1. /\ a < c /\ d < b => (a..(b - 1)) \ (c..(d - 1)) = (a..(c - 1)) \cup (d..(b - 1))
            /\ a < c /\ ~(d < b) => (a..(b - 1)) \ (c..(d - 1)) = a..(c - 1)
            /\ ~(a < c) /\ d < b => (a..(b - 1)) \ (c..(d - 1)) = d..(b - 1)
            /\ ~(a < c) /\ ~(d < b) => (a..(b - 1)) \ (c..(d - 1)) = {}
        BY <3>1, Cut, SMTT(30)
      <4> QED BY <4>1, <3>2, Zenon
    <3> QED BY <3>3, Zenon DEF a, b, c, d
  <2>3. CASE r.start < h.start /\ h.end < r.end
    <3>1. cs = <<p>> \o <<q>>
      BY <2>2, <2>3, <2>7, Zenon
    <3>2. cs = <<p, q>>
      BY <3>1, <1>2, PairOp, Zenon
    <3>3. RC!PagesOf(cs) = RC!Pages(r) \ RC!Pages(h)
      BY <3>2, <2>3, <2>8, <1>2, TwoOp, Zenon
    <3>4. /\ r.start <= p.start /\ p.start < p.end /\ p.end <= q.start
          /\ q.start < q.end /\ q.end <= r.end /\ r.start <= q.start /\ p.end <= r.end
      BY <2>3, <2>7, <1>3, Zenon
    <3>5. Within(cs, r.start, r.end)
      BY <3>2, <3>4, <1>2, TwoWithin, Zenon
    <3>6. cs \in Seq(RC!Region) /\ Len(cs) = 2
      <4>1. <<p, q>> \in Seq(RC!Region) /\ Len(<<p, q>>) = 2
        BY <1>2, TwoOp, Zenon
      <4> QED BY <4>1, <3>2, Zenon
    <3> QED BY <3>3, <3>5, <3>6, <2>1, <2>3, Zenon
  <2>4. CASE r.start < h.start /\ ~(h.end < r.end)
    <3>1. cs = <<p>> \o << >>
      BY <2>2, <2>4, <2>7, Zenon
    <3>2. cs = <<p>>
      BY <3>1
    <3>3. RC!PagesOf(cs) = RC!Pages(r) \ RC!Pages(h)
      BY <3>2, <2>4, <2>8, <1>2, OneOp, Zenon
    <3>4. r.start <= p.start /\ p.start < p.end /\ p.end <= r.end
      BY <2>4, <2>7, <1>3, Zenon
    <3>5. Within(cs, r.start, r.end)
      BY <3>2, <3>4, <1>2, OneWithin, Zenon
    <3> QED BY <3>2, <3>3, <3>5, <1>2, OneOp, Zenon
  <2>5. CASE ~(r.start < h.start) /\ h.end < r.end
    <3>1. cs = << >> \o <<q>>
      BY <2>2, <2>5, <2>7, Zenon
    <3>2. cs = <<q>>
      BY <3>1
    <3>3. RC!PagesOf(cs) = RC!Pages(r) \ RC!Pages(h)
      BY <3>2, <2>5, <2>8, <1>2, OneOp, Zenon
    <3>4. r.start <= q.start /\ q.start < q.end /\ q.end <= r.end
      BY <2>5, <2>7, <1>3, Zenon
    <3>5. Within(cs, r.start, r.end)
      BY <3>2, <3>4, <1>2, OneWithin, Zenon
    <3> QED BY <3>2, <3>3, <3>5, <1>2, OneOp, Zenon
  <2>6. CASE ~(r.start < h.start) /\ ~(h.end < r.end)
    <3>1. cs = << >> \o << >>
      BY <2>2, <2>6, <2>7, Zenon
    <3>2. cs = << >>
      BY <3>1
    <3> QED BY <3>2, <2>6, <2>8, NoneOp, Zenon DEF Within
  <2> QED BY <2>3, <2>4, <2>5, <2>6, Zenon
<1> QED BY <1>5, <1>6, Zenon

(***************************************************************************)
(* Powers of two                                                           *)
(***************************************************************************)

\* Twice a power of two is one: an odd divisor of it divides the half.
LEMMA Doubled == ASSUME NEW x \in Nat \ {0}, PowerOfTwo(x) PROVE PowerOfTwo(2 * x)
<1> SUFFICES ASSUME NEW d \in 2..(2 * x), NEW q \in 1..(2 * x), 2 * x = d * q, d % 2 # 0
             PROVE  FALSE
  BY Zenon DEF PowerOfTwo
<1>1. PICK e \in Nat : d = 2 * e + 1
  <2>1. d \in Nat
    OBVIOUS
  <2> QED BY <2>1, d = 2 * (d \div 2) + 1, d \div 2 \in Nat, Zenon
<1>2. PICK j \in Nat : q = 2 * j \/ q = 2 * j + 1
  <2>1. q \in Nat
    OBVIOUS
  <2> QED BY <2>1, q \div 2 \in Nat, q = 2 * (q \div 2) \/ q = 2 * (q \div 2) + 1, Zenon
<1>3. CASE q = 2 * j
  <2>1. x = d * j
    BY <1>3
  <2>2. j \in 1..x /\ d \in 2..x
    BY <2>1, <1>3
  <2> QED BY <2>1, <2>2, Zenon DEF PowerOfTwo
<1>4. CASE q = 2 * j + 1
  <2>1. e * j \in Nat
    OBVIOUS
  <2>2. d * q = 2 * (2 * (e * j) + e + j) + 1
    BY <1>1, <1>4
  <2> QED BY <2>1, <2>2
<1> QED BY <1>2, <1>3, <1>4, Zenon

\* checked_next_power_of_two: there is a power of two between n and 2n.
LEMMA PowersReach == \A n \in Nat \ {0} : \E x \in n..(2 * n) : PowerOfTwo(x)
<1> DEFINE Bad == {n \in Nat \ {0} : \A x \in n..(2 * n) : ~PowerOfTwo(x)}
<1> SUFFICES ASSUME Bad # {} PROVE FALSE
  BY Zenon
<1> DEFINE m == Min(Bad)
<1>1. m \in Bad /\ \A n \in Bad : m <= n
  BY MinOp, Bad \in SUBSET Nat, Zenon
<1>2. m \in Nat \ {0} /\ \A x \in m..(2 * m) : ~PowerOfTwo(x)
  BY <1>1, Zenon
<1>3. PowerOfTwo(1)
  BY DEF PowerOfTwo
<1> HIDE DEF m
<1>4. m # 1
  BY <1>2, <1>3
<1>5. m - 1 \in Nat \ {0} /\ m - 1 \notin Bad
  BY <1>1, <1>2, <1>4
<1>6. PICK x \in (m - 1)..(2 * (m - 1)) : PowerOfTwo(x)
  BY <1>5, Zenon
<1>7. x = m - 1
  BY <1>2, <1>6
<1>8. PowerOfTwo(2 * x)
  BY <1>5, <1>6, <1>7, Doubled, Zenon
<1>9. 2 * x \in m..(2 * m)
  BY <1>4, <1>2, <1>7
<1> QED BY <1>2, <1>8, <1>9, Zenon

LEMMA NextPower ==
  ASSUME NEW n \in Nat \ {0}
  PROVE  /\ NextPowerOfTwo(n) \in Nat \ {0} /\ NextPowerOfTwo(n) >= n
         /\ PowerOfTwo(NextPowerOfTwo(n))
<1> DEFINE S == {x \in n..(2 * n) : PowerOfTwo(x)}
<1>1. S \in SUBSET Nat /\ S # {}
  <2>1. S \subseteq n..(2 * n) /\ n..(2 * n) \subseteq Nat
    OBVIOUS
  <2> QED BY <2>1, PowersReach, Zenon
<1>2. Min(S) \in S
  BY <1>1, MinOp, Zenon
<1>3. Min(S) \in Nat \ {0} /\ Min(S) >= n
  BY <1>2
<1> QED BY <1>2, <1>3, Zenon DEF NextPowerOfTwo

LEMMA Halved ==
  ASSUME NEW p \in Nat \ {0}, p # 1, PowerOfTwo(p)
  PROVE  \E x \in Nat \ {0} : p = 2 * x /\ PowerOfTwo(x)
<1>1. p % 2 = 0
  <2>1. p \in 2..p /\ 1 \in 1..p /\ p = p * 1
    OBVIOUS
  <2> QED BY <2>1, Zenon DEF PowerOfTwo
<1>2. PICK x \in Nat : p = 2 * x
  BY <1>1, Multiple, 2 \in Nat \ {0}, Zenon
<1>3. x \in Nat \ {0}
  BY <1>2
<1>4. ASSUME NEW d \in 2..x, NEW q \in 1..x, x = d * q PROVE d % 2 = 0
  <2>1. d \in 2..p /\ 2 * q \in 1..p /\ p = d * (2 * q)
    BY <1>2, <1>4
  <2> QED BY <2>1, Zenon DEF PowerOfTwo
<1>5. PowerOfTwo(x)
  BY <1>4, Zenon DEF PowerOfTwo
<1> QED BY <1>2, <1>3, <1>5, Zenon

\* Of two powers of two the smaller divides the larger.
LEMMA PowerDivides ==
  \A c \in Nat \ {0} : \A p \in Nat \ {0} :
    PowerOfTwo(c) /\ PowerOfTwo(p) /\ c <= p => \E q \in Nat \ {0} : p = c * q
<1> DEFINE Good(c) == \A p \in Nat \ {0} :
                        PowerOfTwo(c) /\ PowerOfTwo(p) /\ c <= p => \E q \in Nat \ {0} : p = c * q
           Bad == {c \in Nat \ {0} : ~Good(c)}
<1> SUFFICES ASSUME Bad # {} PROVE FALSE
  BY Zenon
<1> DEFINE m == Min(Bad)
<1>1. m \in Bad /\ \A n \in Bad : m <= n
  BY MinOp, Bad \in SUBSET Nat, Zenon
<1>2. m \in Nat \ {0} /\ ~Good(m)
  BY <1>1, Zenon
<1>3. PICK p \in Nat \ {0} : /\ PowerOfTwo(m) /\ PowerOfTwo(p) /\ m <= p
                             /\ \A q \in Nat \ {0} : p # m * q
  BY <1>2, Zenon
<1> HIDE DEF m
<1>4. m # 1
  BY <1>3
<1>5. p # 1
  BY <1>2, <1>3, <1>4
<1>6. PICK n \in Nat \ {0} : m = 2 * n /\ PowerOfTwo(n)
  BY <1>2, <1>3, <1>4, Halved, Zenon
<1>7. PICK x \in Nat \ {0} : p = 2 * x /\ PowerOfTwo(x)
  BY <1>3, <1>5, Halved, Zenon
<1>8. n \notin Bad
  <2>1. ~(m <= n)
    BY <1>6
  <2> QED BY <2>1, <1>1, Zenon
<1>9. n <= x
  BY <1>3, <1>6, <1>7
<1>10. PICK q \in Nat \ {0} : x = n * q
  BY <1>6, <1>7, <1>8, <1>9, Zenon
<1>11. p = m * q
  BY <1>6, <1>7, <1>10
<1> QED BY <1>3, <1>11, Zenon

\* What is left of a power of two when it is divided is one.
LEMMA QuotientPower ==
  ASSUME NEW c \in Nat \ {0}, NEW q \in Nat \ {0}, PowerOfTwo(c * q)
  PROVE  PowerOfTwo(q)
<1> SUFFICES ASSUME NEW d \in 2..q, NEW e \in 1..q, q = d * e PROVE d % 2 = 0
  BY Zenon DEF PowerOfTwo
<1> DEFINE p == c * q
<1>1. p \in Nat \ {0} /\ q <= p
  OBVIOUS
<1>2. c * e \in Nat \ {0} /\ p = d * (c * e)
  OBVIOUS
<1>3. c * e <= p
  OBVIOUS
<1>4. d \in 2..p /\ c * e \in 1..p
  <2>1. d \in Nat /\ 2 <= d /\ d <= q
    OBVIOUS
  <2> HIDE DEF p
  <2> QED BY <1>1, <1>2, <1>3, <2>1
<1> QED BY <1>2, <1>4, Zenon DEF PowerOfTwo

(***************************************************************************)
(* Size classes, blocks and pages                                          *)
(***************************************************************************)

LEMMA PageOp == Page \in Nat \ {0} /\ PowerOfTwo(Page) /\ GrowPages \in Nat \ {0} /\ MaxFrame \in Nat
<1>1. GrowPages \in 1..MaxCount /\ MaxCount \in Nat
  BY SlabAssumption, FrameAssumption, Zenon
<1>2. GrowPages \in Nat \ {0}
  BY <1>1
<1> QED BY <1>2, SlabAssumption, FrameAssumption, Zenon

\* A page holds a whole number of blocks of each class.
LEMMA ClassOp ==
  ASSUME NEW c \in Classes
  PROVE  /\ c \in Nat \ {0} /\ c <= Page /\ c # Large /\ PowerOfTwo(c)
         /\ \E q \in Nat \ {0} : Page = c * q
<1>1. c \in 1..Page /\ PowerOfTwo(c)
  BY Zenon DEF Classes
<1>2. c \in Nat \ {0} /\ c <= Page
  BY <1>1, PageOp
<1>3. c # Large
  BY <1>2, Zenon DEF Large
<1> QED BY <1>1, <1>2, <1>3, PageOp, PowerDivides, Zenon

\* class_for finds a class for what is not large.
LEMMA ClassForOp ==
  ASSUME NEW l \in Layouts
  PROVE  /\ l.size \in Nat /\ l.align \in Nat \ {0} /\ PowerOfTwo(l.align)
         /\ \/ ClassFor(l) = Large
            \/ ClassFor(l) \in Classes /\ l.size <= ClassFor(l) /\ l.align <= ClassFor(l)
<1> DEFINE S == {c \in Classes : l.size <= c /\ l.align <= c}
<1>1. l.size \in Nat /\ l.align \in Nat \ {0} /\ PowerOfTwo(l.align)
  BY SlabAssumption, Zenon
<1>2. CASE l.size > Page \/ l.align > Page
  BY <1>1, <1>2, Zenon DEF ClassFor
<1>3. CASE ~(l.size > Page \/ l.align > Page)
  <2>1. Page \in Classes
    <3>1. Page \in 1..Page
      BY PageOp
    <3> QED BY <3>1, PageOp, Zenon DEF Classes
  <2>2. Page \in S
    <3>1. l.size <= Page /\ l.align <= Page
      BY <1>1, <1>3, PageOp
    <3> QED BY <2>1, <3>1, Zenon
  <2>3. S \in SUBSET Nat
    BY ClassOp, Zenon
  <2>4. Min(S) \in S
    BY <2>2, <2>3, MinOp, Zenon
  <2>5. ClassFor(l) = Min(S)
    BY <1>3, Zenon DEF ClassFor
  <2> QED BY <1>1, <2>4, <2>5, Zenon
<1> QED BY <1>2, <1>3, Zenon

\* The bootstrap area has a page of its own for each class, after all of memory.
BootPagesApart ==
  /\ \A c \in Classes : BootPage(c) \in MaxFrame..(MaxFrame + Cardinality(Classes) - 1)
  /\ \A c, d \in Classes : c # d => BootPage(c) # BootPage(d)

\* Addresses between two page boundaries are on the pages between them.
LEMMA PageRange ==
  ASSUME NEW a \in Nat, NEW p \in Nat \ {0}, NEW n \in Nat, NEW k \in Nat,
         p * n <= a, a < p * (n + k)
  PROVE  a \div p \in n..(n + k - 1)
<1> DEFINE m == a \div p
<1>1. m \in Nat /\ a % p \in 0..(p - 1) /\ a = p * m + (a % p)
  BY DivOp, Zenon
<1> HIDE DEF m
<1>2. a < p * (m + 1) /\ p * m <= a
  BY <1>1
<1>3. n <= m
  <2> SUFFICES ASSUME m + 1 <= n PROVE FALSE
    BY <1>1
  <2>1. p * (m + 1) <= p * n
    BY <1>1
  <2> QED BY <2>1, <1>1, <1>2
<1>4. m < n + k
  <2> SUFFICES ASSUME n + k <= m PROVE FALSE
    BY <1>1
  <2>1. p * (n + k) <= p * m
    BY <1>1
  <2> QED BY <2>1, <1>1, <1>2
<1>5. m \in n..(n + k - 1)
  BY <1>1, <1>3, <1>4
<1> QED BY <1>5, Zenon DEF m

\* A block does not cross a page boundary.
LEMMA OnOnePage ==
  ASSUME NEW c \in Classes, NEW a \in Nat, a % c = 0, NEW u \in Units(a, c)
  PROVE  u \in Nat /\ u \div Page = a \div Page
<1>1. c \in Nat \ {0} /\ Page \in Nat \ {0}
  BY ClassOp, PageOp, Zenon
<1>2. PICK q \in Nat \ {0} : Page = c * q
  BY ClassOp, Zenon
<1>3. PICK i \in Nat : a = c * i
  BY <1>1, Multiple, Zenon
<1>4. u \in a..(a + c - 1)
  BY Zenon DEF Units
<1>5. u \in Nat /\ a <= u /\ u < a + c
  BY <1>1, <1>4
<1> DEFINE n == a \div Page
<1>6. n \in Nat /\ Page * n <= a /\ a < Page * (n + 1)
  <2>1. n \in Nat /\ a % Page \in 0..(Page - 1) /\ a = Page * n + (a % Page)
    BY <1>1, DivOp, Zenon
  <2> HIDE DEF n
  <2> QED BY <1>1, <2>1
<1> HIDE DEF n
<1>7. i + 1 <= q * (n + 1)
  <2>1. c * i < c * (q * (n + 1))
    BY <1>1, <1>2, <1>3, <1>6
  <2>2. q * (n + 1) \in Nat
    BY <1>6
  <2> DEFINE s == q * (n + 1)
  <2> HIDE DEF s
  <2>3. ASSUME s <= i PROVE FALSE
    <3>1. s \in Nat /\ c * i < c * s
      BY <2>1, <2>2, Zenon DEF s
    <3>2. c * s <= c * i
      BY <3>1, <2>3, <1>1
    <3>3. c * s \in Nat /\ c * i \in Nat
      BY <3>1, <1>1
    <3> QED BY <3>1, <3>2, <3>3
  <2>4. i + 1 <= s
    BY <2>2, <2>3 DEF s
  <2> QED BY <2>4, Zenon DEF s
<1>8. a + c <= Page * (n + 1)
  <2> DEFINE s == q * (n + 1)
  <2>1. s \in Nat /\ i + 1 <= s
    BY <1>6, <1>7
  <2>2. Page * (n + 1) = c * s
    BY <1>1, <1>2, <1>6
  <2> HIDE DEF s
  <2>3. c * (i + 1) <= c * s
    BY <2>1, <1>1
  <2>4. c * (i + 1) = a + c
    BY <1>1, <1>3
  <2> QED BY <2>2, <2>3, <2>4, Zenon
<1>9. Page * n <= u /\ u < Page * (n + 1)
  <2>1. Page * n \in Nat /\ Page * (n + 1) \in Nat
    BY <1>1, <1>6
  <2> QED BY <2>1, <1>5, <1>6, <1>8, <1>1
<1>10. u \div Page \in n..(n + 1 - 1)
  BY <1>1, <1>5, <1>6, <1>9, PageRange, 1 \in Nat, Zenon
<1>11. n..(n + 1 - 1) = {n}
  BY <1>6
<1> QED BY <1>5, <1>10, <1>11, Zenon DEF n

\* Two blocks of a class that share an address are the same.
LEMMA OneBlock ==
  ASSUME NEW c \in Nat \ {0}, NEW a \in Nat, NEW b \in Nat, a % c = 0, b % c = 0,
         NEW u, u \in Units(a, c), u \in Units(b, c)
  PROVE  a = b
<1>1. u \in Nat /\ a <= u /\ u < a + c /\ b <= u /\ u < b + c
  BY DEF Units
<1>2. PICK i \in Nat : a = c * i
  BY Multiple, Zenon
<1>3. PICK j \in Nat : b = c * j
  BY Multiple, Zenon
<1>4. ASSUME NEW x \in Nat, NEW y \in Nat, x < y PROVE c * x + c <= c * y
  <2>1. c * (x + 1) <= c * y
    BY <1>4
  <2> QED BY <2>1
<1>5. ~(i < j) /\ ~(j < i)
  <2>1. i < j => a + c <= b
    BY <1>2, <1>3, <1>4, Zenon
  <2>2. j < i => b + c <= a
    BY <1>2, <1>3, <1>4, Zenon
  <2> QED BY <2>1, <2>2, <1>1
<1>6. i = j
  BY <1>5
<1> QED BY <1>2, <1>3, <1>6, Zenon

\* The blocks FreeList::new cuts k pages into.
LEMMA BlocksOp ==
  ASSUME NEW c \in Classes, NEW n \in Nat, NEW k \in Nat \ {0},
         NEW a \in Blocks(c, n * Page, k * Page)
  PROVE  a \in Nat /\ a % c = 0 /\ a \div Page \in n..(n + k - 1)
<1>1. c \in Nat \ {0} /\ Page \in Nat \ {0}
  BY ClassOp, PageOp, Zenon
<1>2. PICK q \in Nat \ {0} : Page = c * q
  BY ClassOp, Zenon
<1>3. PICK i \in 0..((k * Page) \div c - 1) : a = n * Page + i * c
  BY Zenon DEF Blocks
<1>4. (k * Page) \div c = k * q
  <2>1. k * Page \in Nat /\ k * q \in Nat /\ 0 \in 0..(c - 1)
    BY <1>1
  <2>2. k * Page = c * (k * q) + 0
    BY <1>1, <1>2
  <2> QED BY <1>1, <2>1, <2>2, DivIs, Zenon
<1>5. i \in Nat /\ i + 1 <= k * q
  <2>1. k * q \in Nat /\ i \in 0..(k * q - 1)
    BY <1>3, <1>4
  <2> QED BY <2>1
<1>6. n * q + i \in Nat /\ a = c * (n * q + i)
  BY <1>1, <1>2, <1>3, <1>5
<1>7. a \in Nat
  BY <1>1, <1>6
<1>8. a % c = 0
  BY <1>1, <1>6, <1>7, Multiple, Zenon
<1>9. Page * n <= a /\ a < Page * (n + k)
  <2>1. Page * n \in Nat /\ i * c \in Nat /\ a = Page * n + i * c
    BY <1>1, <1>3, <1>5
  <2>2. c * (i + 1) <= c * (k * q)
    <3> DEFINE s == k * q
    <3>1. s \in Nat /\ i + 1 <= s
      BY <1>5
    <3> HIDE DEF s
    <3>2. c * (i + 1) <= c * s
      BY <3>1, <1>1, <1>5
    <3> QED BY <3>2, Zenon DEF s
  <2>3. c * (i + 1) = i * c + c /\ c * (k * q) = Page * k
    BY <1>1, <1>2, <1>5
  <2>4. i * c + c <= Page * k
    BY <2>2, <2>3, Zenon
  <2>5. Page * (n + k) = Page * n + Page * k /\ Page * k \in Nat
    BY <1>1
  <2> QED BY <1>1, <2>1, <2>4, <2>5
<1>10. k \in Nat
  OBVIOUS
<1> QED BY <1>1, <1>7, <1>8, <1>9, <1>10, PageRange, Zenon

(***************************************************************************)
(* Large objects                                                           *)
(***************************************************************************)

\* A large object takes a page or more.
LEMMA PagesOpHeap == \A u \in Nat \ {0} : Pages(u) \in Nat \ {0}
<1> SUFFICES ASSUME NEW u \in Nat \ {0} PROVE Pages(u) \in Nat \ {0}
  BY Zenon
<1>1. Page \in Nat \ {0}
  BY SlabAssumption, Zenon
<1>2. u + Page - 1 \in Nat /\ u + Page - 1 >= Page
  BY <1>1
<1>3. \A x \in Nat : x >= Page => x \div Page \in Nat \ {0}
  BY <1>1
<1> QED BY <1>2, <1>3, Zenon DEF Pages

LEMMA LargeOp == \A l \in Layouts : LargeExtentFrames(l) \in Nat \ {0}
<1> SUFFICES ASSUME NEW l \in Layouts PROVE LargeExtentFrames(l) \in Nat \ {0}
  BY Zenon
<1>1. l.size \in Nat /\ l.align \in Nat \ {0}
  BY SlabAssumption, Zenon
<1>2. Max({l.size, 1}) \in Nat \ {0}
  <2>1. 1 \in Nat
    BY Zenon
  <2>2. Max({l.size, 1}) \in {l.size, 1} /\ 1 <= Max({l.size, 1})
    BY <2>1, <1>1, MaxOp, Zenon
  <2> QED BY <2>2, <1>1
<1>3. Pages(Max({l.size, 1})) \in Nat \ {0} /\ Pages(l.align) \in Nat \ {0}
  BY <1>1, <1>2, PagesOpHeap, Zenon
<1>4. LargeExtentFrames(l) \in {Pages(Max({l.size, 1})), Pages(l.align)}
  BY <1>3, MaxOp, Zenon DEF LargeExtentFrames
<1> QED BY <1>3, <1>4, Zenon

LEMMA PagesCover ==
  ASSUME NEW u \in Nat \ {0}
  PROVE  Pages(u) \in Nat \ {0} /\ u <= Page * Pages(u)
<1> DEFINE x == u + Page - 1
           n == x \div Page
<1>1. Page \in Nat \ {0} /\ x \in Nat
  BY PageOp
<1>2. n \in Nat /\ x % Page \in 0..(Page - 1) /\ x = Page * n + (x % Page)
  BY <1>1, DivOp, Zenon
<1>3. Pages(u) = n
  BY Zenon DEF Pages
<1>4. u <= Page * n
  <2>1. Page * n \in Nat
    BY <1>1, <1>2
  <2> DEFINE y == Page * n
             z == x % Page
  <2>2. y \in Nat /\ z \in 0..(Page - 1) /\ u + Page - 1 = y + z
    BY <1>2, <2>1, Zenon
  <2> HIDE DEF y, z, x, n
  <2>3. u <= y
    BY <2>2, <1>1
  <2> QED BY <2>3, Zenon DEF y
<1> QED BY <1>3, <1>4, PagesOpHeap, Zenon

\* A large object lies in its extent ...
LEMMA LargeWithin ==
  ASSUME NEW l \in Layouts, NEW n \in Nat, NEW u \in Units(n * Page, l.size)
  PROVE  u \in Nat /\ u \div Page \in n..(n + LargeExtentFrames(l) - 1)
<1> DEFINE k == LargeExtentFrames(l)
           a == n * Page
<1>1. l.size \in Nat /\ l.align \in Nat \ {0} /\ Page \in Nat \ {0} /\ k \in Nat \ {0} /\ a \in Nat
  <2>1. Page \in Nat \ {0}
    BY PageOp, Zenon
  <2>2. a \in Nat
    BY <2>1
  <2> QED BY <2>1, <2>2, ClassForOp, LargeOp, Zenon
<1>2. u \in a..(a + l.size - 1)
  BY Zenon DEF Units
<1>3. a = Page * n
  BY <1>1
<1> HIDE DEF a
<1>4. u \in Nat /\ a <= u /\ u < a + l.size /\ l.size \in Nat \ {0}
  BY <1>1, <1>2
<1>5. Max({l.size, 1}) = l.size
  <2>1. Max({l.size, 1}) \in {l.size, 1} /\ l.size <= Max({l.size, 1})
    BY <1>1, MaxOp, 1 \in Nat, Zenon
  <2> QED BY <2>1, <1>4
<1>6. Pages(l.size) \in Nat \ {0} /\ Pages(l.align) \in Nat \ {0} /\ l.size <= Page * Pages(l.size)
  BY <1>1, <1>4, PagesCover, Zenon
<1>7. Pages(l.size) <= k
  <2>1. k = Max({Pages(l.size), Pages(l.align)})
    BY <1>5, Zenon DEF LargeExtentFrames
  <2> HIDE DEF k
  <2> QED BY <2>1, <1>6, MaxOp, Zenon
<1> HIDE DEF k
<1>8. l.size <= Page * k
  <2> DEFINE s == Pages(l.size)
  <2>1. s \in Nat /\ s <= k /\ l.size <= Page * s
    BY <1>6, <1>7, Zenon
  <2> HIDE DEF s
  <2>2. Page * s <= Page * k
    BY <1>1, <2>1
  <2>3. Page * s \in Nat /\ Page * k \in Nat
    BY <1>1, <2>1
  <2> QED BY <1>1, <2>1, <2>2, <2>3
<1>9. Page * n <= u /\ u < Page * (n + k)
  <2>1. Page * (n + k) = Page * n + Page * k /\ Page * n \in Nat /\ Page * k \in Nat
    BY <1>1
  <2> QED BY <2>1, <1>1, <1>3, <1>4, <1>8
<1>10. u \div Page \in n..(n + k - 1)
  BY <1>1, <1>4, <1>9, PageRange, Zenon
<1> QED BY <1>4, <1>10, Zenon DEF k

LEMMA AlignOp ==
  ASSUME NEW l \in Layouts
  PROVE  \/ \E q \in Nat \ {0} : Page = l.align * q
         \/ \E k \in Nat \ {0} : PowerOfTwo(k) /\ l.align = Page * k
<1>1. Page \in Nat \ {0} /\ PowerOfTwo(Page)
  BY PageOp, Zenon
<1>2. l.align \in Nat \ {0} /\ PowerOfTwo(l.align)
  BY ClassForOp, Zenon
<1> DEFINE a == l.align
<1> HIDE DEF a
<1>3. a \in Nat \ {0} /\ PowerOfTwo(a)
  BY <1>2, Zenon DEF a
<1>4. CASE a <= Page
  <2>1. \E q \in Nat \ {0} : Page = a * q
    BY <1>1, <1>3, <1>4, PowerDivides, Zenon
  <2> QED BY <2>1, Zenon DEF a
<1>5. CASE Page <= a
  <2>1. PICK k \in Nat \ {0} : a = Page * k
    BY <1>1, <1>3, <1>5, PowerDivides, Zenon
  <2>2. PowerOfTwo(Page * k)
    BY <1>3, <2>1, Zenon
  <2>3. PowerOfTwo(k)
    BY <1>1, <2>2, QuotientPower, Zenon
  <2> QED BY <2>1, <2>3, Zenon DEF a
<1>6. a <= Page \/ Page <= a
  BY <1>1, <1>3
<1> QED BY <1>4, <1>5, <1>6, Zenon

\* ... and is aligned as the extent is: to the pages of its alignment, if that is
\* larger than a page.
LEMMA LargeAligned ==
  ASSUME NEW l \in Layouts, NEW n \in Nat, NEW s \in Nat \ {0},
         PowerOfTwo(s), LargeExtentFrames(l) <= s, n % s = 0
  PROVE  (n * Page) % l.align = 0
<1>1. Page \in Nat \ {0} /\ l.align \in Nat \ {0}
  BY PageOp, ClassForOp, Zenon
<1>2. n * Page \in Nat
  BY <1>1
<1> SUFFICES \E j \in Nat : n * Page = l.align * j
  BY <1>1, <1>2, Multiple, Zenon
<1>3. CASE \E q \in Nat \ {0} : Page = l.align * q
  <2>1. PICK q \in Nat \ {0} : Page = l.align * q
    BY <1>3, Zenon
  <2>2. n * q \in Nat /\ n * Page = l.align * (n * q)
    BY <1>1, <2>1
  <2> QED BY <2>2, Zenon
<1>4. CASE \E k \in Nat \ {0} : PowerOfTwo(k) /\ l.align = Page * k
  <2>1. PICK k \in Nat \ {0} : PowerOfTwo(k) /\ l.align = Page * k
    BY <1>4, Zenon
  <2>3. Pages(l.align) = k
    <3>1. l.align + Page - 1 \in Nat /\ Page - 1 \in 0..(Page - 1)
      BY <1>1
    <3>2. l.align + Page - 1 = Page * k + (Page - 1)
      BY <1>1, <2>1
    <3> QED BY <1>1, <3>1, <3>2, DivIs, Zenon DEF Pages
  <2>4. k <= s
    <3>1. Max({l.size, 1}) \in Nat \ {0}
      <4>1. Max({l.size, 1}) \in {l.size, 1} /\ 1 <= Max({l.size, 1}) /\ l.size \in Nat
        BY ClassForOp, MaxOp, 1 \in Nat, Zenon
      <4> QED BY <4>1
    <3>2. Pages(Max({l.size, 1})) \in Nat
      BY <3>1, PagesCover, Zenon
    <3>3. k <= LargeExtentFrames(l)
      BY <2>3, <3>2, MaxOp, k \in Nat, Zenon DEF LargeExtentFrames
    <3>4. LargeExtentFrames(l) \in Nat
      BY LargeOp, Zenon
    <3> QED BY <3>3, <3>4
  <2>5. PICK j \in Nat \ {0} : s = k * j
    BY <2>1, <2>4, PowerDivides, Zenon
  <2>6. PICK i \in Nat : n = s * i
    BY Multiple, Zenon
  <2>7. j * i \in Nat /\ n * Page = l.align * (j * i)
    BY <1>1, <2>1, <2>5, <2>6
  <2> QED BY <2>7, Zenon
<1> QED BY <1>3, <1>4, AlignOp, Zenon

\* A small object is aligned as its class is.
LEMMA SmallAligned ==
  ASSUME NEW l \in Layouts, ClassFor(l) # Large, NEW a \in Nat, a % ClassFor(l) = 0
  PROVE  a % l.align = 0
<1> DEFINE c == ClassFor(l)
<1>1. c \in Classes /\ l.align <= c /\ l.align \in Nat \ {0} /\ PowerOfTwo(l.align)
  BY ClassForOp, Zenon
<1>2. c \in Nat \ {0} /\ PowerOfTwo(c)
  BY <1>1, ClassOp, Zenon
<1> HIDE DEF c
<1>3. PICK q \in Nat \ {0} : c = l.align * q
  BY <1>1, <1>2, PowerDivides, Zenon
<1>4. PICK i \in Nat : a = c * i
  BY <1>2, Multiple, Zenon DEF c
<1>5. q * i \in Nat /\ a = l.align * (q * i)
  BY <1>1, <1>3, <1>4
<1> QED BY <1>1, <1>5, Multiple, Zenon

(***************************************************************************)
(* Extents                                                                 *)
(***************************************************************************)

\* An extent has the frames asked for, is aligned to its size, and lies below the
\* bootstrap area: all that is registered does.
LEMMA OwnedOp ==
  ASSUME FrameInv, BootInv, MemoryBelow, NEW e \in owned
  PROVE  /\ e.ppn \in Nat /\ e.count \in Nat \ {0}
         /\ Size(e) \in Nat \ {0} /\ PowerOfTwo(Size(e)) /\ e.count <= Size(e)
         /\ e.ppn % Size(e) = 0
         /\ FramesOf(e) \subseteq 0..(MaxFrame - 1)
         /\ \A k \in e.ppn..(e.ppn + e.count - 1) : k \in FramesOf(e)
         /\ \A f \in owned : f # e => FramesOf(e) \cap FramesOf(f) = {}
<1>1. e \in Extent /\ regions \in Seq(Region)
  BY Zenon DEF FrameInv, TypeOK
<1>2. e.ppn \in Nat /\ e.count \in Nat \ {0}
  BY <1>1 DEF Extent
<1>3. Size(e) \in Nat \ {0} /\ PowerOfTwo(Size(e)) /\ e.count <= Size(e)
  <2>1. Size(e) \in Nat \ {0} /\ PowerOfTwo(Size(e)) /\ Size(e) >= e.count
    BY <1>2, NextPower, Zenon DEF Size
  <2> QED BY <2>1, <1>2
<1>4. e.ppn % Size(e) = 0
  BY Zenon DEF FrameInv, Exclusive
<1>5. PICK i \in 1..Len(regions) : FramesOf(e) \subseteq FirstFrame(regions[i])..LastFrame(regions[i])
  BY Zenon DEF FrameInv, Exclusive
<1>6. FramesOf(e) \subseteq Managed
  BY <1>5, Zenon DEF Managed
<1>7. phase # "collect"
  <2> SUFFICES ASSUME phase = "collect" PROVE FALSE
    OBVIOUS
  <2>1. regions = <<>>
    BY Zenon DEF BootInv, BootTypeOK
  <2>2. 1..Len(regions) = {}
    BY <2>1
  <2> QED BY <2>2, <1>5, Zenon
<1>8. Managed \subseteq usable
  <2>1. phase \in {"register", "run"}
    BY <1>7, Zenon DEF BootInv, BootTypeOK
  <2> QED BY <2>1, Zenon DEF BootInv, Whereabouts
<1>9. FramesOf(e) \subseteq 0..(MaxFrame - 1)
  BY <1>6, <1>7, <1>8, Zenon DEF MemoryBelow
<1>10. ASSUME NEW k \in e.ppn..(e.ppn + e.count - 1) PROVE k \in FramesOf(e)
  <2>1. k \in e.ppn..(e.ppn + Size(e) - 1)
    BY <1>2, <1>3
  <2> QED BY <2>1, Zenon DEF FramesOf
<1>11. ASSUME NEW f \in owned, f # e PROVE FramesOf(e) \cap FramesOf(f) = {}
  BY <1>11, Zenon DEF FrameInv, Exclusive
<1> QED BY <1>2, <1>3, <1>4, <1>9, <1>10, <1>11, Zenon

\* The first frame of an extent is one of its frames.
LEMMA FirstOp ==
  ASSUME FrameInv, BootInv, MemoryBelow, NEW e \in owned
  PROVE  e.ppn \in FramesOf(e)
<1>1. e.ppn \in Nat /\ e.count \in Nat \ {0} /\ \A k \in e.ppn..(e.ppn + e.count - 1) : k \in FramesOf(e)
  BY OwnedOp, Zenon
<1>2. e.ppn \in e.ppn..(e.ppn + e.count - 1)
  BY <1>1
<1> QED BY <1>1, <1>2, Zenon

\* alloc_frames adds one extent.
LEMMA AllocOwned ==
  ASSUME FrameInv, FrameInv', NEW c \in Nat \ {0}, AllocFrames(c), NEW e \in owned' \ owned
  PROVE  e.count = c /\ e.ppn \in Nat /\ owned' = owned \cup {e} /\ e = [ppn |-> e.ppn, count |-> c]
<1> DEFINE fits == {k \in 1..Len(regions) : Candidate(regions[k], NextPowerOfTwo(c)) # {}}
           i == Min(fits)
<1>1. PICK o : owned' = owned \cup {[ppn |-> regions[i].start_ppn + o, count |-> c]}
  BY Zenon DEF AllocFrames
<1>2. e = [ppn |-> regions[i].start_ppn + o, count |-> c]
  BY <1>1, Zenon
<1>3. e.count = c /\ e = [ppn |-> e.ppn, count |-> c]
  BY <1>2, Zenon
<1>4. owned' = owned \cup {e}
  BY <1>1, <1>2, Zenon
<1>5. e.ppn \in Nat
  <2>1. e \in Extent
    BY Zenon DEF FrameInv, TypeOK
  <2> QED BY <2>1 DEF Extent
<1> QED BY <1>3, <1>4, <1>5, Zenon

LEMMA AllocMore ==
  ASSUME NEW c, AllocFrames(c)
  PROVE  owned \subseteq owned'
<1> DEFINE fits == {k \in 1..Len(regions) : Candidate(regions[k], NextPowerOfTwo(c)) # {}}
           i == Min(fits)
<1>1. PICK o : owned' = owned \cup {[ppn |-> regions[i].start_ppn + o, count |-> c]}
  BY Zenon DEF AllocFrames
<1> QED BY <1>1, Zenon

(***************************************************************************)
(* The inductive invariant of the heap                                     *)
(***************************************************************************)

LEMMA HeapStart == ASSUME BootPagesApart, HeapInit PROVE HeapInv
<1>1. /\ slabs = [c \in Classes |-> Blocks(c, Bootstrap(c), Page)]
      /\ live = {} /\ grown = {} /\ pc = [t \in Task |-> Idle]
      /\ phase = "collect"
  BY Zenon DEF HeapInit, MemInit
<1>2. ASSUME NEW c \in Classes, NEW a \in slabs[c]
      PROVE  a \in Nat /\ a % c = 0 /\ a \div Page = BootPage(c)
  <2>1. slabs[c] = Blocks(c, BootPage(c) * Page, Page)
    BY <1>1, Zenon DEF Bootstrap
  <2>2. BootPage(c) \in Nat /\ Page \in Nat \ {0}
    <3>1. BootPage(c) \in MaxFrame..(MaxFrame + Cardinality(Classes) - 1) /\ MaxFrame \in Nat
      BY PageOp, Zenon DEF BootPagesApart
    <3>2. BootPage(c) \in Nat
      BY <3>1
    <3> QED BY <3>2, PageOp, Zenon
  <2>3. Page = 1 * Page /\ 1 \in Nat \ {0}
    BY <2>2
  <2>4. a \in Blocks(c, BootPage(c) * Page, 1 * Page)
    BY <2>1, <2>3, Zenon
  <2>5. a \in Nat /\ a % c = 0 /\ a \div Page \in BootPage(c)..(BootPage(c) + 1 - 1)
    BY <2>2, <2>3, <2>4, BlocksOp, Zenon
  <2>6. a \div Page = BootPage(c)
    BY <2>2, <2>5
  <2> QED BY <2>5, <2>6, Zenon
<1>3. HeapTypeOK
  <2>1. slabs \in [Classes -> SUBSET Nat]
    <3>1. \A c \in Classes : slabs[c] \in SUBSET Nat
      BY <1>2, Zenon
    <3>2. slabs = [c \in Classes |-> slabs[c]]
      BY <1>1, Zenon
    <3> QED BY <3>1, <3>2, Zenon
  <2>2. DOMAIN pc = Task /\ \A t \in Task : pc[t].at = "idle"
    BY <1>1, Zenon DEF Idle
  <2>3. \A t \in Task : /\ pc[t].at \in {"idle", "dry", "grow", "retry"}
                        /\ pc[t].at # "idle" => pc[t].layout \in Small
                        /\ pc[t].at = "grow" => pc[t].extent.count = GrowPages
    BY <2>2
  <2> QED BY <1>1, <2>1, <2>2, <2>3, Zenon DEF HeapTypeOK
<1>4. ExtentsSound
  <2>1. \A t \in Task : pc[t].at # "grow"
    BY <1>1 DEF Idle
  <2>2. Growing = {} /\ Extents = {}
    BY <1>1, <2>1, Zenon DEF Growing, Extents
  <2> QED BY <1>1, <2>1, <2>2, Zenon DEF ExtentsSound
<1>5. BlocksPlaced /\ BlocksOnce
  <2>1. \A c \in Classes : Placed(c) = slabs[c]
    BY <1>1, Zenon DEF Placed, Taken
  <2>2. \A c \in Classes : \A a \in Placed(c) : a % c = 0 /\ a \div Page \in GrownPages \cup {BootPage(c)}
    BY <1>2, <2>1, Zenon
  <2>3. ASSUME NEW c \in Classes, NEW d \in Classes, NEW a \in Placed(c), NEW b \in Placed(d),
               a \div Page = b \div Page
        PROVE  c = d
    <3>1. BootPage(c) = BootPage(d)
      BY <1>2, <2>1, <2>3, Zenon
    <3> QED BY <3>1, Zenon DEF BootPagesApart
  <2> QED BY <1>1, <2>2, <2>3, Zenon DEF BlocksPlaced, BlocksOnce
<1>6. MemoryBelow
  BY <1>1, Zenon DEF MemoryBelow
<1> QED BY <1>3, <1>4, <1>5, <1>6, Zenon DEF HeapInv

\* The state of the heap and the frames it holds are left alone.
LEMMA HeapSame ==
  ASSUME HeapInv, UNCHANGED heapVars, MemoryBelow',
         \A e \in grown \cup Extents \cup Growing : e \in owned'
  PROVE  HeapInv'
<1>1. slabs' = slabs /\ live' = live /\ grown' = grown /\ pc' = pc
  BY Zenon DEF heapVars
<1>2. Extents' = Extents /\ Growing' = Growing /\ GrownPages' = GrownPages
  BY <1>1, Zenon DEF Extents, Growing, GrownPages
<1>3. \A c : Placed(c)' = Placed(c)
  BY <1>1, Zenon DEF Placed, Taken
<1>4. HeapTypeOK'
  BY <1>1, Zenon DEF HeapInv, HeapTypeOK
<1>5. ExtentsSound'
  BY <1>1, <1>2, Zenon DEF HeapInv, ExtentsSound
<1>6. BlocksPlaced' /\ BlocksOnce'
  BY <1>1, <1>2, <1>3, Zenon DEF HeapInv, BlocksPlaced, BlocksOnce
<1> QED BY <1>4, <1>5, <1>6, Zenon DEF HeapInv

LEMMA PlacedKept ==
  ASSUME BlocksPlaced, \A c \in Classes : Placed(c)' \subseteq Placed(c), grown \subseteq grown'
  PROVE  BlocksPlaced'
<1>1. GrownPages \subseteq GrownPages'
  BY Zenon DEF GrownPages
<1> QED BY <1>1, Zenon DEF BlocksPlaced

\* The class of a small layout is one of the classes.
LEMMA SmallClass == \A l \in Small : l \in Layouts /\ ClassFor(l) \in Classes
BY ClassForOp, Zenon DEF Small

\* A small object has a block of its class.
LEMMA LiveOp ==
  ASSUME HeapTypeOK, NEW o \in live
  PROVE  /\ o.addr \in Nat /\ o.layout \in Layouts
         /\ ClassFor(o.layout) # Large => /\ ClassFor(o.layout) \in Classes
                                          /\ o.addr \in Placed(ClassFor(o.layout))
<1>1. o \in [addr : Nat, layout : Layouts]
  BY Zenon DEF HeapTypeOK
<1>2. o.addr \in Nat /\ o.layout \in Layouts
  BY <1>1, Zenon
<1> QED BY <1>2, ClassForOp, Zenon DEF Placed, Taken

\* One turn of the loop of alloc.
LEMMA TryKeeps ==
  ASSUME HeapInv, NEW t \in Task, NEW l \in Small, pc[t].at # "grow", TryAllocate(t, l)
  PROVE  HeapInv'
<1> DEFINE c == ClassFor(l)
<1>1. c \in Classes /\ c # Large /\ l \in Layouts
  BY SmallClass, ClassOp, Zenon
<1>2. grown' = grown /\ owned' = owned /\ phase' = phase /\ usable' = usable
  BY Zenon DEF TryAllocate, memVars, bootVars, vars
<1>3. MemoryBelow'
  BY <1>2, Zenon DEF HeapInv, MemoryBelow
<1>4. PICK v : /\ pc' = [pc EXCEPT ![t] = v]
               /\ v.at \in {"idle", "dry", "grow", "retry"} /\ v.at # "grow"
               /\ v.at # "idle" => v.layout \in Small
  <2>1. CASE pc' = [pc EXCEPT ![t] = Idle]
    <3>1. Idle.at = "idle"
      BY DEF Idle
    <3>2. /\ Idle.at \in {"idle", "dry", "grow", "retry"} /\ Idle.at # "grow"
          /\ Idle.at # "idle" => Idle.layout \in Small
      BY <3>1
    <3> QED BY <2>1, <3>2, Zenon
  <2>2. CASE pc' = [pc EXCEPT ![t] = [at |-> "dry", layout |-> l]]
    <3> DEFINE v == [at |-> "dry", layout |-> l]
    <3>1. v.at = "dry" /\ v.layout = l
      OBVIOUS
    <3> HIDE DEF v
    <3>2. v.at \in {"idle", "dry", "grow", "retry"} /\ v.at # "grow"
      BY <3>1
    <3>3. pc' = [pc EXCEPT ![t] = v] /\ v.layout \in Small
      BY <2>2, <3>1, Zenon DEF v
    <3> QED BY <3>2, <3>3, Zenon
  <2> QED BY <2>1, <2>2, Zenon DEF TryAllocate
<1>5. DOMAIN pc = Task /\ DOMAIN pc' = Task /\ pc'[t] = v /\ \A u \in Task : u # t => pc'[u] = pc[u]
  BY <1>4, Zenon DEF HeapInv, HeapTypeOK
<1>6. \A u \in Task : /\ pc'[u].at \in {"idle", "dry", "grow", "retry"}
                      /\ pc'[u].at # "idle" => pc'[u].layout \in Small
                      /\ pc'[u].at = "grow" => u # t /\ pc[u].at = "grow" /\ pc'[u].extent = pc[u].extent
                      /\ pc[u].at = "grow" => pc'[u] = pc[u]
  BY <1>4, <1>5, Zenon DEF HeapInv, HeapTypeOK
<1>7. Growing' = Growing
  <2>1. ASSUME NEW e PROVE e \in Growing' => e \in Growing
    BY <1>6, Zenon DEF Growing
  <2>2. ASSUME NEW e PROVE e \in Growing => e \in Growing'
    BY <1>6, Zenon DEF Growing
  <2> QED BY <2>1, <2>2, Zenon
<1>8. \A u \in Task : pc'[u].at = "grow" => pc'[u].extent.count = GrowPages
  BY <1>6, Zenon DEF HeapInv, HeapTypeOK
<1>9. \A u, w \in Task : u # w /\ pc'[u].at = "grow" /\ pc'[w].at = "grow" => pc'[u].extent # pc'[w].extent
  <2> SUFFICES ASSUME NEW u \in Task, NEW w \in Task, u # w, pc'[u].at = "grow", pc'[w].at = "grow"
               PROVE  pc'[u].extent # pc'[w].extent
    BY Zenon
  <2>1. /\ pc[u].at = "grow" /\ pc'[u].extent = pc[u].extent
        /\ pc[w].at = "grow" /\ pc'[w].extent = pc[w].extent
    BY <1>6, Zenon
  <2>2. pc[u].extent # pc[w].extent
    BY <2>1, Zenon DEF HeapInv, ExtentsSound
  <2> QED BY <2>1, <2>2, Zenon
<1>10. CASE slabs' = slabs /\ live' = live
  <2>1. Extents' = Extents /\ \A d : Placed(d)' = Placed(d)
    BY <1>10, Zenon DEF Extents, Placed, Taken
  <2>2. HeapTypeOK'
    BY <1>10, <1>5, <1>6, <1>8, Zenon DEF HeapInv, HeapTypeOK
  <2>3. ExtentsSound'
    BY <1>10, <1>2, <1>7, <1>9, <2>1, Zenon DEF HeapInv, ExtentsSound
  <2>4. BlocksPlaced'
    BY <1>2, <2>1, PlacedKept, Zenon DEF HeapInv
  <2>5. BlocksOnce'
    BY <1>10, Zenon DEF HeapInv, BlocksOnce
  <2> QED BY <1>3, <2>2, <2>3, <2>4, <2>5, Zenon DEF HeapInv
<1>11. ASSUME NEW a \in slabs[c], slabs' = [slabs EXCEPT ![c] = @ \ {a}],
              live' = live \cup {[addr |-> a, layout |-> l]}
       PROVE  HeapInv'
  <2> DEFINE o == [addr |-> a, layout |-> l]
  <2>0. slabs \in [Classes -> SUBSET Nat] /\ live \subseteq [addr : Nat, layout : Layouts]
    BY Zenon DEF HeapInv, HeapTypeOK
  <2>1. /\ DOMAIN slabs = Classes /\ slabs' \in [Classes -> SUBSET Nat]
        /\ slabs'[c] = slabs[c] \ {a} /\ \A d \in Classes : d # c => slabs'[d] = slabs[d]
    <3>1. slabs'[c] = slabs[c] \ {a} /\ \A d \in Classes : d # c => slabs'[d] = slabs[d]
      BY <1>1, <1>11, <2>0, Zenon
    <3>2. \A d \in Classes : slabs'[d] \in SUBSET Nat
      BY <2>0, <3>1, Zenon
    <3>3. DOMAIN slabs = Classes /\ slabs' = [d \in Classes |-> slabs'[d]]
      BY <1>11, <2>0, Zenon
    <3> QED BY <3>1, <3>2, <3>3, Zenon
  <2>2. o.addr = a /\ o.layout = l /\ a \in Nat /\ o \in [addr : Nat, layout : Layouts]
    BY <1>1, <2>0, Zenon
  <2>3. live' = live \cup {o}
    BY <1>11, Zenon
  <2> HIDE DEF o
  <2>4. HeapTypeOK'
    BY <1>5, <1>6, <1>8, <2>0, <2>1, <2>2, <2>3, Zenon DEF HeapTypeOK
  <2>5. Extents' = Extents
    BY <1>1, <2>2, <2>3, Zenon DEF Extents
  <2>6. ExtentsSound'
    BY <1>1, <1>2, <1>7, <1>9, <2>2, <2>3, <2>5, Zenon DEF HeapInv, ExtentsSound
  <2>7. \A d \in Classes : Placed(d)' \subseteq Placed(d)
    BY <2>1, <2>2, <2>3, Zenon DEF Placed, Taken
  <2>8. BlocksPlaced'
    BY <1>2, <2>7, PlacedKept, Zenon DEF HeapInv
  <2>9. \A p \in live : ClassFor(p.layout) # Large => p.addr # a
    <3> SUFFICES ASSUME NEW p \in live, ClassFor(p.layout) # Large, p.addr = a PROVE FALSE
      BY Zenon
    <3>1. ClassFor(p.layout) \in Classes /\ a \in Placed(ClassFor(p.layout)) /\ a \in Placed(c)
      BY LiveOp, Zenon DEF HeapInv, Placed
    <3>2. ClassFor(p.layout) = c
      BY <1>1, <3>1, Zenon DEF HeapInv, BlocksPlaced
    <3> QED BY <3>2, Zenon DEF HeapInv, BlocksOnce
  <2>10. ASSUME NEW p \in live', NEW q \in live', ClassFor(p.layout) # Large, ClassFor(q.layout) # Large
         PROVE  (p # q => p.addr # q.addr) /\ p.addr \notin slabs'[ClassFor(p.layout)]
    <3>1. CASE p = o
      BY <3>1, <2>10, <2>1, <2>2, <2>3, <2>9, Zenon
    <3>2. CASE p \in live
      <4>1. p # q => p.addr # q.addr
        BY <3>2, <2>10, <2>2, <2>3, <2>9, Zenon DEF HeapInv, BlocksOnce
      <4>2. p.addr \notin slabs[ClassFor(p.layout)] /\ ClassFor(p.layout) \in Classes
        BY <3>2, <2>10, LiveOp, Zenon DEF HeapInv, BlocksOnce
      <4> QED BY <4>1, <4>2, <2>1, Zenon
    <3> QED BY <3>1, <3>2, <2>3, Zenon
  <2>11. BlocksOnce'
    BY <2>10, Zenon DEF BlocksOnce
  <2> QED BY <1>3, <2>4, <2>6, <2>8, <2>11, Zenon DEF HeapInv
<1>12. \/ slabs' = slabs /\ live' = live
       \/ \E a \in slabs[c] : /\ slabs' = [slabs EXCEPT ![c] = @ \ {a}]
                              /\ live' = live \cup {[addr |-> a, layout |-> l]}
  BY Zenon DEF TryAllocate, Pop
<1> QED BY <1>10, <1>11, <1>12, Zenon

\* alloc_large: the extent is new, so it is no other object's.
LEMMA LargeKeeps ==
  ASSUME FrameInv, FrameInv', HeapInv, NEW l \in Layouts, AllocLarge(l)
  PROVE  HeapInv'
<1>1. LargeExtentFrames(l) \in Nat \ {0} /\ Page \in Nat \ {0} /\ ClassFor(l) = Large
  BY LargeOp, PageOp, Zenon DEF AllocLarge
<1>2. PICK e \in owned' \ owned : live' = live \cup {[addr |-> e.ppn * Page, layout |-> l]}
  BY Zenon DEF AllocLarge
<1>3. slabs' = slabs /\ grown' = grown /\ pc' = pc /\ phase' = phase /\ usable' = usable
  BY Zenon DEF AllocLarge, bootVars
<1>4. e.ppn \in Nat /\ owned' = owned \cup {e} /\ e = [ppn |-> e.ppn, count |-> LargeExtentFrames(l)]
  BY <1>1, <1>2, AllocOwned, Zenon DEF AllocLarge
<1> DEFINE o == [addr |-> e.ppn * Page, layout |-> l]
<1>5. o.addr = e.ppn * Page /\ o.layout = l /\ live' = live \cup {o}
  BY <1>2, Zenon
<1> HIDE DEF o
<1>6. o.addr \in Nat /\ o.addr % Page = 0 /\ o.addr \div Page = e.ppn
  <2>1. e.ppn * Page \in Nat /\ e.ppn * Page = Page * e.ppn + 0 /\ 0 \in 0..(Page - 1)
    BY <1>1, <1>4
  <2>2. (e.ppn * Page) \div Page = e.ppn /\ (e.ppn * Page) % Page = 0
    BY <1>1, <1>4, <2>1, DivIs, Zenon
  <2> QED BY <1>5, <2>1, <2>2, Zenon
<1>7. o \in [addr : Nat, layout : Layouts]
  BY <1>5, <1>6, Zenon DEF o
<1>8. ExtentOf(o) = e
  BY <1>4, <1>5, <1>6, Zenon DEF ExtentOf
<1>9. HeapTypeOK'
  BY <1>3, <1>5, <1>7, Zenon DEF HeapInv, HeapTypeOK
<1>10. Growing' = Growing /\ Extents' = Extents \cup {e}
  <2>1. Growing' = Growing
    BY <1>3, Zenon DEF Growing
  <2>2. {x \in live' : ClassFor(x.layout) = Large} = {x \in live : ClassFor(x.layout) = Large} \cup {o}
    BY <1>1, <1>5, Zenon
  <2>3. ASSUME NEW x PROVE x \in Extents' <=> x \in Extents \cup {e}
    BY <1>8, <2>2, Zenon DEF Extents
  <2> QED BY <2>1, <2>3, Zenon
<1>11. e \notin grown /\ e \notin Extents /\ e \notin Growing
  BY <1>2, Zenon DEF HeapInv, ExtentsSound
<1>12. \A p \in live : ClassFor(p.layout) = Large => ExtentOf(p) # e
  BY <1>11, Zenon DEF Extents
<1>13. ExtentsSound'
  <2>1. grown' \cup Extents' \cup Growing' \subseteq owned'
    BY <1>3, <1>4, <1>10, Zenon DEF HeapInv, ExtentsSound
  <2>2. grown' \cap Extents' = {} /\ grown' \cap Growing' = {} /\ Extents' \cap Growing' = {}
    BY <1>3, <1>10, <1>11, Zenon DEF HeapInv, ExtentsSound
  <2>3. \A t, u \in Task : t # u /\ pc'[t].at = "grow" /\ pc'[u].at = "grow" => pc'[t].extent # pc'[u].extent
    BY <1>3, Zenon DEF HeapInv, ExtentsSound
  <2>4. ASSUME NEW p \in live', NEW q \in live', ClassFor(p.layout) = Large
        PROVE  /\ p.addr % Page = 0
               /\ ClassFor(q.layout) = Large /\ p # q => ExtentOf(p) # ExtentOf(q)
    <3>1. p.addr % Page = 0
      BY <1>5, <1>6, <2>4, Zenon DEF HeapInv, ExtentsSound
    <3>2. ASSUME ClassFor(q.layout) = Large, p # q PROVE ExtentOf(p) # ExtentOf(q)
      <4>1. CASE p = o
        BY <4>1, <3>2, <1>5, <1>8, <1>12, Zenon
      <4>2. CASE q = o
        BY <4>2, <3>2, <2>4, <1>5, <1>8, <1>12, Zenon
      <4>3. CASE p \in live /\ q \in live
        BY <4>3, <3>2, <2>4, Zenon DEF HeapInv, ExtentsSound
      <4> QED BY <4>1, <4>2, <4>3, <1>5, Zenon
    <3> QED BY <3>1, <3>2, Zenon
  <2> QED BY <2>1, <2>2, <2>3, <2>4, Zenon DEF ExtentsSound
<1>14. \A c \in Classes : Placed(c)' \subseteq Placed(c)
  <2>1. \A c \in Classes : c # Large
    BY ClassOp, Zenon
  <2> QED BY <2>1, <1>1, <1>3, <1>5, Zenon DEF Placed, Taken
<1>15. BlocksPlaced'
  BY <1>3, <1>14, PlacedKept, Zenon DEF HeapInv
<1>16. BlocksOnce'
  BY <1>1, <1>3, <1>5, Zenon DEF HeapInv, BlocksOnce
<1>17. MemoryBelow'
  BY <1>3, Zenon DEF HeapInv, MemoryBelow
<1> QED BY <1>9, <1>13, <1>15, <1>16, <1>17, Zenon DEF HeapInv

\* grow_from_frames: the extent is new, so it is no other task's.
LEMMA TakeKeeps ==
  ASSUME FrameInv, FrameInv', HeapInv, NEW t \in Task, TakeFrames(t)
  PROVE  HeapInv'
<1>1. /\ slabs' = slabs /\ live' = live /\ grown' = grown
      /\ phase' = phase /\ usable' = usable /\ pc[t].at = "dry"
  BY Zenon DEF TakeFrames, bootVars
<1>2. pc[t].layout \in Small /\ DOMAIN pc = Task /\ pc[t].at # "grow"
  <2>1. pc[t].at # "idle" /\ pc[t].at # "grow"
    BY <1>1
  <2> QED BY <2>1, Zenon DEF HeapInv, HeapTypeOK
<1>3. Extents' = Extents /\ \A c : Placed(c)' = Placed(c)
  BY <1>1, Zenon DEF Extents, Placed, Taken
<1>4. BlocksPlaced' /\ BlocksOnce' /\ MemoryBelow'
  <2>1. BlocksPlaced'
    BY <1>1, <1>3, PlacedKept, Zenon DEF HeapInv
  <2>2. BlocksOnce' /\ MemoryBelow'
    BY <1>1, Zenon DEF HeapInv, BlocksOnce, MemoryBelow
  <2> QED BY <2>1, <2>2, Zenon
<1>5. ASSUME NEW v, pc' = [pc EXCEPT ![t] = v]
      PROVE  DOMAIN pc' = Task /\ pc'[t] = v /\ \A u \in Task : u # t => pc'[u] = pc[u]
  BY <1>2, <1>5, Zenon
<1>6. CASE pc' = [pc EXCEPT ![t] = Idle] /\ UNCHANGED vars
  <2>1. DOMAIN pc' = Task /\ pc'[t] = Idle /\ (\A u \in Task : u # t => pc'[u] = pc[u]) /\ owned' = owned
    BY <1>5, <1>6, Zenon DEF vars
  <2>2. Idle.at = "idle" /\ Idle.at # "grow" /\ Idle.at \in {"idle", "dry", "grow", "retry"}
    BY DEF Idle
  <2>3. HeapTypeOK'
    <3>1. ASSUME NEW u \in Task
          PROVE  /\ pc'[u].at \in {"idle", "dry", "grow", "retry"}
                 /\ pc'[u].at # "idle" => pc'[u].layout \in Small
                 /\ pc'[u].at = "grow" => pc'[u].extent.count = GrowPages
      <4>1. CASE u = t
        BY <4>1, <2>1, <2>2, Zenon
      <4>2. CASE u # t
        BY <4>2, <2>1, Zenon DEF HeapInv, HeapTypeOK
      <4> QED BY <4>1, <4>2, Zenon
    <3> QED BY <3>1, <1>1, <2>1, Zenon DEF HeapInv, HeapTypeOK
  <2>4. \A u \in Task : pc'[u].at = "grow" => pc'[u] = pc[u] /\ pc[u].at = "grow"
    BY <2>1, <2>2, Zenon
  <2>5. Growing' \subseteq Growing
    BY <2>4, Zenon DEF Growing
  <2>6. ExtentsSound'
    <3>1. /\ grown' \cup Extents' \cup Growing' \subseteq owned'
          /\ grown' \cap Extents' = {} /\ grown' \cap Growing' = {} /\ Extents' \cap Growing' = {}
      BY <1>1, <1>3, <2>1, <2>5, Zenon DEF HeapInv, ExtentsSound
    <3>2. ASSUME NEW u \in Task, NEW w \in Task, u # w, pc'[u].at = "grow", pc'[w].at = "grow"
          PROVE  pc'[u].extent # pc'[w].extent
      <4>1. pc'[u] = pc[u] /\ pc'[w] = pc[w]
        BY <3>2, <2>4, Zenon
      <4> QED BY <4>1, <3>2, Zenon DEF HeapInv, ExtentsSound
    <3> QED BY <1>1, <3>1, <3>2, Zenon DEF HeapInv, ExtentsSound
  <2> QED BY <1>4, <2>3, <2>6, Zenon DEF HeapInv
<1>7. ASSUME AllocFrames(GrowPages), NEW e \in owned' \ owned,
             pc' = [pc EXCEPT ![t] = [at |-> "grow", layout |-> pc[t].layout, extent |-> e]]
      PROVE  HeapInv'
  <2> DEFINE v == [at |-> "grow", layout |-> pc[t].layout, extent |-> e]
  <2>1. /\ v.at = "grow" /\ v.at # "idle" /\ v.at \in {"idle", "dry", "grow", "retry"}
        /\ v.layout = pc[t].layout /\ v.extent = e
    OBVIOUS
  <2>2. pc' = [pc EXCEPT ![t] = v]
    BY <1>7, Zenon
  <2> HIDE DEF v
  <2>3. DOMAIN pc' = Task /\ pc'[t] = v /\ \A u \in Task : u # t => pc'[u] = pc[u]
    BY <1>5, <2>2, Zenon
  <2>4. e.count = GrowPages /\ owned' = owned \cup {e}
    BY <1>7, PageOp, AllocOwned, Zenon
  <2>5. HeapTypeOK'
    <3>1. ASSUME NEW u \in Task
          PROVE  /\ pc'[u].at \in {"idle", "dry", "grow", "retry"}
                 /\ pc'[u].at # "idle" => pc'[u].layout \in Small
                 /\ pc'[u].at = "grow" => pc'[u].extent.count = GrowPages
      <4>1. CASE u = t
        BY <4>1, <1>2, <2>1, <2>3, <2>4, Zenon
      <4>2. CASE u # t
        BY <4>2, <2>3, Zenon DEF HeapInv, HeapTypeOK
      <4> QED BY <4>1, <4>2, Zenon
    <3> QED BY <3>1, <1>1, <2>3, Zenon DEF HeapInv, HeapTypeOK
  <2>6. Growing' \subseteq Growing \cup {e}
    <3> SUFFICES ASSUME NEW u \in Task, pc'[u].at = "grow" PROVE pc'[u].extent \in Growing \cup {e}
      BY Zenon DEF Growing
    <3>1. CASE u = t
      BY <3>1, <2>1, <2>3, Zenon
    <3>2. CASE u # t
      BY <3>2, <2>3, Zenon DEF Growing
    <3> QED BY <3>1, <3>2, Zenon
  <2>7. e \notin grown /\ e \notin Extents /\ e \notin Growing
    BY <1>7, Zenon DEF HeapInv, ExtentsSound
  <2>8. \A u \in Task : pc[u].at = "grow" => pc[u].extent # e
    BY <2>7, Zenon DEF Growing
  <2>9. ExtentsSound'
    <3>1. grown' \cup Extents' \cup Growing' \subseteq owned'
      BY <1>1, <1>3, <2>4, <2>6, Zenon DEF HeapInv, ExtentsSound
    <3>2. grown' \cap Extents' = {} /\ grown' \cap Growing' = {} /\ Extents' \cap Growing' = {}
      BY <1>1, <1>3, <2>6, <2>7, Zenon DEF HeapInv, ExtentsSound
    <3>3. ASSUME NEW u \in Task, NEW w \in Task, u # w, pc'[u].at = "grow", pc'[w].at = "grow"
          PROVE  pc'[u].extent # pc'[w].extent
      <4>1. CASE u = t
        BY <4>1, <3>3, <2>1, <2>3, <2>8, Zenon
      <4>2. CASE w = t
        BY <4>2, <3>3, <2>1, <2>3, <2>8, Zenon
      <4>3. CASE u # t /\ w # t
        <5>1. pc'[u] = pc[u] /\ pc'[w] = pc[w]
          BY <4>3, <2>3, Zenon
        <5> QED BY <5>1, <3>3, Zenon DEF HeapInv, ExtentsSound
      <4> QED BY <4>1, <4>2, <4>3, Zenon
    <3> QED BY <1>1, <3>1, <3>2, <3>3, Zenon DEF HeapInv, ExtentsSound
  <2> QED BY <1>4, <2>5, <2>9, Zenon DEF HeapInv
<1>8. \/ pc' = [pc EXCEPT ![t] = Idle] /\ UNCHANGED vars
      \/ /\ AllocFrames(GrowPages)
         /\ \E e \in owned' \ owned :
              pc' = [pc EXCEPT ![t] = [at |-> "grow", layout |-> pc[t].layout, extent |-> e]]
  BY Zenon DEF TakeFrames
<1> QED BY <1>6, <1>7, <1>8, Zenon

\* No block lies in frames that have not been given to a class.
LEMMA Elsewhere ==
  ASSUME BootPagesApart, FrameInv, BootInv, HeapInv, NEW e \in owned, e \notin grown,
         NEW d \in Classes, NEW a \in Placed(d)
  PROVE  a \div Page \notin FramesOf(e)
<1>1. a \div Page \in GrownPages \cup {BootPage(d)}
  BY Zenon DEF HeapInv, BlocksPlaced
<1>2. BootPage(d) \notin FramesOf(e)
  <2> SUFFICES ASSUME BootPage(d) \in FramesOf(e) PROVE FALSE
    BY Zenon
  <2>1. BootPage(d) \in 0..(MaxFrame - 1)
    BY OwnedOp, Zenon DEF HeapInv
  <2>2. BootPage(d) \in MaxFrame..(MaxFrame + Cardinality(Classes) - 1) /\ MaxFrame \in Nat
    BY PageOp, Zenon DEF BootPagesApart
  <2> QED BY <2>1, <2>2
<1>3. \A x \in GrownPages : x \notin FramesOf(e)
  <2> SUFFICES ASSUME NEW f \in grown, NEW x \in FramesOf(f) PROVE x \notin FramesOf(e)
    BY Zenon DEF GrownPages
  <2>1. f \in owned /\ f # e
    BY Zenon DEF HeapInv, ExtentsSound
  <2>2. FramesOf(e) \cap FramesOf(f) = {}
    BY <2>1, OwnedOp, Zenon DEF HeapInv
  <2> QED BY <2>2, Zenon
<1> QED BY <1>1, <1>2, <1>3, Zenon

\* SlabHeap::grow: the extent's pages hold no block yet.
LEMMA GrowKeeps ==
  ASSUME BootPagesApart, FrameInv, BootInv, HeapInv, NEW t \in Task, Grow(t)
  PROVE  HeapInv'
<1> DEFINE e == pc[t].extent
           c == ClassFor(pc[t].layout)
           N == Blocks(c, e.ppn * Page, GrowPages * Page)
           v == [at |-> "retry", layout |-> pc[t].layout]
<1>1. /\ live' = live /\ owned' = owned /\ phase' = phase /\ usable' = usable
      /\ pc[t].at = "grow" /\ grown' = grown \cup {e}
      /\ slabs' = [slabs EXCEPT ![c] = @ \cup N]
      /\ pc' = [pc EXCEPT ![t] = v]
  BY Zenon DEF Grow, PushAll, memVars, bootVars, vars
<1>2. pc[t].at # "idle"
  BY <1>1
<1>3. /\ pc[t].layout \in Small /\ e.count = GrowPages /\ DOMAIN pc = Task
      /\ slabs \in [Classes -> SUBSET Nat]
  BY <1>1, <1>2, Zenon DEF HeapInv, HeapTypeOK
<1>4. e \in Growing /\ e \in owned /\ e \notin grown /\ e \notin Extents
  <2>1. e \in Growing
    BY <1>1, Zenon DEF Growing
  <2> QED BY <2>1, Zenon DEF HeapInv, ExtentsSound
<1>5. c \in Classes
  BY <1>3, SmallClass, Zenon
<1>6. /\ v.at = "retry" /\ v.at # "grow" /\ v.at # "idle" /\ v.layout = pc[t].layout
      /\ v.at \in {"idle", "dry", "grow", "retry"}
  OBVIOUS
<1>7. ASSUME NEW a \in N PROVE a \in Nat /\ a % c = 0 /\ a \div Page \in FramesOf(e)
  <2>1. e.ppn \in Nat /\ \A k \in e.ppn..(e.ppn + GrowPages - 1) : k \in FramesOf(e)
    BY <1>3, <1>4, OwnedOp, Zenon DEF HeapInv
  <2>2. a \in Nat /\ a % c = 0 /\ a \div Page \in e.ppn..(e.ppn + GrowPages - 1)
    BY <1>5, <2>1, PageOp, BlocksOp, Zenon
  <2> QED BY <2>1, <2>2, Zenon
<1> HIDE DEF e, c, N, v
<1>10. \A d \in Classes : \A a \in Placed(d) : a \div Page \notin FramesOf(e)
  BY <1>4, Elsewhere, Zenon
<1>11. /\ slabs' \in [Classes -> SUBSET Nat]
       /\ slabs'[c] = slabs[c] \cup N /\ \A d \in Classes : d # c => slabs'[d] = slabs[d]
  <2>1. slabs'[c] = slabs[c] \cup N /\ \A d \in Classes : d # c => slabs'[d] = slabs[d]
    BY <1>1, <1>3, <1>5, Zenon
  <2>2. \A d \in Classes : slabs'[d] \in SUBSET Nat
    BY <1>3, <1>7, <2>1, Zenon
  <2>3. slabs' = [d \in Classes |-> slabs'[d]]
    BY <1>1, <1>3, Zenon
  <2> QED BY <2>1, <2>2, <2>3, Zenon
<1>12. \A d \in Classes : \A a \in Placed(d)' : a \in Placed(d) \/ (d = c /\ a \in N)
  <2>1. \A d : Taken(d)' = Taken(d)
    BY <1>1, Zenon DEF Taken
  <2>2. ASSUME NEW d \in Classes, NEW a \in slabs'[d] PROVE a \in slabs[d] \/ (d = c /\ a \in N)
    <3>1. CASE d = c
      <4>1. a \in slabs'[c]
        BY <3>1
      <4>2. a \in slabs[c] \/ a \in N
        BY <4>1, <1>11, Zenon
      <4>3. slabs[c] = slabs[d]
        BY <3>1
      <4> QED BY <3>1, <4>2, <4>3, Zenon
    <3>2. CASE d # c
      BY <3>2, <1>11, Zenon
    <3> QED BY <3>1, <3>2, Zenon
  <2>3. ASSUME NEW d \in Classes, NEW a, a \in slabs'[d] \cup Taken(d)'
        PROVE  a \in Placed(d) \/ (d = c /\ a \in N)
    <3>1. CASE a \in slabs'[d]
      BY <3>1, <2>2, Zenon DEF Placed
    <3>2. CASE a \in Taken(d)
      BY <3>2, Zenon DEF Placed
    <3> QED BY <3>1, <3>2, <2>1, <2>3, Zenon
  <2> QED BY <2>3, Zenon DEF Placed
<1>13. GrownPages' = GrownPages \cup FramesOf(e)
  BY <1>1, Zenon DEF GrownPages
<1>14. DOMAIN pc' = Task /\ pc'[t] = v /\ \A u \in Task : u # t => pc'[u] = pc[u]
  BY <1>1, <1>3, Zenon
<1>15. HeapTypeOK'
  <2>1. ASSUME NEW u \in Task
        PROVE  /\ pc'[u].at \in {"idle", "dry", "grow", "retry"}
               /\ pc'[u].at # "idle" => pc'[u].layout \in Small
               /\ pc'[u].at = "grow" => pc'[u].extent.count = GrowPages
    <3>1. CASE u = t
      BY <3>1, <1>3, <1>6, <1>14, Zenon
    <3>2. CASE u # t
      BY <3>2, <1>14, Zenon DEF HeapInv, HeapTypeOK
    <3> QED BY <3>1, <3>2, Zenon
  <2> QED BY <2>1, <1>1, <1>11, <1>14, Zenon DEF HeapInv, HeapTypeOK
<1>16. \A u \in Task : pc'[u].at = "grow" => u # t /\ pc'[u] = pc[u] /\ pc[u].at = "grow"
  BY <1>6, <1>14, Zenon
<1>17. Growing' \subseteq Growing /\ e \notin Growing'
  <2>1. \A u \in Task : u # t /\ pc[u].at = "grow" => pc[u].extent # e
    BY <1>1, Zenon DEF HeapInv, ExtentsSound, e
  <2> QED BY <1>16, <2>1, Zenon DEF Growing
<1>18. ExtentsSound'
  <2>1. Extents' = Extents
    BY <1>1, Zenon DEF Extents
  <2>2. grown' \cup Extents' \cup Growing' \subseteq owned'
    BY <1>1, <1>4, <1>17, <2>1, Zenon DEF HeapInv, ExtentsSound
  <2>3. grown' \cap Extents' = {} /\ grown' \cap Growing' = {} /\ Extents' \cap Growing' = {}
    BY <1>1, <1>4, <1>17, <2>1, Zenon DEF HeapInv, ExtentsSound
  <2>4. ASSUME NEW u \in Task, NEW w \in Task, u # w, pc'[u].at = "grow", pc'[w].at = "grow"
        PROVE  pc'[u].extent # pc'[w].extent
    <3>1. pc'[u] = pc[u] /\ pc'[w] = pc[w]
      BY <2>4, <1>16, Zenon
    <3> QED BY <3>1, <2>4, Zenon DEF HeapInv, ExtentsSound
  <2> QED BY <1>1, <2>2, <2>3, <2>4, Zenon DEF HeapInv, ExtentsSound
<1>19. BlocksPlaced'
  <2>1. ASSUME NEW d \in Classes, NEW a \in Placed(d)'
        PROVE  a % d = 0 /\ a \div Page \in GrownPages' \cup {BootPage(d)}
    <3>1. CASE a \in Placed(d)
      BY <3>1, <1>13, Zenon DEF HeapInv, BlocksPlaced
    <3>2. CASE d = c /\ a \in N
      BY <3>2, <1>7, <1>13, Zenon
    <3> QED BY <3>1, <3>2, <1>12, Zenon
  <2>2. ASSUME NEW d \in Classes, NEW f \in Classes, NEW a \in Placed(d)', NEW b \in Placed(f)',
               a \div Page = b \div Page
        PROVE  d = f
    <3>1. CASE a \in Placed(d) /\ b \in Placed(f)
      BY <3>1, <2>2, Zenon DEF HeapInv, BlocksPlaced
    <3>2. CASE a \in Placed(d) /\ b \in N
      BY <3>2, <2>2, <1>7, <1>10, Zenon
    <3>3. CASE a \in N /\ b \in Placed(f)
      BY <3>3, <2>2, <1>7, <1>10, Zenon
    <3>4. CASE d = c /\ f = c
      BY <3>4, Zenon
    <3> QED BY <3>1, <3>2, <3>3, <3>4, <1>12, Zenon
  <2> QED BY <2>1, <2>2, Zenon DEF BlocksPlaced
<1>20. BlocksOnce'
  <2>1. ASSUME NEW o \in live, NEW p \in live, ClassFor(o.layout) # Large, ClassFor(p.layout) # Large
        PROVE  (o # p => o.addr # p.addr) /\ o.addr \notin slabs'[ClassFor(o.layout)]
    <3>1. (o # p => o.addr # p.addr) /\ o.addr \notin slabs[ClassFor(o.layout)]
      BY <2>1, Zenon DEF HeapInv, BlocksOnce
    <3>2. ClassFor(o.layout) \in Classes /\ o.addr \in Placed(ClassFor(o.layout))
      BY <2>1, LiveOp, Zenon DEF HeapInv
    <3>3. o.addr \notin N
      BY <3>2, <1>7, <1>10, Zenon
    <3> QED BY <3>1, <3>2, <3>3, <1>11, Zenon
  <2> QED BY <1>1, <2>1, Zenon DEF BlocksOnce
<1>21. MemoryBelow'
  BY <1>1, Zenon DEF HeapInv, MemoryBelow
<1> QED BY <1>15, <1>18, <1>19, <1>20, <1>21, Zenon DEF HeapInv

\* dealloc: the object's block goes back to its class, or its extent to the allocator.
LEMMA DeallocKeeps ==
  ASSUME HeapInv, NEW o \in live, Dealloc(o)
  PROVE  HeapInv'
<1>1. /\ live' = live \ {o} /\ grown' = grown /\ pc' = pc
      /\ phase' = phase /\ usable' = usable
  BY Zenon DEF Dealloc, bootVars
<1>2. Growing' = Growing /\ MemoryBelow'
  BY <1>1, Zenon DEF Growing, HeapInv, MemoryBelow
<1>3. CASE ClassFor(o.layout) = Large /\ FreeFrames(ExtentOf(o)) /\ slabs' = slabs
  <2> DEFINE e == ExtentOf(o)
  <2>1. owned' = owned \ {e}
    BY <1>3, Zenon DEF FreeFrames
  <2>2. e \in Extents /\ e \notin grown /\ e \notin Growing
    <3>1. e \in Extents
      BY <1>3, Zenon DEF Extents
    <3> QED BY <3>1, Zenon DEF HeapInv, ExtentsSound
  <2>3. Extents' \subseteq Extents /\ e \notin Extents'
    <3>1. \A p \in live' : ClassFor(p.layout) = Large => p \in live /\ ExtentOf(p) # e
      BY <1>1, <1>3, Zenon DEF HeapInv, ExtentsSound
    <3> QED BY <3>1, Zenon DEF Extents
  <2> HIDE DEF e
  <2>4. HeapTypeOK'
    BY <1>1, <1>3, Zenon DEF HeapInv, HeapTypeOK
  <2>5. ExtentsSound'
    <3>1. /\ grown' \cup Extents' \cup Growing' \subseteq owned'
          /\ grown' \cap Extents' = {} /\ grown' \cap Growing' = {} /\ Extents' \cap Growing' = {}
      BY <1>1, <1>2, <2>1, <2>2, <2>3, Zenon DEF HeapInv, ExtentsSound
    <3>2. \A p \in live' : p \in live
      BY <1>1, Zenon
    <3> QED BY <1>1, <3>1, <3>2, Zenon DEF HeapInv, ExtentsSound
  <2>6. \A c \in Classes : Placed(c)' \subseteq Placed(c)
    BY <1>1, <1>3, Zenon DEF Placed, Taken
  <2>7. BlocksPlaced'
    BY <1>1, <2>6, PlacedKept, Zenon DEF HeapInv
  <2>8. BlocksOnce'
    BY <1>1, <1>3, Zenon DEF HeapInv, BlocksOnce
  <2> QED BY <1>2, <2>4, <2>5, <2>7, <2>8, Zenon DEF HeapInv
<1>4. CASE /\ ClassFor(o.layout) # Large /\ UNCHANGED vars
           /\ slabs' = [slabs EXCEPT ![ClassFor(o.layout)] = @ \cup {o.addr}]
  <2> DEFINE c == ClassFor(o.layout)
             a == o.addr
  <2>1. c \in Classes /\ a \in Nat /\ a \in Placed(c) /\ slabs \in [Classes -> SUBSET Nat]
    BY <1>4, LiveOp, Zenon DEF HeapInv, HeapTypeOK
  <2>2. slabs' = [slabs EXCEPT ![c] = @ \cup {a}] /\ owned' = owned
    BY <1>4, Zenon DEF vars
  <2>3. \A p \in live' : p \in live /\ (ClassFor(p.layout) # Large => p.addr # a)
    BY <1>1, <1>4, Zenon DEF HeapInv, BlocksOnce
  <2>4. Extents' = Extents
    <3>1. {x \in live' : ClassFor(x.layout) = Large} = {x \in live : ClassFor(x.layout) = Large}
      <4>1. live' = live \ {o} /\ ClassFor(o.layout) # Large
        BY <1>1, <1>4, Zenon
      <4>2. ASSUME NEW x PROVE x \in live' /\ ClassFor(x.layout) = Large
                                 <=> x \in live /\ ClassFor(x.layout) = Large
        <5>1. CASE x = o
          BY <4>1, <5>1
        <5>2. CASE x # o
          BY <4>1, <5>2, Zenon
        <5> QED BY <5>1, <5>2, Zenon
      <4> QED BY <4>2, Zenon
    <3> QED BY <3>1, Zenon DEF Extents
  <2> HIDE DEF a, c
  <2>5. slabs'[c] = slabs[c] \cup {a} /\ \A d \in Classes : d # c => slabs'[d] = slabs[d]
    BY <2>1, <2>2, Zenon
  <2>6. slabs' \in [Classes -> SUBSET Nat]
    <3>1. \A d \in Classes : slabs'[d] \in SUBSET Nat
      BY <2>1, <2>5, Zenon
    <3>2. slabs' = [d \in Classes |-> slabs'[d]]
      BY <2>1, <2>2, Zenon
    <3> QED BY <3>1, <3>2, Zenon
  <2>7. HeapTypeOK'
    BY <1>1, <2>6, Zenon DEF HeapInv, HeapTypeOK
  <2>8. ExtentsSound'
    BY <1>1, <1>2, <2>2, <2>3, <2>4, Zenon DEF HeapInv, ExtentsSound
  <2>9. \A d \in Classes : Placed(d)' \subseteq Placed(d)
    <3> SUFFICES ASSUME NEW d \in Classes, NEW x \in Placed(d)' PROVE x \in Placed(d)
      BY Zenon
    <3>1. CASE x \in slabs'[d]
      BY <3>1, <2>1, <2>5, Zenon DEF Placed
    <3>2. CASE x \in Taken(d)'
      BY <3>2, <2>3, Zenon DEF Placed, Taken
    <3> QED BY <3>1, <3>2, Zenon DEF Placed
  <2>10. BlocksPlaced'
    BY <1>1, <2>9, PlacedKept, Zenon DEF HeapInv
  <2>11. BlocksOnce'
    <3> SUFFICES ASSUME NEW p \in live', NEW q \in live', ClassFor(p.layout) # Large, ClassFor(q.layout) # Large
                 PROVE  (p # q => p.addr # q.addr) /\ p.addr \notin slabs'[ClassFor(p.layout)]
      BY Zenon DEF BlocksOnce
    <3>1. p \in live /\ q \in live /\ p.addr # a
      BY <2>3, Zenon
    <3>2. (p # q => p.addr # q.addr) /\ p.addr \notin slabs[ClassFor(p.layout)]
      BY <3>1, Zenon DEF HeapInv, BlocksOnce
    <3>3. ClassFor(p.layout) \in Classes
      BY <3>1, LiveOp, Zenon DEF HeapInv
    <3> QED BY <3>1, <3>2, <3>3, <2>5, Zenon
  <2> QED BY <1>2, <2>7, <2>8, <2>10, <2>11, Zenon DEF HeapInv
<1> QED BY <1>3, <1>4, Zenon DEF Dealloc, Push

\* What is usable is fixed when the image has been found: pages the firmware reported.
LEMMA BelowKeeps ==
  ASSUME BootInv, MemoryBelow, Boot
  PROVE  MemoryBelow'
<1>1. ASSUME NEW hole \in RC!Region, FindImage(hole) PROVE MemoryBelow'
  <2>1. phase = "collect" /\ usable' = reported \ RC!Pages(hole)
    BY <1>1, Zenon DEF FindImage
  <2>2. RC!PagesOf(found) = reported /\ found \in Seq(RC!Region)
    BY <2>1, Zenon DEF BootInv, Whereabouts, BootTypeOK, Exact, RC!Exact
  <2>3. reported \subseteq 0..(MaxFrame - 1)
    <3> SUFFICES ASSUME NEW x \in reported PROVE x \in 0..(MaxFrame - 1)
      BY Zenon
    <3>1. PICK i \in 1..Len(found) : x \in RC!Pages(found[i])
      BY <2>2, Zenon DEF RC!PagesOf
    <3>2. found[i] \in RC!Region
      BY <2>2
    <3>3. found[i].start \in 0..MaxFrame /\ found[i].end \in 0..MaxFrame /\ MaxFrame \in Nat
      BY <3>2, PageOp DEF RC!Region
    <3>4. x \in found[i].start..(found[i].end - 1)
      BY <3>1, Zenon DEF RC!Pages
    <3> QED BY <3>3, <3>4
  <2> QED BY <2>1, <2>3, Zenon DEF MemoryBelow
<1>2. CASE usable' = usable /\ phase' = phase
  BY <1>2, Zenon DEF MemoryBelow
<1>3. CASE usable' = usable /\ phase = "register"
  <2>1. phase # "collect"
    BY <1>3
  <2> QED BY <1>3, <2>1, Zenon DEF MemoryBelow
<1>4. ASSUME NEW start, NEW end, Collect(start, end) PROVE usable' = usable /\ phase' = phase
  BY <1>4, Zenon DEF Collect
<1>5. Clip \/ Register => usable' = usable /\ phase' = phase
  BY Zenon DEF Clip, Register
<1>6. Booted => usable' = usable /\ phase = "register"
  BY Zenon DEF Booted
<1> QED BY <1>1, <1>2, <1>3, <1>4, <1>5, <1>6, Zenon DEF Boot

LEMMA HeapKeeps ==
  ASSUME BootPagesApart, FrameInv, FrameInv', BootInv, HeapInv, [HeapNext]_slabVars
  PROVE  HeapInv'
<1>1. ASSUME NEW e, e \in grown \cup Extents \cup Growing PROVE e \in owned
  BY <1>1, Zenon DEF HeapInv, ExtentsSound
<1>2. CASE Boot /\ UNCHANGED heapVars
  <2>1. MemoryBelow'
    BY <1>2, BelowKeeps, Zenon DEF HeapInv
  <2>2. owned' = owned
    BY <1>2, Zenon DEF Boot, Collect, FindImage, Clip, Register, Booted, AddRegion, vars
  <2> QED BY <1>1, <1>2, <2>1, <2>2, HeapSame, Zenon
<1>3. CASE ServeOthers
  <2>1. UNCHANGED heapVars /\ usable' = usable /\ phase' = phase
    BY <1>3, Zenon DEF ServeOthers, bootVars
  <2>2. MemoryBelow'
    BY <2>1, Zenon DEF HeapInv, MemoryBelow
  <2>3. ASSUME NEW e, e \in grown \cup Extents \cup Growing PROVE e \in owned'
    <3>1. CASE \E count \in 1..MaxCount : AllocFrames(count)
      BY <3>1, <2>3, <1>1, AllocMore, Zenon
    <3>2. ASSUME NEW f \in owned \ (grown \cup Extents \cup Growing), FreeFrames(f) PROVE e \in owned'
      <4>1. owned' = owned \ {f} /\ e # f
        BY <3>2, <2>3, Zenon DEF FreeFrames
      <4> QED BY <4>1, <2>3, <1>1, Zenon
    <3> QED BY <3>1, <3>2, <1>3, Zenon DEF ServeOthers
  <2> QED BY <2>1, <2>2, <2>3, HeapSame, Zenon
<1>4. ASSUME NEW t \in Task, NEW l \in Layouts, Alloc(t, l) PROVE HeapInv'
  <2>1. l \in Small /\ pc[t] = Idle /\ TryAllocate(t, l)
    BY <1>4, Zenon DEF Alloc, Small
  <2>2. pc[t].at # "grow"
    BY <2>1 DEF Idle
  <2> QED BY <2>1, <2>2, TryKeeps, Zenon
<1>5. ASSUME NEW t \in Task, Retry(t) PROVE HeapInv'
  <2>1. pc[t].at = "retry" /\ TryAllocate(t, pc[t].layout)
    BY <1>5, Zenon DEF Retry
  <2>2. pc[t].at # "grow" /\ pc[t].at # "idle"
    BY <2>1
  <2>3. pc[t].layout \in Small
    BY <2>2, Zenon DEF HeapInv, HeapTypeOK
  <2> QED BY <2>1, <2>2, <2>3, TryKeeps, Zenon
<1>6. CASE UNCHANGED slabVars
  <2>1. UNCHANGED heapVars /\ usable' = usable /\ phase' = phase /\ owned' = owned
    BY <1>6, Zenon DEF slabVars, memVars, bootVars, vars
  <2>2. MemoryBelow'
    BY <2>1, Zenon DEF HeapInv, MemoryBelow
  <2> QED BY <1>1, <2>1, <2>2, HeapSame, Zenon
<1> QED BY <1>2, <1>3, <1>4, <1>5, <1>6, LargeKeeps, TakeKeeps, GrowKeeps, DeallocKeeps, Zenon DEF HeapNext

(***************************************************************************)
(* The heap is sound                                                       *)
(***************************************************************************)

LEMMA PlacedOp ==
  ASSUME HeapInv, NEW c \in Classes, NEW a \in Placed(c)
  PROVE  a \in Nat /\ a % c = 0
<1>1. slabs[c] \subseteq Nat
  BY Zenon DEF HeapInv, HeapTypeOK
<1>2. \A o \in live : o.addr \in Nat
  BY LiveOp, Zenon DEF HeapInv
<1> QED BY <1>1, <1>2, Zenon DEF HeapInv, BlocksPlaced, Placed, Taken

\* Two blocks that share a unit are the same block.
LEMMA SameBlock ==
  ASSUME HeapInv, NEW c \in Classes, NEW d \in Classes, NEW a \in Placed(c), NEW b \in Placed(d),
         NEW u, u \in Units(a, c), u \in Units(b, d)
  PROVE  c = d /\ a = b
<1>1. a \in Nat /\ a % c = 0 /\ b \in Nat /\ b % d = 0
  BY PlacedOp, Zenon
<1>2. u \div Page = a \div Page
  BY <1>1, OnOnePage, Zenon
<1>3. u \div Page = b \div Page
  BY <1>1, OnOnePage, Zenon
<1>4. c = d
  BY <1>2, <1>3, Zenon DEF HeapInv, BlocksPlaced
<1>5. b % c = 0 /\ u \in Units(b, c) /\ c \in Nat \ {0}
  <2>1. c \in Nat \ {0}
    BY ClassOp, Zenon
  <2> QED BY <1>1, <1>4, <2>1
<1>6. a = b
  BY <1>1, <1>5, OneBlock, Zenon
<1> QED BY <1>4, <1>6, Zenon

\* A small object lies in its block ...
LEMMA SmallUnits ==
  ASSUME HeapInv, NEW o \in live, ClassFor(o.layout) # Large, NEW u \in Units(o.addr, o.layout.size)
  PROVE  /\ ClassFor(o.layout) \in Classes /\ o.addr \in Placed(ClassFor(o.layout))
         /\ u \in Units(o.addr, ClassFor(o.layout))
         /\ u \div Page = o.addr \div Page
<1> DEFINE c == ClassFor(o.layout)
<1>1. c \in Classes /\ o.addr \in Placed(c) /\ o.addr \in Nat /\ o.layout \in Layouts
  BY LiveOp, Zenon DEF HeapInv
<1>2. o.layout.size \in Nat /\ o.layout.size <= c /\ c \in Nat \ {0}
  BY <1>1, ClassForOp, ClassOp, Zenon
<1> HIDE DEF c
<1>3. u \in Units(o.addr, c)
  BY <1>1, <1>2 DEF Units
<1>4. o.addr % c = 0
  BY <1>1, PlacedOp, Zenon
<1>5. u \div Page = o.addr \div Page
  BY <1>1, <1>3, <1>4, OnOnePage, Zenon
<1> QED BY <1>1, <1>3, <1>5, Zenon DEF c

\* ... and a large one in its extent.
LEMMA LargeUnits ==
  ASSUME FrameInv, BootInv, HeapInv, NEW o \in live, ClassFor(o.layout) = Large
  PROVE  /\ ExtentOf(o) \in Extents /\ ExtentOf(o) \in owned /\ ExtentOf(o) \notin grown
         /\ o.addr % o.layout.align = 0
         /\ \A u \in Units(o.addr, o.layout.size) : u \div Page \in FramesOf(ExtentOf(o))
<1> DEFINE e == ExtentOf(o)
           n == o.addr \div Page
           l == o.layout
<1>1. e \in Extents /\ e \in owned /\ e \notin grown
  <2>1. e \in Extents
    BY Zenon DEF Extents
  <2> QED BY <2>1, Zenon DEF HeapInv, ExtentsSound
<1>2. e.ppn = n /\ e.count = LargeExtentFrames(l)
  BY Zenon DEF ExtentOf
<1>3. o.addr \in Nat /\ l \in Layouts /\ Page \in Nat \ {0} /\ o.addr % Page = 0
  BY LiveOp, PageOp, Zenon DEF HeapInv, ExtentsSound
<1>4. n \in Nat /\ o.addr = n * Page
  <2>1. n \in Nat /\ o.addr = Page * n + (o.addr % Page)
    BY <1>3, DivOp, Zenon
  <2> HIDE DEF n
  <2>2. o.addr = n * Page
    BY <1>3, <2>1
  <2> QED BY <2>1, <2>2, Zenon
<1> HIDE DEF e, n, l
<1>5. /\ Size(e) \in Nat \ {0} /\ PowerOfTwo(Size(e)) /\ LargeExtentFrames(l) <= Size(e)
      /\ n % Size(e) = 0 /\ \A k \in n..(n + LargeExtentFrames(l) - 1) : k \in FramesOf(e)
  <2>1. /\ Size(e) \in Nat \ {0} /\ PowerOfTwo(Size(e)) /\ e.count <= Size(e)
        /\ e.ppn % Size(e) = 0 /\ \A k \in e.ppn..(e.ppn + e.count - 1) : k \in FramesOf(e)
    BY <1>1, OwnedOp, Zenon DEF HeapInv
  <2> QED BY <1>2, <2>1, Zenon
<1>6. o.addr % l.align = 0
  BY <1>3, <1>4, <1>5, LargeAligned, Zenon
<1>7. ASSUME NEW u \in Units(o.addr, l.size) PROVE u \div Page \in FramesOf(e)
  <2>1. u \div Page \in n..(n + LargeExtentFrames(l) - 1)
    BY <1>3, <1>4, <1>7, LargeWithin, Zenon
  <2> QED BY <2>1, <1>5, Zenon
<1> QED BY <1>1, <1>6, <1>7, Zenon DEF e, l

LEMMA FreeOp ==
  ASSUME NEW b \in FreeBlocks
  PROVE  /\ b = <<b[1], b[2]>> /\ b[1] \in Classes
         /\ b[2] \in slabs[b[1]] /\ b[2] \in Placed(b[1])
<1>1. b \in Classes \X UNION {slabs[c] : c \in Classes} /\ b[2] \in slabs[b[1]]
  BY Zenon DEF FreeBlocks
<1>2. b = <<b[1], b[2]>> /\ b[1] \in Classes
  BY <1>1
<1> QED BY <1>1, <1>2, Zenon DEF Placed

LEMMA ObjectsApart ==
  ASSUME BootPagesApart, FrameInv, BootInv, HeapInv, NEW o \in live, NEW p \in live, o # p,
         NEW u, u \in Units(o.addr, o.layout.size), u \in Units(p.addr, p.layout.size)
  PROVE  FALSE
<1>1. ASSUME NEW x \in live, NEW y \in live, ClassFor(x.layout) # Large, ClassFor(y.layout) = Large,
             u \in Units(x.addr, x.layout.size), u \in Units(y.addr, y.layout.size)
      PROVE  FALSE
  <2>1. /\ ClassFor(x.layout) \in Classes /\ x.addr \in Placed(ClassFor(x.layout))
        /\ u \div Page = x.addr \div Page
    BY <1>1, SmallUnits, Zenon
  <2>2. ExtentOf(y) \in owned /\ ExtentOf(y) \notin grown /\ u \div Page \in FramesOf(ExtentOf(y))
    BY <1>1, LargeUnits, Zenon
  <2>3. x.addr \div Page \notin FramesOf(ExtentOf(y))
    BY <2>1, <2>2, Elsewhere, Zenon
  <2> QED BY <2>1, <2>2, <2>3, Zenon
<1>2. CASE ClassFor(o.layout) # Large /\ ClassFor(p.layout) # Large
  <2>1. /\ ClassFor(o.layout) \in Classes /\ o.addr \in Placed(ClassFor(o.layout))
        /\ u \in Units(o.addr, ClassFor(o.layout))
    BY <1>2, SmallUnits, Zenon
  <2>2. /\ ClassFor(p.layout) \in Classes /\ p.addr \in Placed(ClassFor(p.layout))
        /\ u \in Units(p.addr, ClassFor(p.layout))
    BY <1>2, SmallUnits, Zenon
  <2>3. o.addr = p.addr
    BY <2>1, <2>2, SameBlock, Zenon
  <2> QED BY <1>2, <2>3, Zenon DEF HeapInv, BlocksOnce
<1>3. CASE ClassFor(o.layout) = Large /\ ClassFor(p.layout) = Large
  <2>1. ExtentOf(o) \in owned /\ u \div Page \in FramesOf(ExtentOf(o))
    BY <1>3, LargeUnits, Zenon
  <2>2. ExtentOf(p) \in owned /\ u \div Page \in FramesOf(ExtentOf(p))
    BY <1>3, LargeUnits, Zenon
  <2>3. ExtentOf(o) # ExtentOf(p)
    BY <1>3, Zenon DEF HeapInv, ExtentsSound
  <2>4. FramesOf(ExtentOf(o)) \cap FramesOf(ExtentOf(p)) = {}
    BY <2>1, <2>2, <2>3, Zenon DEF FrameInv, Exclusive
  <2> QED BY <2>1, <2>2, <2>4, Zenon
<1> QED BY <1>1, <1>2, <1>3, Zenon

LEMMA FreeApart ==
  ASSUME BootPagesApart, FrameInv, BootInv, HeapInv, NEW o \in live, NEW k \in Classes, NEW a \in slabs[k],
         NEW u, u \in Units(o.addr, o.layout.size), u \in Units(a, k)
  PROVE  FALSE
<1>1. a \in Placed(k)
  BY Zenon DEF Placed
<1>2. CASE ClassFor(o.layout) # Large
  <2> DEFINE c == ClassFor(o.layout)
  <2>1. c \in Classes /\ o.addr \in Placed(c) /\ u \in Units(o.addr, c)
    BY <1>2, SmallUnits, Zenon
  <2>2. c = k /\ o.addr = a
    BY <1>1, <2>1, SameBlock, Zenon
  <2>3. o.addr \notin slabs[c]
    BY <1>2, Zenon DEF HeapInv, BlocksOnce
  <2> HIDE DEF c
  <2> QED BY <2>2, <2>3
<1>3. CASE ClassFor(o.layout) = Large
  <2>1. ExtentOf(o) \in owned /\ ExtentOf(o) \notin grown /\ u \div Page \in FramesOf(ExtentOf(o))
    BY <1>3, LargeUnits, Zenon
  <2>2. a \in Nat /\ a % k = 0
    BY <1>1, PlacedOp, Zenon
  <2>3. u \div Page = a \div Page
    BY <2>2, OnOnePage, Zenon
  <2>4. a \div Page \notin FramesOf(ExtentOf(o))
    BY <1>1, <2>1, Elsewhere, Zenon
  <2> QED BY <2>1, <2>3, <2>4, Zenon
<1> QED BY <1>2, <1>3, Zenon

LEMMA InvIsSound == ASSUME BootPagesApart, FrameInv, BootInv, HeapInv PROVE HeapSound
<1> DEFINE mine == (UNION {FramesOf(e) : e \in grown \cup Extents})
                     \cup (MaxFrame..(MaxFrame + Cardinality(Classes) - 1))
<1>1. \A o, p \in live : o # p => Units(o.addr, o.layout.size) \cap Units(p.addr, p.layout.size) = {}
  <2> SUFFICES ASSUME NEW o \in live, NEW p \in live, o # p,
                      NEW u, u \in Units(o.addr, o.layout.size), u \in Units(p.addr, p.layout.size)
               PROVE  FALSE
    BY Zenon
  <2> QED BY ObjectsApart, Zenon
<1>2. ASSUME NEW o \in live PROVE o.addr % o.layout.align = 0
  <2>1. CASE ClassFor(o.layout) # Large
    <3>1. /\ o.layout \in Layouts /\ ClassFor(o.layout) \in Classes
          /\ o.addr \in Placed(ClassFor(o.layout))
      BY <2>1, LiveOp, Zenon DEF HeapInv
    <3>2. o.addr \in Nat /\ o.addr % ClassFor(o.layout) = 0
      BY <3>1, PlacedOp, Zenon
    <3> QED BY <2>1, <3>1, <3>2, SmallAligned, Zenon
  <2>2. CASE ClassFor(o.layout) = Large
    BY <2>2, LargeUnits, Zenon
  <2> QED BY <2>1, <2>2, Zenon
<1>3. ASSUME NEW o \in live, NEW b \in FreeBlocks
      PROVE  Units(o.addr, o.layout.size) \cap Units(b[2], b[1]) = {}
  <2> DEFINE k == b[1]
             a == b[2]
  <2>1. k \in Classes /\ a \in slabs[k]
    BY FreeOp, Zenon
  <2> HIDE DEF k, a
  <2>2. Units(o.addr, o.layout.size) \cap Units(a, k) = {}
    BY <2>1, FreeApart, Zenon
  <2> QED BY <2>2, Zenon DEF k, a
<1>4. ASSUME NEW b \in FreeBlocks, NEW d \in FreeBlocks, b # d
      PROVE  Units(b[2], b[1]) \cap Units(d[2], d[1]) = {}
  <2> DEFINE k == b[1]
             a == b[2]
             m == d[1]
             x == d[2]
  <2>1. b = <<k, a>> /\ k \in Classes /\ a \in Placed(k)
    BY FreeOp, Zenon
  <2>2. d = <<m, x>> /\ m \in Classes /\ x \in Placed(m)
    BY FreeOp, Zenon
  <2> HIDE DEF k, a, m, x
  <2>3. ~(k = m /\ a = x)
    BY <1>4, <2>1, <2>2, Zenon
  <2>4. Units(a, k) \cap Units(x, m) = {}
    BY <2>1, <2>2, <2>3, SameBlock, Zenon
  <2> QED BY <2>4, Zenon DEF k, a, m, x
<1>5. ASSUME NEW c \in Classes, NEW a \in Placed(c) PROVE a \div Page \in mine
  <2>1. a \div Page \in GrownPages \cup {BootPage(c)}
    BY Zenon DEF HeapInv, BlocksPlaced
  <2>2. BootPage(c) \in MaxFrame..(MaxFrame + Cardinality(Classes) - 1)
    BY Zenon DEF BootPagesApart
  <2>3. GrownPages \subseteq mine
    <3>1. GrownPages \subseteq UNION {FramesOf(e) : e \in grown \cup Extents}
      BY Zenon DEF GrownPages
    <3> QED BY <3>1, Zenon
  <2>4. BootPage(c) \in mine
    BY <2>2, Zenon
  <2> HIDE DEF mine
  <2> QED BY <2>1, <2>3, <2>4, Zenon
<1>6. ASSUME NEW o \in live, NEW u \in Units(o.addr, o.layout.size) PROVE u \div Page \in mine
  <2>1. CASE ClassFor(o.layout) # Large
    <3>1. /\ ClassFor(o.layout) \in Classes /\ o.addr \in Placed(ClassFor(o.layout))
          /\ u \div Page = o.addr \div Page
      BY <2>1, SmallUnits, Zenon
    <3> HIDE DEF mine
    <3> QED BY <3>1, <1>5, Zenon
  <2>2. CASE ClassFor(o.layout) = Large
    <3>1. ExtentOf(o) \in Extents /\ u \div Page \in FramesOf(ExtentOf(o))
      BY <2>2, LargeUnits, Zenon
    <3> QED BY <3>1, Zenon
  <2> QED BY <2>1, <2>2, Zenon
<1>7. ASSUME NEW b \in FreeBlocks PROVE b[2] \div Page \in mine
  <2>1. b[1] \in Classes /\ b[2] \in Placed(b[1])
    BY FreeOp, Zenon
  <2> HIDE DEF mine
  <2> QED BY <2>1, <1>5, Zenon
<1>8. ASSUME NEW e \in owned \ (grown \cup Extents) PROVE FramesOf(e) \cap mine = {}
  <2>1. ASSUME NEW f \in grown \cup Extents PROVE FramesOf(e) \cap FramesOf(f) = {}
    <3>1. f \in owned /\ f # e
      BY Zenon DEF HeapInv, ExtentsSound
    <3> QED BY <3>1, Zenon DEF FrameInv, Exclusive
  <2>2. ASSUME NEW x \in FramesOf(e) PROVE x \notin MaxFrame..(MaxFrame + Cardinality(Classes) - 1)
    <3>1. x \in 0..(MaxFrame - 1) /\ MaxFrame \in Nat
      BY OwnedOp, PageOp, Zenon DEF HeapInv
    <3> QED BY <3>1
  <2>3. ASSUME NEW x \in FramesOf(e) PROVE x \notin UNION {FramesOf(f) : f \in grown \cup Extents}
    BY <2>1, Zenon
  <2>4. ASSUME NEW x \in FramesOf(e) PROVE x \notin mine
    BY <2>2, <2>3, Zenon
  <2> HIDE DEF mine
  <2> QED BY <2>4, Zenon
<1> HIDE DEF mine
<1>9. /\ \A o \in live : \A u \in Units(o.addr, o.layout.size) : u \div Page \in mine
      /\ \A b \in FreeBlocks : b[2] \div Page \in mine
      /\ \A e \in owned \ (grown \cup Extents) : FramesOf(e) \cap mine = {}
  BY <1>6, <1>7, <1>8, Zenon
<1> QED BY <1>1, <1>2, <1>3, <1>4, <1>9, Zenon DEF HeapSound, mine

(***************************************************************************)
(* The scan of find_free_run                                               *)
(***************************************************************************)

\* align_ppn: the least multiple that is not below.
LEMMA AlignPpnOp ==
  ASSUME NEW p \in Nat, NEW n \in Nat \ {0}
  PROVE  /\ AlignPpn(p, n) \in Nat /\ AlignPpn(p, n) % n = 0
         /\ p <= AlignPpn(p, n) /\ AlignPpn(p, n) < p + n
         /\ \A q \in Nat : p <= q /\ q % n = 0 => AlignPpn(p, n) <= q
<1> DEFINE x == p + n - 1
           m == x \div n
<1>1. x \in Nat
  OBVIOUS
<1>2. m \in Nat /\ x % n \in 0..(n - 1) /\ x = n * m + (x % n)
  BY <1>1, DivOp, Zenon
<1>3. AlignPpn(p, n) = m * n
  BY Zenon DEF AlignPpn
<1> DEFINE s == x % n
           y == n * m
<1>4. s \in 0..(n - 1) /\ p + n - 1 = y + s
  BY <1>2, Zenon
<1> HIDE DEF x, m, s
<1>5. y \in Nat /\ m * n = y
  BY <1>2
<1> HIDE DEF y
<1>6. p <= y /\ y < p + n
  BY <1>4, <1>5
<1>7. y % n = 0
  BY <1>2, <1>5, Multiple, Zenon DEF y
<1>8. ASSUME NEW q \in Nat, p <= q, q % n = 0 PROVE y <= q
  <2>1. PICK j \in Nat : q = n * j
    BY <1>8, Multiple, Zenon
  <2>2. n * m < n * j + n
    <3>1. y < q + n
      BY <1>5, <1>6, <1>8
    <3> QED BY <2>1, <3>1, Zenon DEF y
  <2>3. n * j + n = n * (j + 1) /\ n * (j + 1) \in Nat /\ n * m \in Nat
    BY <1>2
  <2>4. m < j + 1
    <3> SUFFICES ASSUME j + 1 <= m PROVE FALSE
      BY <1>2
    <3>1. n * (j + 1) <= n * m
      BY <1>2
    <3> QED BY <2>2, <2>3, <3>1
  <2>5. m <= j
    BY <1>2, <2>4
  <2>6. n * m <= n * j
    BY <1>2, <2>5
  <2> QED BY <2>1, <2>6, Zenon DEF y
<1> QED BY <1>3, <1>5, <1>6, <1>7, <1>8, Zenon

\* Two multiples are at least n apart.
LEMMA NextMultiple ==
  ASSUME NEW n \in Nat \ {0}, NEW a \in Nat, NEW b \in Nat, a % n = 0, b % n = 0, a < b
  PROVE  a + n <= b /\ (a + n) % n = 0
<1>1. PICK i \in Nat : a = n * i
  BY Multiple, Zenon
<1>2. PICK j \in Nat : b = n * j
  BY Multiple, Zenon
<1>3. i < j
  <2> SUFFICES ASSUME j <= i PROVE FALSE
    OBVIOUS
  <2>1. n * j <= n * i
    OBVIOUS
  <2> QED BY <1>1, <1>2, <2>1
<1>4. n * (i + 1) <= n * j
  <2>1. i + 1 <= j /\ i + 1 \in Nat
    BY <1>3
  <2> QED BY <2>1
<1>5. n * (i + 1) = a + n
  BY <1>1
<1>6. a + n \in Nat /\ i + 1 \in Nat
  OBVIOUS
<1>7. (a + n) % n = 0
  BY <1>5, <1>6, Multiple, Zenon
<1> QED BY <1>2, <1>4, <1>5, <1>7

LEMMA RunOp ==
  ASSUME NEW r, r.bitmap_base \in Nat, NEW o \in Nat, NEW n \in Nat \ {0}
  PROVE  Run(r, o, n) \cap allocated = {} <=> {i \in o..(o + n - 1) : Bit(r, i)} = {}
<1>1. ASSUME NEW x \in Run(r, o, n), x \in allocated PROVE \E i \in o..(o + n - 1) : Bit(r, i)
  <2>1. x \in (r.bitmap_base + o)..(r.bitmap_base + o + n - 1)
    BY <1>1, Zenon DEF Run
  <2>2. x - r.bitmap_base \in o..(o + n - 1) /\ r.bitmap_base + (x - r.bitmap_base) = x
    BY <2>1
  <2> QED BY <1>1, <2>2, Zenon DEF Bit
<1>2. ASSUME NEW i \in o..(o + n - 1), Bit(r, i) PROVE \E x \in Run(r, o, n) : x \in allocated
  <2>1. r.bitmap_base + i \in (r.bitmap_base + o)..(r.bitmap_base + o + n - 1)
    OBVIOUS
  <2> QED BY <1>2, <2>1, Zenon DEF Run, Bit
<1> QED BY <1>1, <1>2, Zenon

LEMMA FreeRunsOp ==
  ASSUME NEW r, NEW start \in Nat, NEW end \in Nat, NEW n \in Nat \ {0}
  PROVE  /\ FreeRuns(r, start, end, n) \in SUBSET Nat
         /\ \A o : o \in FreeRuns(r, start, end, n) <=>
              /\ o \in Nat /\ start <= o /\ o + n <= end
              /\ (r.start_ppn + o) % n = 0 /\ Run(r, o, n) \cap allocated = {}
<1>1. ASSUME NEW o PROVE o \in start..end /\ o + n <= end <=> o \in Nat /\ start <= o /\ o + n <= end
  OBVIOUS
<1>2. ASSUME NEW o
      PROVE  o \in FreeRuns(r, start, end, n) <=>
               /\ o \in start..end /\ o + n <= end
               /\ (r.start_ppn + o) % n = 0 /\ Run(r, o, n) \cap allocated = {}
  BY Zenon DEF FreeRuns
<1>3. ASSUME NEW o
      PROVE  o \in FreeRuns(r, start, end, n) <=>
               /\ o \in Nat /\ start <= o /\ o + n <= end
               /\ (r.start_ppn + o) % n = 0 /\ Run(r, o, n) \cap allocated = {}
  BY <1>1, <1>2, Zenon
<1> QED BY <1>3, Zenon

\* A later start from which nothing is lost.
LEMMA FindSame ==
  ASSUME NEW r, NEW start \in Nat, NEW next \in Nat, NEW end \in Nat, NEW n \in Nat \ {0}, start <= next,
         \A o \in FreeRuns(r, start, end, n) : next <= o
  PROVE  FindFreeRun(r, start, end, n) = FindFreeRun(r, next, end, n)
<1>1. \A o \in FreeRuns(r, start, end, n) : o \in FreeRuns(r, next, end, n)
  BY FreeRunsOp, Zenon
<1>2. ASSUME NEW o \in FreeRuns(r, next, end, n) PROVE o \in FreeRuns(r, start, end, n)
  <2>1. /\ o \in Nat /\ next <= o /\ o + n <= end
        /\ (r.start_ppn + o) % n = 0 /\ Run(r, o, n) \cap allocated = {}
    BY FreeRunsOp, Zenon
  <2>2. start <= o
    BY <2>1
  <2> QED BY <2>1, <2>2, FreeRunsOp, Zenon
<1>3. FreeRuns(r, start, end, n) = FreeRuns(r, next, end, n)
  BY <1>1, <1>2, Zenon
<1> QED BY <1>3, Zenon DEF FindFreeRun

\* What one turn of the loop finds from an aligned offset: nothing when it is too near
\* the end, the offset itself when its run is free, and otherwise what is found from
\* the first aligned offset past the used frame.
LEMMA ScanTurn ==
  ASSUME NEW r, r.bitmap_base \in Nat, r.start_ppn \in Nat, NEW end \in Nat, NEW n \in Nat \ {0},
         NEW a \in Nat, (r.start_ppn + a) % n = 0
  PROVE  /\ a + n > end => FindFreeRun(r, a, end, n) = {}
         /\ a + n <= end /\ {i \in a..(a + n - 1) : Bit(r, i)} = {} => FindFreeRun(r, a, end, n) = {a}
         /\ {i \in a..(a + n - 1) : Bit(r, i)} # {} =>
              /\ AlignPpn(r.start_ppn + (Min({i \in a..(a + n - 1) : Bit(r, i)}) + 1), n) - r.start_ppn = a + n
              /\ (r.start_ppn + (a + n)) % n = 0
              /\ FindFreeRun(r, a, end, n) = FindFreeRun(r, a + n, end, n)
<1> DEFINE used == {i \in a..(a + n - 1) : Bit(r, i)}
           F == FreeRuns(r, a, end, n)
           s == r.start_ppn
<1>0. s \in Nat /\ s + a \in Nat /\ (s + a) % n = 0
  OBVIOUS
<1>1. ASSUME a + n > end PROVE FindFreeRun(r, a, end, n) = {}
  <2> SUFFICES ASSUME NEW o \in F PROVE FALSE
    BY Zenon DEF FindFreeRun
  <2>1. o \in Nat /\ a <= o /\ o + n <= end
    BY FreeRunsOp, Zenon
  <2> QED BY <1>1, <2>1
<1>2. ASSUME a + n <= end, used = {} PROVE FindFreeRun(r, a, end, n) = {a}
  <2>1. Run(r, a, n) \cap allocated = {}
    BY <1>2, RunOp, Zenon
  <2>2. a <= a
    OBVIOUS
  <2>3. a \in F /\ F \in SUBSET Nat
    BY <1>2, <2>1, <2>2, FreeRunsOp, Zenon
  <2>4. \A o \in F : a <= o
    BY FreeRunsOp, Zenon
  <2> HIDE DEF F
  <2>5. Min(F) \in F /\ Min(F) <= a /\ Min(F) \in Nat
    BY <2>3, MinOp, Zenon
  <2>6. Min(F) = a
    <3>1. a <= Min(F)
      BY <2>4, <2>5, Zenon
    <3> QED BY <2>5, <3>1
  <2>7. F # {}
    BY <2>3, Zenon
  <2> QED BY <2>6, <2>7, Zenon DEF FindFreeRun, F
<1>3. ASSUME used # {}
      PROVE  /\ AlignPpn(s + (Min(used) + 1), n) - s = a + n
             /\ (s + (a + n)) % n = 0
             /\ FindFreeRun(r, a, end, n) = FindFreeRun(r, a + n, end, n)
  <2>1. Min(used) \in a..(a + n - 1)
    <3>1. used \in SUBSET Nat
      OBVIOUS
    <3>2. Min(used) \in used
      BY <1>3, <3>1, MinOp, Zenon
    <3> QED BY <3>2, Zenon
  <2> DEFINE m == Min(used)
             p == s + (m + 1)
             q == AlignPpn(p, n)
  <2> HIDE DEF m, used, s
  <2>2. m \in Nat /\ a <= m /\ m + 1 <= a + n /\ p \in Nat
    BY <2>1, <1>0 DEF m
  <2>3. q \in Nat /\ q % n = 0 /\ p <= q /\ \A x \in Nat : p <= x /\ x % n = 0 => q <= x
    BY <2>2, AlignPpnOp, Zenon
  <2>4. s + a < q
    <3> HIDE DEF q
    <3> QED BY <1>0, <2>2, <2>3
  <2>5. s + a + n <= q /\ (s + a + n) % n = 0
    BY <1>0, <2>3, <2>4, NextMultiple, Zenon
  <2>6. q <= s + a + n
    <3>1. p <= s + a + n /\ s + a + n \in Nat
      BY <1>0, <2>2
    <3> QED BY <2>3, <2>5, <3>1, Zenon
  <2>7. q - s = a + n /\ s + (a + n) = s + a + n
    <3> HIDE DEF q
    <3> QED BY <1>0, <2>3, <2>5, <2>6
  <2>8. \A o \in F : a + n <= o
    <3> SUFFICES ASSUME NEW o \in F PROVE a + n <= o
      BY Zenon
    <3>1. /\ o \in Nat /\ a <= o /\ (s + o) % n = 0 /\ Run(r, o, n) \cap allocated = {}
      BY FreeRunsOp, Zenon DEF s
    <3>2. o # a
      BY <3>1, <1>3, RunOp, Zenon DEF used
    <3>3. s + a < s + o /\ s + o \in Nat
      BY <1>0, <3>1, <3>2
    <3>4. s + a + n <= s + o
      BY <1>0, <3>1, <3>3, NextMultiple, Zenon
    <3> QED BY <1>0, <3>1, <3>4
  <2> DEFINE b == a + n
  <2>9. a <= b /\ b \in Nat
    OBVIOUS
  <2>10. FindFreeRun(r, a, end, n) = FindFreeRun(r, b, end, n)
    <3> HIDE DEF b
    <3>1. \A o \in FreeRuns(r, a, end, n) : b <= o
      BY <2>8, Zenon DEF b
    <3> QED BY <2>9, <3>1, FindSame
  <2>11. (s + (a + n)) % n = 0
    BY <2>5, <2>7, Zenon
  <2> QED BY <2>7, <2>10, <2>11, Zenon DEF m
<1> QED BY <1>1, <1>2, <1>3, Zenon

\* The loop finds the first aligned free run: its recursion has a solution, and in every
\* solution an aligned offset has the value of FindFreeRun, from the end backwards.
LEMMA ScanOp ==
  ASSUME NEW r, r.bitmap_base \in Nat, r.start_ppn \in Nat, NEW start \in Nat, NEW end \in Nat,
         start <= end, NEW n \in Nat \ {0}
  PROVE  Scan(r, start, end, n) = FindFreeRun(r, start, end, n)
<1> DEFINE Align(o) == AlignPpn(r.start_ppn + o, n) - r.start_ppn
           Used(o) == {i \in o..(o + n - 1) : Bit(r, i)}
           D == 0..(end + n)
           Body(f, o) == IF o + n > end THEN {}
                         ELSE IF Used(o) = {} THEN {o} ELSE f[Align(Min(Used(o)) + 1)]
           From == CHOOSE f : f = [o \in D |-> Body(f, o)]
           Found(o) == FindFreeRun(r, o, end, n)
           Aligned(o) == (r.start_ppn + o) % n = 0
<1>1. Scan(r, start, end, n) = From[Align(start)]
  BY Zenon DEF Scan
<1>2. ASSUME NEW o \in Nat
      PROVE  /\ Align(o) \in Nat /\ o <= Align(o) /\ Align(o) < o + n /\ Aligned(Align(o))
             /\ \A x \in Nat : o <= x /\ Aligned(x) => Align(o) <= x
  <2> DEFINE s == r.start_ppn
             p == s + o
             q == AlignPpn(p, n)
  <2>1. p \in Nat /\ s \in Nat
    OBVIOUS
  <2>2. q \in Nat /\ q % n = 0 /\ p <= q /\ q < p + n /\ \A x \in Nat : p <= x /\ x % n = 0 => q <= x
    BY <2>1, AlignPpnOp, Zenon
  <2>3. Align(o) = q - s
    BY Zenon
  <2> HIDE DEF q
  <2>4. q - s \in Nat /\ o <= q - s /\ q - s < o + n /\ s + (q - s) = q
    BY <2>1, <2>2
  <2>5. ASSUME NEW x \in Nat, o <= x, (s + x) % n = 0 PROVE q - s <= x
    <3>1. p <= s + x /\ s + x \in Nat
      BY <2>1, <2>5
    <3>2. q <= s + x
      BY <2>2, <2>5, <3>1, Zenon
    <3> QED BY <2>1, <2>2, <3>2
  <2> QED BY <2>2, <2>3, <2>4, <2>5, Zenon
<1> HIDE DEF Align
<1>3. ASSUME NEW a \in Nat, Aligned(a)
      PROVE  /\ a + n > end => Found(a) = {}
             /\ a + n <= end /\ Used(a) = {} => Found(a) = {a}
             /\ Used(a) # {} => /\ Align(Min(Used(a)) + 1) = a + n
                                /\ Aligned(a + n) /\ Found(a) = Found(a + n)
  BY <1>3, ScanTurn, Zenon DEF Align
<1>4. ASSUME NEW o \in D, ~(o + n > end), Used(o) # {}
      PROVE  /\ Align(Min(Used(o)) + 1) \in D /\ Align(Min(Used(o)) + 1) \in Nat
             /\ Aligned(Align(Min(Used(o)) + 1))
  <2>1. o \in Nat
    OBVIOUS
  <2>2. Used(o) \in SUBSET Nat
    BY <2>1
  <2>3. Min(Used(o)) \in o..(o + n - 1)
    <3>1. Min(Used(o)) \in Used(o)
      BY <1>4, <2>2, MinOp, Zenon
    <3> QED BY <3>1, Zenon
  <2> DEFINE m == Min(Used(o)) + 1
             b == Align(m)
  <2>4. m \in Nat /\ m <= o + n
    BY <2>1, <2>3
  <2> HIDE DEF m
  <2>5. b \in Nat /\ b < m + n /\ Aligned(b)
    BY <1>2, <2>4, Zenon
  <2> HIDE DEF b
  <2>6. b \in D
    BY <1>4, <2>1, <2>4, <2>5
  <2> QED BY <2>5, <2>6, Zenon DEF b, m
<1>5. From = [o \in D |-> Body(From, o)]
  <2> DEFINE W(o) == IF o + n > end THEN {}
                     ELSE IF Used(o) = {} THEN {o} ELSE Found(Align(Min(Used(o)) + 1))
             w == [o \in D |-> W(o)]
  <2>1. ASSUME NEW a \in D, Aligned(a) PROVE W(a) = Found(a)
    <3>1. a \in Nat
      OBVIOUS
    <3>2. a + n > end \/ a + n <= end
      BY <3>1
    <3> HIDE DEF Used, Found, Aligned
    <3>3. CASE a + n > end
      BY <3>1, <3>3, <2>1, <1>3, Zenon
    <3>4. CASE ~(a + n > end) /\ Used(a) = {}
      BY <3>1, <3>2, <3>4, <2>1, <1>3, Zenon
    <3>5. CASE ~(a + n > end) /\ Used(a) # {}
      BY <3>1, <3>5, <2>1, <1>3, Zenon
    <3> QED BY <3>3, <3>4, <3>5, Zenon
  <2>2. ASSUME NEW o \in D PROVE W(o) = Body(w, o)
    <3> HIDE DEF Used, Found, Aligned, D
    <3>1. CASE o + n > end
      BY <3>1, Zenon
    <3>2. CASE ~(o + n > end) /\ Used(o) = {}
      BY <3>2, Zenon
    <3>3. CASE ~(o + n > end) /\ Used(o) # {}
      <4> DEFINE b == Align(Min(Used(o)) + 1)
      <4>1. b \in D /\ Aligned(b)
        BY <3>3, <1>4, Zenon
      <4>2. W(o) = Found(b) /\ Body(w, o) = w[b]
        BY <3>3, Zenon
      <4> HIDE DEF b, W
      <4>3. w[b] = W(b)
        BY <4>1, Zenon
      <4>4. W(b) = Found(b)
        BY <4>1, <2>1, Zenon
      <4> QED BY <4>2, <4>3, <4>4, Zenon
    <3> QED BY <3>1, <3>2, <3>3, Zenon
  <2> HIDE DEF W, Body, D
  <2>3. w = [o \in D |-> Body(w, o)]
    <3> DEFINE v == [o \in D |-> Body(w, o)]
    <3>1. \A o \in D : w[o] = v[o]
      BY <2>2, Zenon
    <3>2. DOMAIN w = D /\ DOMAIN v = D
      BY Zenon
    <3> QED BY <2>2, Zenon
  <2> HIDE DEF w
  <2> QED BY <2>3, Zenon
<1> HIDE DEF From, Body
<1>6. ASSUME NEW a \in D, Aligned(a) PROVE From[a] = Found(a)
  <2> DEFINE Bad == {k \in Nat : \E x \in D : Aligned(x) /\ k = end + n - x /\ From[x] # Found(x)}
             k == Min(Bad)
  <2> SUFFICES ASSUME From[a] # Found(a) PROVE FALSE
    BY Zenon
  <2>1. end + n - a \in Nat
    OBVIOUS
  <2>2. end + n - a \in Bad
    BY <1>6, <2>1, Zenon
  <2>3. k \in Bad /\ \A j \in Bad : k <= j
    BY <2>2, MinOp, Zenon
  <2>4. PICK x \in D : Aligned(x) /\ k = end + n - x /\ From[x] # Found(x)
    BY <2>3, Zenon
  <2>5. x \in Nat /\ k \in Nat
    BY <2>3
  <2>6. From[x] = Body(From, x)
    BY <1>5, Zenon
  <2>7. CASE x + n > end
    <3>1. Body(From, x) = {}
      BY <2>7, Zenon DEF Body
    <3>2. Found(x) = {}
      BY <1>3, <2>4, <2>5, <2>7, Zenon
    <3> QED BY <2>4, <2>6, <3>1, <3>2, Zenon
  <2>8. CASE ~(x + n > end) /\ Used(x) = {}
    <3>1. Body(From, x) = {x}
      BY <2>8, Zenon DEF Body
    <3>2. x + n <= end
      BY <2>5, <2>8
    <3>3. Found(x) = {x}
      BY <1>3, <2>4, <2>5, <2>8, <3>2, Zenon
    <3> QED BY <2>4, <2>6, <3>1, <3>3, Zenon
  <2>9. CASE ~(x + n > end) /\ Used(x) # {}
    <3> DEFINE b == x + n
    <3>1. Align(Min(Used(x)) + 1) = b /\ Aligned(b) /\ Found(x) = Found(b)
      BY <1>3, <2>4, <2>5, <2>9, Zenon
    <3>2. Body(From, x) = From[b]
      BY <2>9, <3>1, Zenon DEF Body
    <3>3. b \in D /\ end + n - b \in Nat /\ end + n - b < k
      BY <2>4, <2>5, <2>9
    <3> HIDE DEF b
    <3>4. From[b] # Found(b)
      BY <2>4, <2>6, <3>1, <3>2, Zenon
    <3>5. end + n - b \in Bad
      BY <3>1, <3>3, <3>4, Zenon
    <3>6. k <= end + n - b
      BY <2>3, <3>5, Zenon
    <3> HIDE DEF Bad, k
    <3> QED BY <2>5, <3>3, <3>6
  <2> QED BY <2>7, <2>8, <2>9, Zenon
<1>7. Found(start) = Found(Align(start))
  <2> DEFINE b == Align(start)
  <2>1. b \in Nat /\ start <= b /\ \A x \in Nat : start <= x /\ Aligned(x) => b <= x
    BY <1>2, Zenon
  <2> HIDE DEF b
  <2>2. \A o \in FreeRuns(r, start, end, n) : o \in Nat /\ start <= o /\ Aligned(o)
    BY FreeRunsOp, Zenon
  <2>3. \A o \in FreeRuns(r, start, end, n) : b <= o
    BY <2>1, <2>2, Zenon
  <2>4. Found(start) = Found(b)
    BY <2>1, <2>3, FindSame
  <2> QED BY <2>4, Zenon DEF b
<1>8. Align(start) \in D /\ Aligned(Align(start))
  <2>1. Align(start) \in Nat /\ Align(start) < start + n /\ Aligned(Align(start))
    BY <1>2, Zenon
  <2>2. Align(start) \in D
    BY <2>1
  <2> QED BY <2>1, <2>2, Zenon
<1> QED BY <1>1, <1>6, <1>7, <1>8, Zenon

LEMMA ScansFind == ASSUME FrameInv PROVE ScanFindsFirst
<1> SUFFICES ASSUME NEW i \in 1..Len(regions), NEW start \in 0..regions[i].frames, NEW count \in 1..MaxCount,
                    NEW end \in start..regions[i].frames
             PROVE  Scan(regions[i], start, end, NextPowerOfTwo(count))
                      = FindFreeRun(regions[i], start, end, NextPowerOfTwo(count))
  BY Zenon DEF ScanFindsFirst
<1>1. regions \in Seq(Region)
  BY Zenon DEF FrameInv, TypeOK
<1>2. regions[i] \in Region
  BY <1>1
<1>3. regions[i].start_ppn \in Nat /\ regions[i].bitmap_base \in Nat /\ regions[i].frames \in Nat
  BY <1>2 DEF Region
<1>4. start \in Nat /\ end \in Nat /\ start <= end /\ count \in Nat \ {0}
  BY <1>3, FrameAssumption
<1>5. NextPowerOfTwo(count) \in Nat \ {0}
  BY <1>4, NextPower, Zenon
<1> QED BY <1>3, <1>4, <1>5, ScanOp, Zenon
=============================================================================
