------------------------ MODULE PodInjection_proofs ------------------------
(***************************************************************************)
(* PInv is an inductive invariant of PodInjection, and with it what it     *)
(* says of the containers of a pod, for any annotations and Vault roles.   *)
(***************************************************************************)
EXTENDS PodInjection, FiniteSetTheorems, WellFoundedInduction, TLAPS

(* Least and greatest numbers *)

\* The least-number principle, as a fact about sets.
LEMMA NatLeast ==
  ASSUME NEW T, T \subseteq Nat, T # {}
  PROVE  \E n \in T : \A m \in T : n <= m
<1> DEFINE R == OpToRel(<, Nat)
<1>1. IsWellFoundedOn(R, Nat)
  BY NatLessThanWellFounded, Zenon
<1>2. \A x, y \in Nat : y < x => <<y, x>> \in R
  BY Zenon DEF OpToRel
<1> HIDE DEF R
<1>3. \E n \in T : \A m \in T : ~ (<<m, n>> \in R)
  BY <1>1, WFMin
<1>4. PICK n \in T : \A m \in T : ~ (<<m, n>> \in R)
  BY <1>3
<1>5. \A m \in T : m \in Nat /\ n \in Nat /\ ~ (m < n)
  BY <1>2, <1>4
<1>6. \A m \in T : n <= m
  BY <1>5
<1> QED BY <1>4, <1>6

\* Max of numbers that are bounded is one of them, and the greatest.
LEMMA MaxOfBounded ==
  ASSUME NEW n \in Nat, NEW I \in SUBSET (1..n), I # {}
  PROVE  Max(I) \in I /\ \A i \in I : i <= Max(I)
<1> DEFINE T == {k \in Nat : \A i \in I : i <= k}
<1>1. n \in T /\ T \subseteq Nat
  OBVIOUS
<1>2. PICK m \in T : \A k \in T : m <= k
  BY <1>1, NatLeast, Zenon
<1>3. m \in I
  <2> SUFFICES ASSUME m \notin I PROVE FALSE
    OBVIOUS
  <2>1. PICK i \in I : i \in 1..n /\ i <= m
    BY <1>2
  <2>2. m - 1 \in T
    BY <1>2, <2>1
  <2> QED BY <1>2, <2>2
<1>4. \E x \in I : \A y \in I : x >= y
  BY <1>2, <1>3
<1> QED BY <1>4 DEF Max

-----------------------------------------------------------------------------
(* FlattenSeq *)

\* What the recursion of FlattenSeq has at i.
Step(ss, f, i) == IF i = 1 THEN ss[i] ELSE f[i - 1] \o ss[i]

\* There is a function as FlattenSeq defines it.
LEMMA FlattenExists ==
  ASSUME NEW ss, NEW n \in Nat
  PROVE  \E f : f = [i \in 1..n |-> Step(ss, f, i)]
<1> DEFINE T == {k \in Nat : ~ \E f : f = [i \in 1..k |-> Step(ss, f, i)]}
<1> SUFFICES ASSUME n \in T PROVE FALSE
  OBVIOUS
<1>1. PICK k \in T : \A m \in T : k <= m
  <2> HIDE DEF T
  <2>1. T \subseteq Nat
    BY DEF T
  <2> QED BY <2>1, NatLeast, Zenon
<1>2. k \in Nat
  OBVIOUS
<1>3. CASE k = 0
  <2> DEFINE f == [i \in 1..0 |-> ss]
  <2>1. f = [i \in 1..k |-> Step(ss, f, i)]
    BY <1>3
  <2> QED BY <2>1
<1>4. CASE k # 0
  <2>1. k - 1 \in Nat /\ k - 1 \notin T
    BY <1>1, <1>2, <1>4
  <2>2. PICK f : f = [i \in 1..(k-1) |-> Step(ss, f, i)]
    BY <2>1
  <2> DEFINE g == [i \in 1..k |-> IF i < k THEN f[i] ELSE Step(ss, f, i)]
  <2>3. ASSUME NEW i \in 1..k PROVE g[i] = Step(ss, g, i)
    <3>1. i # 1 => i - 1 \in 1..k /\ i - 1 < k /\ g[i - 1] = f[i - 1]
      BY <1>2
    <3>2. Step(ss, g, i) = Step(ss, f, i)
      BY <3>1 DEF Step
    <3>3. i < k => f[i] = Step(ss, f, i)
      <4> HAVE i < k
      <4>1. i \in 1..(k-1)
        BY <1>2
      <4> QED BY <2>2, <4>1
    <3> QED BY <3>2, <3>3
  <2>4. g = [i \in 1..k |-> Step(ss, g, i)]
    <3>1. DOMAIN g = 1..k
      OBVIOUS
    <3> HIDE DEF g
    <3>2. g = [i \in 1..k |-> g[i]]
      BY <3>1 DEF g
    <3> QED BY <2>3, <3>2
  <2> HIDE DEF g
  <2> QED BY <2>4
<1> QED BY <1>3, <1>4

\* A sequence has what its halves have.
LEMMA RangeOfConcat ==
  ASSUME NEW L, NEW u \in Seq(L), NEW p \in Seq(L)
  PROVE  u \o p \in Seq(L) /\ Range(u \o p) = Range(u) \cup Range(p)
<1>1. /\ DOMAIN u = 1..Len(u) /\ Len(u) \in Nat /\ DOMAIN p = 1..Len(p) /\ Len(p) \in Nat
      /\ DOMAIN (u \o p) = 1..(Len(u) + Len(p))
      /\ \A k \in 1..(Len(u) + Len(p)) : (u \o p)[k] = IF k <= Len(u) THEN u[k] ELSE p[k - Len(u)]
  OBVIOUS
<1>2. ASSUME NEW x \in Range(u \o p)
      PROVE  x \in Range(u) \/ x \in Range(p)
  <2>1. PICK k \in 1..(Len(u) + Len(p)) : x = (u \o p)[k]
    BY <1>1 DEF Range
  <2>2. CASE k <= Len(u)
    BY <1>1, <2>1, <2>2 DEF Range
  <2>3. CASE ~(k <= Len(u))
    <3>1. k - Len(u) \in 1..Len(p)
      BY <1>1, <2>3
    <3> QED BY <1>1, <2>1, <2>3, <3>1 DEF Range
  <2> QED BY <2>2, <2>3
<1>3. ASSUME NEW k \in 1..Len(u) PROVE u[k] \in Range(u \o p)
  <2>1. k \in 1..(Len(u) + Len(p)) /\ (u \o p)[k] = u[k]
    BY <1>1
  <2> QED BY <1>1, <2>1 DEF Range
<1>4. ASSUME NEW k \in 1..Len(p) PROVE p[k] \in Range(u \o p)
  <2>1. /\ Len(u) + k \in 1..(Len(u) + Len(p)) /\ ~(Len(u) + k <= Len(u))
        /\ (Len(u) + k) - Len(u) = k
    BY <1>1
  <2>2. (u \o p)[Len(u) + k] = p[k]
    BY <1>1, <2>1
  <2> QED BY <1>1, <2>1, <2>2 DEF Range
<1>5. Range(u) = {u[k] : k \in 1..Len(u)} /\ Range(p) = {p[k] : k \in 1..Len(p)}
  BY <1>1 DEF Range
<1>6. u \o p \in Seq(L)
  OBVIOUS
<1> DEFINE R == Range(u \o p)
<1> HIDE DEF R
<1>7. R \subseteq Range(u) \cup Range(p)
  BY <1>2 DEF R
<1>8. Range(u) \subseteq R /\ Range(p) \subseteq R
  BY <1>3, <1>4, <1>5 DEF R
<1>9. R = Range(u) \cup Range(p)
  BY <1>7, <1>8
<1> QED BY <1>6, <1>9 DEF R

\* f counts up to FlattenSeq(ss), one sequence of ss at a time.
Unfolds(f, L, ss) ==
  /\ FlattenSeq(ss) = f[Len(ss)] /\ f[1] = ss[1]
  /\ \A k \in 1..Len(ss) : f[k] \in Seq(L) /\ (k # 1 => f[k] = f[k - 1] \o ss[k])

\* FlattenSeq appends one sequence after the other.
LEMMA FlattenSteps ==
  ASSUME NEW L, NEW ss \in Seq(Seq(L)), Len(ss) # 0
  PROVE  \E f : Unfolds(f, L, ss)
<1> DEFINE n == Len(ss)
           f == CHOOSE f : f = [i \in 1..n |-> Step(ss, f, i)]
<1>1. n \in Nat /\ n >= 1 /\ \A i \in 1..n : ss[i] \in Seq(L)
  OBVIOUS
<1>2. FlattenSeq(ss) = f[n]
  BY DEF FlattenSeq, Step
<1>3. f = [i \in 1..n |-> Step(ss, f, i)]
  <2> HIDE DEF n
  <2> QED BY <1>1, FlattenExists
<1> HIDE DEF n, f
<1>4. f[1] = ss[1] /\ \A k \in 1..n : k # 1 => f[k] = f[k - 1] \o ss[k]
  <2>1. \A k \in 1..n : f[k] = Step(ss, f, k)
    BY <1>3
  <2>2. 1 \in 1..n
    BY <1>1
  <2> QED BY <2>1, <2>2 DEF Step
<1> DEFINE T == {k \in 1..n : f[k] \notin Seq(L)}
<1>5. T = {}
  <2> SUFFICES ASSUME T # {} PROVE FALSE
    OBVIOUS
  <2>1. PICK k \in T : \A m \in T : k <= m
    <3>1. T \subseteq Nat
      BY <1>1
    <3> HIDE DEF T
    <3> QED BY <3>1, NatLeast, Zenon
  <2>2. CASE k = 1
    BY <1>1, <1>4, <2>2
  <2>3. CASE k # 1
    <3>1. k - 1 \in 1..n /\ ~(k <= k - 1)
      BY <1>1, <2>3
    <3>2. f[k - 1] \in Seq(L) /\ ss[k] \in Seq(L) /\ f[k] = f[k - 1] \o ss[k]
      BY <1>1, <1>4, <2>1, <2>3, <3>1
    <3> DEFINE g == f[k - 1]
               h == ss[k]
    <3> HIDE DEF g, h
    <3>3. g \in Seq(L) /\ h \in Seq(L) /\ f[k] = g \o h
      BY <3>2 DEF g, h
    <3>4. f[k] \in Seq(L)
      BY <3>3
    <3> QED BY <3>4
  <2> QED BY <2>2, <2>3
<1>6. Unfolds(f, L, ss)
  BY <1>2, <1>4, <1>5 DEF n, Unfolds
<1> QED BY <1>6

\* Its lines are those of the sequences in it.
LEMMA FlattenLines ==
  ASSUME NEW L, NEW ss \in Seq(Seq(L))
  PROVE  /\ FlattenSeq(ss) \in Seq(L)
         /\ Range(FlattenSeq(ss)) \subseteq UNION {Range(ss[i]) : i \in DOMAIN ss}
         /\ \A i \in DOMAIN ss : Range(ss[i]) \subseteq Range(FlattenSeq(ss))
<1> DEFINE n == Len(ss)
           From(k) == UNION {Range(ss[i]) : i \in 1..k}
<1>1. CASE n = 0
  BY <1>1 DEF FlattenSeq, Range
<1>2. CASE n # 0
  <2>1. n \in Nat /\ n >= 1 /\ DOMAIN ss = 1..n /\ \A i \in 1..n : ss[i] \in Seq(L)
    BY <1>2
  <2>2. PICK f : /\ FlattenSeq(ss) = f[n] /\ f[1] = ss[1]
                 /\ \A k \in 1..n : f[k] \in Seq(L) /\ (k # 1 => f[k] = f[k - 1] \o ss[k])
    <3>1. \E f : Unfolds(f, L, ss)
      BY <1>2, FlattenSteps
    <3> QED BY <3>1 DEF Unfolds
  <2> HIDE DEF n
  <2> DEFINE T == {k \in 1..n : Range(f[k]) # From(k)}
  <2>3. T = {}
    <3> SUFFICES ASSUME T # {} PROVE FALSE
      OBVIOUS
    <3>1. PICK k \in T : \A m \in T : k <= m
      <4>1. T \subseteq Nat
        BY <2>1
      <4> HIDE DEF T
      <4> QED BY <4>1, NatLeast, Zenon
    <3>2. CASE k = 1
      <4>1. 1..1 = {1}
        OBVIOUS
      <4>2. From(1) = Range(ss[1])
        BY <4>1
      <4> QED BY <2>2, <3>1, <3>2, <4>2
    <3>3. CASE k # 1
      <4>1. k \in 1..n /\ k - 1 \in 1..n /\ ~(k <= k - 1) /\ 1..k = (1..(k - 1)) \cup {k}
        BY <2>1, <3>3
      <4>2. Range(f[k - 1]) = From(k - 1)
        BY <3>1, <4>1
      <4>3. From(k) = From(k - 1) \cup Range(ss[k])
        BY <4>1
      <4>4. f[k - 1] \in Seq(L) /\ ss[k] \in Seq(L) /\ f[k] = f[k - 1] \o ss[k]
        BY <2>1, <2>2, <3>3, <4>1
      <4>5. Range(f[k]) = Range(f[k - 1]) \cup Range(ss[k])
        BY <4>4, RangeOfConcat
      <4> QED BY <3>1, <4>2, <4>3, <4>5
    <3> QED BY <3>2, <3>3
  <2>4. Range(f[n]) = From(n) /\ f[n] \in Seq(L)
    <3>1. n \in 1..n
      BY <2>1
    <3> HIDE DEF From
    <3> QED BY <2>2, <2>3, <3>1
  <2> QED BY <2>1, <2>2, <2>4
<1> QED BY <1>1, <1>2

\* The sequence of what h has for the members of s.
Mapped(h, s) == [k \in DOMAIN s |-> h[s[k]]]

LEMMA MappedConcat ==
  ASSUME NEW L, NEW h, NEW u \in Seq(L), NEW p \in Seq(L)
  PROVE  Mapped(h, u \o p) = Mapped(h, u) \o Mapped(h, p)
<1> DEFINE M == {h[x] : x \in L}
           hu == Mapped(h, u)
           hp == Mapped(h, p)
           hup == Mapped(h, u \o p)
<1>1. /\ DOMAIN u = 1..Len(u) /\ Len(u) \in Nat /\ DOMAIN p = 1..Len(p) /\ Len(p) \in Nat
      /\ u \o p \in Seq(L) /\ DOMAIN (u \o p) = 1..(Len(u) + Len(p))
      /\ \A k \in 1..(Len(u) + Len(p)) : (u \o p)[k] = IF k <= Len(u) THEN u[k] ELSE p[k - Len(u)]
  OBVIOUS
<1>2. /\ hu \in [1..Len(u) -> M] /\ \A k \in 1..Len(u) : hu[k] = h[u[k]]
      /\ hp \in [1..Len(p) -> M] /\ \A k \in 1..Len(p) : hp[k] = h[p[k]]
  BY <1>1 DEF Mapped
<1>3. /\ DOMAIN hup = 1..(Len(u) + Len(p)) /\ hup = [k \in 1..(Len(u) + Len(p)) |-> hup[k]]
      /\ \A k \in 1..(Len(u) + Len(p)) : hup[k] = h[(u \o p)[k]]
  BY <1>1 DEF Mapped
<1> HIDE DEF hu, hp, hup, M
<1>4. hu \in Seq(M) /\ hp \in Seq(M) /\ Len(hu) = Len(u) /\ Len(hp) = Len(p)
  <2>1. ASSUME NEW m \in Nat, NEW q \in [1..m -> M] PROVE q \in Seq(M) /\ Len(q) = m
    OBVIOUS
  <2> QED BY <1>1, <1>2, <2>1
<1>5. /\ hu \o hp = [k \in 1..(Len(u) + Len(p)) |-> (hu \o hp)[k]]
      /\ \A k \in 1..(Len(u) + Len(p)) :
           (hu \o hp)[k] = IF k <= Len(u) THEN hu[k] ELSE hp[k - Len(u)]
  <2>1. /\ hu \o hp \in Seq(M) /\ DOMAIN (hu \o hp) = 1..(Len(hu) + Len(hp))
        /\ \A k \in 1..(Len(hu) + Len(hp)) :
             (hu \o hp)[k] = IF k <= Len(hu) THEN hu[k] ELSE hp[k - Len(hu)]
    BY <1>4
  <2>2. ASSUME NEW q \in Seq(M) PROVE q = [k \in DOMAIN q |-> q[k]]
    OBVIOUS
  <2>3. hu \o hp = [k \in DOMAIN (hu \o hp) |-> (hu \o hp)[k]]
    BY <2>1, <2>2
  <2> QED BY <1>4, <2>1, <2>3
<1>6. ASSUME NEW k \in 1..(Len(u) + Len(p)) PROVE hup[k] = (hu \o hp)[k]
  <2>1. CASE k <= Len(u)
    <3>1. k \in 1..Len(u)
      BY <1>1, <2>1
    <3>2. hu[k] = h[u[k]] /\ (u \o p)[k] = u[k] /\ (hu \o hp)[k] = hu[k]
      BY <1>1, <1>2, <1>5, <2>1, <3>1
    <3> QED BY <1>3, <3>2
  <2>2. CASE ~(k <= Len(u))
    <3>1. k - Len(u) \in 1..Len(p)
      BY <1>1, <2>2
    <3> QED BY <1>1, <1>2, <1>3, <1>5, <2>2, <3>1
  <2> QED BY <2>1, <2>2
<1>7. hup = hu \o hp
  BY <1>3, <1>5, <1>6
<1> QED BY <1>4, <1>7 DEF hu, hp, hup

EachMapped(h, ss, tt) ==
  DOMAIN tt = DOMAIN ss /\ \A i \in DOMAIN ss : tt[i] = Mapped(h, ss[i])

\* To map and to flatten is the same in either order.
LEMMA FlattenMapped ==
  ASSUME NEW A, NEW B, NEW m, NEW rr \in Seq(Seq(A)), NEW tt \in Seq(Seq(B)),
         EachMapped(m, rr, tt)
  PROVE  FlattenSeq(tt) = Mapped(m, FlattenSeq(rr))
<1> DEFINE n == Len(rr)
<1>1. /\ n \in Nat /\ DOMAIN rr = 1..n /\ Len(tt) = n
      /\ \A i \in 1..n : rr[i] \in Seq(A) /\ tt[i] = Mapped(m, rr[i])
  BY DEF EachMapped
<1>2. CASE n = 0
  <2>1. FlattenSeq(rr) = <<>> /\ FlattenSeq(tt) = <<>>
    BY <1>1, <1>2 DEF FlattenSeq
  <2> QED BY <2>1 DEF Mapped
<1>3. CASE n # 0
  <2>1. PICK f : /\ FlattenSeq(rr) = f[n] /\ f[1] = rr[1]
                 /\ \A k \in 1..n : f[k] \in Seq(A) /\ (k # 1 => f[k] = f[k - 1] \o rr[k])
    <3>1. Len(rr) # 0
      BY <1>3
    <3>2. \E f : Unfolds(f, A, rr)
      BY <3>1, FlattenSteps
    <3> QED BY <3>2 DEF Unfolds
  <2>2. PICK g : /\ FlattenSeq(tt) = g[n] /\ g[1] = tt[1]
                 /\ \A k \in 1..n : g[k] \in Seq(B) /\ (k # 1 => g[k] = g[k - 1] \o tt[k])
    <3>1. Len(tt) # 0
      BY <1>1, <1>3
    <3>2. \E g : Unfolds(g, B, tt)
      BY <3>1, FlattenSteps
    <3> HIDE DEF n
    <3> QED BY <1>1, <3>2 DEF Unfolds
  <2> HIDE DEF n
  <2> DEFINE T == {k \in 1..n : g[k] # Mapped(m, f[k])}
  <2>3. T = {}
    <3> SUFFICES ASSUME T # {} PROVE FALSE
      OBVIOUS
    <3>1. PICK k \in T : \A l \in T : k <= l
      <4>1. T \subseteq Nat
        BY <1>1
      <4> HIDE DEF T
      <4> QED BY <4>1, NatLeast, Zenon
    <3>2. CASE k = 1
      BY <1>1, <2>1, <2>2, <3>1, <3>2
    <3>3. CASE k # 1
      <4>1. k \in 1..n /\ k - 1 \in 1..n /\ ~(k <= k - 1)
        BY <1>1, <3>3
      <4>2. g[k - 1] = Mapped(m, f[k - 1]) /\ tt[k] = Mapped(m, rr[k])
        BY <1>1, <3>1, <4>1
      <4>3. /\ f[k - 1] \in Seq(A) /\ rr[k] \in Seq(A) /\ f[k] = f[k - 1] \o rr[k]
            /\ g[k] = g[k - 1] \o tt[k]
        BY <1>1, <2>1, <2>2, <3>3, <4>1
      <4>4. Mapped(m, f[k - 1] \o rr[k]) = Mapped(m, f[k - 1]) \o Mapped(m, rr[k])
        <5> DEFINE u == f[k - 1]
                   p == rr[k]
        <5>1. u \in Seq(A) /\ p \in Seq(A)
          BY <4>3
        <5> HIDE DEF T, u, p, n
        <5>2. Mapped(m, u \o p) = Mapped(m, u) \o Mapped(m, p)
          BY <5>1, MappedConcat
        <5> QED BY <5>2 DEF u, p
      <4> QED BY <3>1, <4>2, <4>3, <4>4
    <3> QED BY <3>2, <3>3
  <2>4. n \in 1..n
    BY <1>1, <1>3 DEF n
  <2>5. g[n] = Mapped(m, f[n])
    BY <2>3, <2>4
  <2> QED BY <2>1, <2>2, <2>5
<1> QED BY <1>2, <1>3

-----------------------------------------------------------------------------
(* InOrder *)

\* Finitely many dbConfigurations, of different databases.
Sortable(S) ==
  IsFiniteSet(S) /\ \A c \in S : c.db \in Nat /\ \A d \in S : c.db = d.db => c = d

Ascending(s) == \A i, j \in DOMAIN s : i < j => s[i].db < s[j].db

\* They have an order: the one with the least name, and then the others in theirs.
LEMMA OrderExists ==
  ASSUME NEW S, Sortable(S)
  PROVE  \E s \in [1..Cardinality(S) -> S] : Ascending(s)
<1> DEFINE Bad(n, R) ==
             /\ Sortable(R) /\ Cardinality(R) = n
             /\ ~ \E s \in [1..Cardinality(R) -> R] : Ascending(s)
           T == {n \in Nat : \E R : Bad(n, R)}
<1> SUFFICES ASSUME Bad(Cardinality(S), S) PROVE FALSE
  OBVIOUS
<1>1. Cardinality(S) \in T
  BY FS_CardinalityType DEF Sortable
<1>2. PICK n \in T : \A m \in T : n <= m
  <2>1. T \subseteq Nat
    OBVIOUS
  <2> HIDE DEF T
  <2> QED BY <1>1, <2>1, NatLeast, Zenon
<1>3. PICK R : Bad(n, R)
  OBVIOUS
<1>4. CASE R = {}
  <2>1. Cardinality(R) = 0
    BY <1>4, FS_EmptySet
  <2>2. [i \in 1..0 |-> R] \in [1..Cardinality(R) -> R] /\ Ascending([i \in 1..0 |-> R])
    BY <2>1 DEF Ascending
  <2> QED BY <1>3, <2>2
<1>5. CASE R # {}
  <2>1. PICK c \in R : \A d \in R : c.db <= d.db
    <3> DEFINE names == {d.db : d \in R}
    <3>1. names \subseteq Nat /\ names # {}
      BY <1>3, <1>5 DEF Sortable
    <3>2. PICK l \in names : \A m \in names : l <= m
      <4> HIDE DEF names
      <4> QED BY <3>1, NatLeast, Zenon
    <3> QED BY <3>2
  <2> DEFINE Q == R \ {c}
  <2>2. IsFiniteSet(Q) /\ Cardinality(Q) = n - 1 /\ n \in Nat /\ n >= 1
    <3>1. IsFiniteSet(R) /\ Cardinality(R) = n
      BY <1>3 DEF Sortable
    <3>2. n \in Nat /\ n # 0
      BY <3>1, <1>5, FS_EmptySet, FS_CardinalityType
    <3>3. IsFiniteSet(Q) /\ Cardinality(Q) = n - 1
      BY <3>1, FS_RemoveElement
    <3> QED BY <3>2, <3>3
  <2>3. n - 1 \in Nat /\ n - 1 \notin T
    BY <1>2, <2>2
  <2>4. Sortable(Q)
    BY <1>3, <2>2 DEF Sortable
  <2>5. PICK q \in [1..(n-1) -> Q] : Ascending(q)
    BY <2>2, <2>3, <2>4
  <2> DEFINE s == [i \in 1..n |-> IF i = 1 THEN c ELSE q[i - 1]]
  <2>6. \A i \in 1..n : i # 1 => i - 1 \in 1..(n-1)
    BY <2>2
  <2>7. s \in [1..n -> R]
    BY <2>5, <2>6
  <2>8. ASSUME NEW i \in 1..n, NEW j \in 1..n, i < j
        PROVE  s[i].db < s[j].db
    <3>1. j # 1 /\ j - 1 \in 1..(n-1) /\ s[j] = q[j - 1] /\ q[j - 1] \in Q
      BY <2>2, <2>5, <2>6, <2>8
    <3>2. CASE i = 1
      <4>1. s[j].db \in Nat /\ c.db \in Nat /\ c.db <= s[j].db /\ c.db # s[j].db
        BY <1>3, <2>1, <3>1 DEF Sortable
      <4> QED BY <3>2, <4>1
    <3>3. CASE i # 1
      <4>1. i - 1 \in 1..(n-1) /\ i - 1 < j - 1 /\ s[i] = q[i - 1]
        BY <2>2, <2>6, <2>8, <3>3
      <4> QED BY <2>5, <3>1, <4>1 DEF Ascending
    <3> QED BY <3>2, <3>3
  <2>9. Ascending(s)
    BY <2>7, <2>8 DEF Ascending
  <2> HIDE DEF s
  <2> QED BY <1>3, <2>7, <2>9
<1> QED BY <1>4, <1>5

\* So InOrder gives it, and with it each of them.
LEMMA InOrderOf ==
  ASSUME NEW S, Sortable(S)
  PROVE  /\ InOrder(S) \in [1..Cardinality(S) -> S]
         /\ Cardinality(S) \in Nat
BY OrderExists, FS_CardinalityType DEF InOrder, Ascending, Sortable

-----------------------------------------------------------------------------
(* The parser *)

\* A pod's annotations: a map.
AnnotationsOK(as) ==
  /\ as \subseteq [db : Nat, type : STRING, value : Values]
  /\ \A e, f \in as : e.db = f.db /\ e.type = f.type => e = f

\* A list of strings is one of those in it.
LEMMA ListOfItsOwn ==
  ASSUME NEW S, NEW v \in Seq(S)
  PROVE  v \in Seq(Range(v))
<1>1. v \in [1..Len(v) -> Range(v)] /\ Len(v) \in Nat
  BY DEF Range
<1> QED BY <1>1

LEMMA ValuesAreLists == Values \subseteq Seq(Names)
<1>1. ASSUME NEW v \in Values PROVE v \in Seq(Range(v))
  <2>1. CASE v = Unset
    <3>1. ASSUME NEW S, NEW x \in S PROVE <<x>> \in Seq(S)
      OBVIOUS
    <3>2. v \in Seq({""})
      BY <2>1, <3>1 DEF Unset
    <3> QED BY <3>2, ListOfItsOwn
  <2>2. CASE v \in {e.value : e \in UNION PodAnnotations}
    <3>1. PICK as \in PodAnnotations : \E e \in as : v = e.value
      BY <2>2
    <3>2. PICK e \in as : v = e.value
      BY <3>1
    <3>3. e \in [db : Nat, type : STRING, value : Seq(STRING)]
      BY PodInjectionAssumption
    <3>4. v \in Seq(STRING)
      BY <3>2, <3>3
    <3> QED BY <3>4, ListOfItsOwn
  <2> QED BY <2>1, <2>2 DEF Values
<1>2. ASSUME NEW v \in Values PROVE v \in Seq(Names)
  <2>1. Range(v) \subseteq Names
    BY DEF Names
  <2> QED BY <1>1, <2>1
<1> QED BY <1>2

LEMMA AnnotationsAreMaps ==
  ASSUME NEW as \in PodAnnotations \cup {{}}
  PROVE  AnnotationsOK(as)
<1>1. CASE as = {}
  BY <1>1 DEF AnnotationsOK
<1>2. CASE as \in PodAnnotations
  <2>1. /\ as \subseteq [db : Nat, type : STRING, value : Seq(STRING)]
        /\ \A e, f \in as : e.db = f.db /\ e.type = f.type => e = f
    BY <1>2, PodInjectionAssumption
  <2>2. \A e \in as : e.value \in Values
    BY <1>2 DEF Values
  <2>3. \A e \in as : e \in [db : Nat, type : STRING, value : Values]
    BY <2>1, <2>2
  <2> QED BY <2>1, <2>3 DEF AnnotationsOK
<1> QED BY <1>1, <1>2

\* One more annotation gives one more value.
LEMMA ValueMet ==
  ASSUME NEW as, AnnotationsOK(as), NEW met \in SUBSET as, NEW e \in as
  PROVE  ValueIn(met \cup {e}, e.db, e.type) = e.value
<1>1. \A f \in met \cup {e} : f.db = e.db /\ f.type = e.type => f = e
  BY DEF AnnotationsOK
<1>2. (CHOOSE f \in met \cup {e} : f.db = e.db /\ f.type = e.type) = e
  BY <1>1
<1> QED BY <1>2 DEF ValueIn

LEMMA ValueTyped ==
  ASSUME NEW as, AnnotationsOK(as), NEW met \in SUBSET as, NEW db, NEW type
  PROVE  ValueIn(met, db, type) \in Values
BY DEF ValueIn, AnnotationsOK, Values

\* The dbConfiguration c when the annotation e is met.
Updated(c, e) ==
  IF c.db = e.db /\ e.type \in Fields THEN [c EXCEPT ![e.type] = e.value] ELSE c

LEMMA ConfTyped ==
  ASSUME NEW as, AnnotationsOK(as), NEW met \in SUBSET as, NEW db \in Nat
  PROVE  /\ ConfOf(as, met, db) \in DbConfigurations
         /\ ConfOf(as, met, db).db = db
<1>1. \A type : ValueIn(met, db, type) \in Values /\ ValueIn(as, PodWide, type) \in Values
  BY ValueTyped
<1> QED BY <1>1 DEF ConfOf, DbConfigurations

\* The dbConfiguration of db with the fields in F.
WithFields(F, db) ==
  [db |-> db, role |-> F["role"], mode |-> F["mode"], user |-> F["user"],
   password |-> F["password"], uri |-> F["uri"], template |-> F["template"]]

Setting(c, type, v) == [c EXCEPT ![type] = v]

\* G has v for the type, and F's values for the others.
Differs(F, G, type, v) == G[type] = v /\ \A t \in Fields \ {type} : G[t] = F[t]

\* To set one of its fields.
LEMMA FieldSet ==
  ASSUME NEW db, NEW F, NEW G, NEW v, NEW type \in Fields, Differs(F, G, type, v)
  PROVE  WithFields(G, db) = Setting(WithFields(F, db), type, v)
<1>1. CASE type = "role"
  BY <1>1 DEF WithFields, Fields, Differs, Setting
<1>2. CASE type = "mode"
  BY <1>2 DEF WithFields, Fields, Differs, Setting
<1>3. CASE type = "user"
  BY <1>3 DEF WithFields, Fields, Differs, Setting
<1>4. CASE type = "password"
  BY <1>4 DEF WithFields, Fields, Differs, Setting
<1>5. CASE type = "uri"
  BY <1>5 DEF WithFields, Fields, Differs, Setting
<1>6. CASE type = "template"
  BY <1>6 DEF WithFields, Fields, Differs, Setting
<1> QED BY <1>1, <1>2, <1>3, <1>4, <1>5, <1>6 DEF Fields

LEMMA ConfMet ==
  ASSUME NEW as, AnnotationsOK(as), NEW met \in SUBSET as, NEW e \in as, NEW db \in Nat
  PROVE  ConfOf(as, met \cup {e}, db) = Updated(ConfOf(as, met, db), e)
<1> DEFINE c == ConfOf(as, met, db)
<1>1. ASSUME NEW type, e.db # db \/ e.type # type
      PROVE  /\ ValueIn(met \cup {e}, db, type) = ValueIn(met, db, type)
             /\ (\E f \in met \cup {e} : f.db = db /\ f.type = type)
                  <=> (\E f \in met : f.db = db /\ f.type = type)
  <2>1. ValueIn(met \cup {e}, db, type) = ValueIn(met, db, type)
    <3>1. CASE \E f \in met : f.db = db /\ f.type = type
      <4>1. PICK f \in met : f.db = db /\ f.type = type
        BY <3>1
      <4>2. \A g \in met \cup {e} : g.db = db /\ g.type = type => g = f
        BY <4>1 DEF AnnotationsOK
      <4>3. (CHOOSE g \in met \cup {e} : g.db = db /\ g.type = type) = f
        BY <4>1, <4>2
      <4>4. (CHOOSE g \in met : g.db = db /\ g.type = type) = f
        BY <4>1, <4>2
      <4> QED BY <4>1, <4>3, <4>4 DEF ValueIn
    <3>2. CASE ~ \E f \in met : f.db = db /\ f.type = type
      BY <1>1, <3>2 DEF ValueIn
    <3> QED BY <3>1, <3>2
  <2> QED BY <1>1, <2>1
<1> DEFINE more == met \cup {e}
           Field(x) == [type \in Fields |->
             IF type = "role" /\ ~ \E f \in x : f.db = db /\ f.type = type
               THEN ValueIn(as, PodWide, type) ELSE ValueIn(x, db, type)]
<1>2. \A x : ConfOf(as, x, db) = WithFields(Field(x), db)
  BY DEF ConfOf, WithFields, Fields
<1>3. \A type \in Fields : e.db # db \/ e.type # type => Field(more)[type] = Field(met)[type]
  BY <1>1
<1>4. e.db = db /\ e.type \in Fields => Field(more)[e.type] = e.value
  <2>1. ValueIn(more, e.db, e.type) = e.value
    BY ValueMet
  <2>2. e \in more
    OBVIOUS
  <2> HIDE DEF more
  <2> QED BY <2>1, <2>2
<1>5. c.db = db
  BY DEF ConfOf
<1>6. CASE e.db # db \/ e.type \notin Fields
  <2> HIDE DEF Field, more
  <2>1. WithFields(Field(more), db) = WithFields(Field(met), db)
    BY <1>3, <1>6 DEF WithFields, Fields
  <2>2. Updated(c, e) = c
    BY <1>5, <1>6 DEF Updated
  <2> QED BY <1>2, <2>1, <2>2 DEF more
<1>7. CASE e.db = db /\ e.type \in Fields
  <2> HIDE DEF Field, more, c
  <2>1. Updated(c, e) = Setting(c, e.type, e.value)
    BY <1>5, <1>7 DEF Updated, Setting
  <2>2. WithFields(Field(more), db) = Setting(WithFields(Field(met), db), e.type, e.value)
    <3> DEFINE F == Field(met)
               G == Field(more)
    <3>1. Differs(F, G, e.type, e.value)
      BY <1>3, <1>4, <1>7 DEF Differs
    <3> HIDE DEF F, G
    <3>2. WithFields(G, db) = Setting(WithFields(F, db), e.type, e.value)
      BY <1>7, <3>1, FieldSet
    <3> QED BY <3>2 DEF F, G
  <2> QED BY <1>2, <2>1, <2>2 DEF more, c
<1> QED BY <1>6, <1>7

\* The names that the annotations met so far have.
Dbs(met) == {e.db : e \in met} \ {PodWide}

\* The dbConfiguration of the annotation is there, or it is created.
LEMMA FoundOrNew ==
  ASSUME ConfsBuilt, AnnotationsOK(annotations), NEW e \in todo, todo \subseteq annotations,
         e.db # PodWide, NEW found,
         found = IF \E i \in DOMAIN confs : confs[i].db = e.db
                   THEN confs ELSE Append(confs, NewConf(e.db))
  PROVE  /\ found \in Seq(DbConfigurations)
         /\ \A i, j \in DOMAIN found : found[i].db = found[j].db => i = j
         /\ Range(found) = ConfsMet(annotations, annotations \ todo)
                             \cup {ConfOf(annotations, annotations \ todo, e.db)}
<1> DEFINE met == annotations \ todo
           new == ConfOf(annotations, met, e.db)
<1>1. e.db \in Nat /\ met \in SUBSET annotations
  BY DEF AnnotationsOK
<1>2. /\ confs \in Seq(DbConfigurations)
      /\ \A i, j \in DOMAIN confs : confs[i].db = confs[j].db => i = j
      /\ Range(confs) = ConfsMet(annotations, met)
  BY DEF ConfsBuilt
<1>3. CASE \E i \in DOMAIN confs : confs[i].db = e.db
  <2>1. PICK i \in DOMAIN confs : confs[i].db = e.db
    BY <1>3
  <2>2. confs[i] \in ConfsMet(annotations, met)
    BY <1>2 DEF Range
  <2>3. confs[i] = new
    <3>1. PICK db \in {f.db : f \in met} \ {PodWide} : confs[i] = ConfOf(annotations, met, db)
      BY <2>2 DEF ConfsMet
    <3>2. db = e.db
      BY <2>1, <3>1 DEF ConfOf
    <3> QED BY <3>1, <3>2
  <2>4. new \in Range(confs)
    BY <2>3 DEF Range
  <2> QED BY <1>2, <1>3, <2>4
<1>4. CASE ~ \E i \in DOMAIN confs : confs[i].db = e.db
  <2>1. ASSUME NEW f \in met, f.db = e.db
        PROVE  FALSE
    <3>1. new \in Range(confs)
      BY <1>2, <2>1 DEF ConfsMet
    <3>2. new.db = e.db
      BY DEF ConfOf
    <3> QED BY <1>4, <3>1, <3>2 DEF Range
  <2>2. new = NewConf(e.db)
    BY <2>1 DEF NewConf, ConfOf, ValueIn
  <2>3. new \in DbConfigurations /\ new.db = e.db
    BY <1>1, ConfTyped
  <2>4. found = Append(confs, new)
    BY <1>4, <2>2
  <2> HIDE DEF new, met
  <2>5. /\ found \in Seq(DbConfigurations) /\ DOMAIN found = 1..(Len(confs) + 1)
        /\ DOMAIN confs = 1..Len(confs) /\ Len(confs) \in Nat
        /\ \A i \in 1..Len(confs) : found[i] = confs[i]
        /\ found[Len(confs) + 1] = new
    BY <1>2, <2>3, <2>4
  <2>6. ASSUME NEW i \in DOMAIN found, NEW j \in DOMAIN found, found[i].db = found[j].db
        PROVE  i = j
    BY <1>2, <1>4, <2>3, <2>5, <2>6
  <2>7. Range(found) = Range(confs) \cup {new}
    BY <2>5 DEF Range
  <2> QED BY <1>2, <2>5, <2>6, <2>7 DEF new, met
<1> QED BY <1>3, <1>4

\* A round of the loop.
LEMMA ParseOneBuilds ==
  ASSUME ConfsBuilt, AnnotationsOK(annotations), todo \subseteq annotations, ParseOne
  PROVE  /\ ConfsBuilt'
         /\ annotations' = annotations /\ todo' \subseteq annotations
<1>1. PICK e \in todo :
        /\ e.type # "revoke-ttl" /\ todo' = todo \ {e}
        /\ confs' = IF e.db = PodWide THEN confs ELSE WithAnnotation(confs, e)
        /\ annotations' = annotations
  BY DEF ParseOne
<1> DEFINE met == annotations \ todo
<1>2. /\ e \in annotations /\ e.db \in Nat /\ e.value \in Values /\ met \in SUBSET annotations
      /\ annotations' \ todo' = met \cup {e}
  BY <1>1 DEF AnnotationsOK
<1>3. \A db \in Nat : ConfOf(annotations, met \cup {e}, db) = Updated(ConfOf(annotations, met, db), e)
  BY <1>2, ConfMet
<1>4. /\ confs \in Seq(DbConfigurations)
      /\ \A i, j \in DOMAIN confs : confs[i].db = confs[j].db => i = j
      /\ Range(confs) = ConfsMet(annotations, met)
      /\ \A f \in met : f.type # "revoke-ttl"
  BY DEF ConfsBuilt
<1>5. /\ \A f \in met \cup {e} : f.type # "revoke-ttl" /\ f.db \in Nat
      /\ ConfsMet(annotations, met) = {ConfOf(annotations, met, db) : db \in Dbs(met)}
      /\ ConfsMet(annotations, met \cup {e}) =
           {ConfOf(annotations, met \cup {e}, db) : db \in Dbs(met \cup {e})}
  BY <1>1, <1>2, <1>4 DEF ConfsMet, Dbs, AnnotationsOK
<1> HIDE DEF met
<1>6. CASE e.db = PodWide
  <2>1. Dbs(met \cup {e}) = Dbs(met)
    BY <1>6 DEF Dbs
  <2>2. ASSUME NEW db \in Dbs(met)
        PROVE  ConfOf(annotations, met \cup {e}, db) = ConfOf(annotations, met, db)
    <3>1. db \in Nat /\ db # e.db
      BY <1>5, <1>6 DEF Dbs
    <3>2. ConfOf(annotations, met, db).db = db
      BY DEF ConfOf
    <3> QED BY <1>3, <3>1, <3>2 DEF Updated
  <2>3. ConfsMet(annotations, met \cup {e}) = ConfsMet(annotations, met)
    BY <1>5, <2>1, <2>2
  <2> QED BY <1>1, <1>2, <1>4, <1>5, <1>6, <2>3 DEF ConfsBuilt
<1>7. CASE e.db # PodWide
  <2> DEFINE found == IF \E i \in DOMAIN confs : confs[i].db = e.db
                        THEN confs ELSE Append(confs, NewConf(e.db))
             new == ConfOf(annotations, met, e.db)
  <2>1. /\ found \in Seq(DbConfigurations)
        /\ \A i, j \in DOMAIN found : found[i].db = found[j].db => i = j
        /\ Range(found) = ConfsMet(annotations, met) \cup {new}
    BY <1>7, FoundOrNew DEF met
  <2>2. confs' = [i \in DOMAIN found |-> Updated(found[i], e)]
    BY <1>1, <1>7 DEF WithAnnotation, Updated
  <2> HIDE DEF found
  <2>3. \A c \in DbConfigurations : Updated(c, e) \in DbConfigurations /\ Updated(c, e).db = c.db
    BY <1>2 DEF Updated, DbConfigurations, Fields
  <2>4. /\ confs' \in Seq(DbConfigurations)
        /\ DOMAIN confs' = DOMAIN found
        /\ \A i \in DOMAIN found : confs'[i].db = found[i].db
    <3>1. DOMAIN found = 1..Len(found) /\ Len(found) \in Nat
          /\ \A i \in DOMAIN found : found[i] \in DbConfigurations
      BY <2>1
    <3>2. confs' \in [1..Len(found) -> DbConfigurations]
      BY <2>2, <2>3, <3>1
    <3> QED BY <2>2, <2>3, <3>1, <3>2
  <2>5. Range(confs') = {Updated(c, e) : c \in Range(found)}
    BY <2>2 DEF Range
  <2>6. Range(found) = {ConfOf(annotations, met, db) : db \in Dbs(met \cup {e})}
    <3>1. Dbs(met \cup {e}) = Dbs(met) \cup {e.db}
      BY <1>7 DEF Dbs
    <3> QED BY <1>5, <2>1, <3>1
  <2>7. \A db \in Dbs(met \cup {e}) : db \in Nat
    BY <1>5 DEF Dbs
  <2>8. Range(confs') = ConfsMet(annotations, met \cup {e})
    <3>1. Range(confs') = {Updated(ConfOf(annotations, met, db), e) : db \in Dbs(met \cup {e})}
      BY <2>5, <2>6
    <3>2. \A db \in Dbs(met \cup {e}) :
            Updated(ConfOf(annotations, met, db), e) = ConfOf(annotations, met \cup {e}, db)
      BY <1>3, <2>7
    <3> QED BY <1>5, <3>1, <3>2
  <2> QED BY <1>1, <1>2, <1>5, <2>1, <2>4, <2>8 DEF ConfsBuilt
<1> QED BY <1>1, <1>6, <1>7

\* A loop that starts has built none.
LEMMA StartBuilds ==
  ASSUME annotations' = todo', confs' = <<>>
  PROVE  ConfsBuilt'
BY DEF ConfsBuilt, ConfsMet, Range

\* A loop that has met all annotations has what they ask for, in order.
LEMMA ParsedInOrder ==
  ASSUME ConfsBuilt, todo = {}
  PROVE  /\ ByName(confs) = ConfsOf(annotations)
         /\ ByName(confs) \in Seq(DbConfigurations)
         /\ Range(ByName(confs)) \subseteq Range(confs)
<1>1. annotations \ todo = annotations
  OBVIOUS
<1>2. /\ confs \in Seq(DbConfigurations)
      /\ \A i, j \in DOMAIN confs : confs[i].db = confs[j].db => i = j
      /\ Range(confs) = ConfsMet(annotations, annotations)
  BY <1>1 DEF ConfsBuilt
<1>3. IsFiniteSet(Range(confs))
  <2>1. IsFiniteSet(1..Len(confs)) /\ DOMAIN confs = 1..Len(confs)
    BY <1>2, FS_Interval
  <2>2. confs \in Surjection(DOMAIN confs, Range(confs))
    BY <1>2 DEF Surjection, Range
  <2> QED BY <2>1, <2>2, FS_Surjection
<1>4. Sortable(Range(confs))
  <2>1. ASSUME NEW c \in Range(confs) PROVE c.db \in Nat
    <3>1. c \in DbConfigurations
      BY <1>2 DEF Range
    <3> QED BY <3>1 DEF DbConfigurations
  <2>2. ASSUME NEW c \in Range(confs), NEW d \in Range(confs), c.db = d.db PROVE c = d
    BY <1>2, <2>2 DEF Range
  <2> QED BY <1>3, <2>1, <2>2 DEF Sortable
<1>5. /\ ByName(confs) \in [1..Cardinality(Range(confs)) -> Range(confs)]
      /\ Cardinality(Range(confs)) \in Nat
  BY <1>4, InOrderOf DEF ByName
<1>6. Range(confs) \subseteq DbConfigurations
  BY <1>2 DEF Range
<1>7. ByName(confs) \in Seq(DbConfigurations)
  BY <1>5, <1>6
<1> QED BY <1>2, <1>5, <1>7 DEF ByName, ConfsOf, Range

-----------------------------------------------------------------------------
(* Env lines *)

\* A line for each of the names.
LEMMA LinesFor ==
  ASSUME NEW names \in Seq(Names), NEW uri \in BOOLEAN, NEW secrets \in Seq(Secrets), NEW lines,
         lines = [k \in DOMAIN names |-> Line(names[k], uri, secrets)]
  PROVE  /\ lines \in Seq(EnvLines)
         /\ \A line \in Range(lines) :
              line.secrets = secrets /\ line.uri = uri /\ line.name \in Range(names)
<1>1. DOMAIN names = 1..Len(names) /\ Len(names) \in Nat
  OBVIOUS
<1>2. ASSUME NEW k \in DOMAIN names
      PROVE  /\ lines[k] \in EnvLines
             /\ lines[k].secrets = secrets /\ lines[k].uri = uri /\ lines[k].name \in Range(names)
  <2>1. names[k] \in Names /\ names[k] \in Range(names)
    BY DEF Range
  <2>2. lines[k] = Line(names[k], uri, secrets)
    OBVIOUS
  <2> QED BY <2>1, <2>2 DEF Line, EnvLines
<1>3. DOMAIN lines = DOMAIN names /\ lines = [k \in DOMAIN names |-> lines[k]]
  OBVIOUS
<1>4. lines \in [1..Len(names) -> EnvLines]
  BY <1>1, <1>2, <1>3
<1>5. lines \in Seq(EnvLines)
  BY <1>1, <1>4
<1>6. \A line \in Range(lines) : \E k \in DOMAIN names : line = lines[k]
  BY <1>3 DEF Range
<1> QED BY <1>2, <1>5, <1>6

LEMMA ShortRanges ==
  ASSUME NEW x, NEW y
  PROVE  Range(<<>>) = {} /\ Range(<<x>>) = {x} /\ Range(<<x, y>>) = {x, y}
<1>1. Range(<<>>) = {} /\ Range(<<x>>) = {x}
  BY DEF Range
<1>2. Range(<<x, y>>) = {x, y}
  <2>1. DOMAIN <<x, y>> = {1, 2} /\ <<x, y>>[1] = x /\ <<x, y>>[2] = y
    OBVIOUS
  <2> QED BY <2>1 DEF Range
<1> QED BY <1>1, <1>2

\* A line of the dbConfiguration, with the secrets it was given.
LineFor(line, conf, user, password) ==
  IF Classic(conf)
    THEN /\ ~line.uri
         /\ \/ line.secrets = <<user>> /\ line.name \in Range(conf.user)
            \/ line.secrets = <<password>> /\ line.name \in Range(conf.password)
    ELSE /\ line.uri /\ line.name \in Range(conf.uri)
         /\ line.secrets \in {<<>>, <<user, password>>}

LEMMA StampedLines ==
  ASSUME NEW conf \in DbConfigurations, NEW user \in Secrets, NEW password \in Secrets,
         Escaped(user) = user, Escaped(password) = password
  PROVE  /\ LinesOf(conf, user, password) \in Seq(EnvLines)
         /\ \A line \in Range(LinesOf(conf, user, password)) : LineFor(line, conf, user, password)
<1>1. /\ conf.user \in Seq(Names) /\ conf.password \in Seq(Names) /\ conf.uri \in Seq(Names)
  BY ValuesAreLists DEF DbConfigurations
<1>3. /\ <<user>> \in Seq(Secrets) /\ <<password>> \in Seq(Secrets)
      /\ <<user, password>> \in Seq(Secrets) /\ <<>> \in Seq(Secrets)
  OBVIOUS
<1>4. CASE Classic(conf)
  <2> DEFINE u == [k \in DOMAIN conf.user |-> Line(conf.user[k], FALSE, <<user>>)]
             p == [k \in DOMAIN conf.password |-> Line(conf.password[k], FALSE, <<password>>)]
  <2>1. LinesOf(conf, user, password) = u \o p
    BY <1>4 DEF LinesOf
  <2>2. u = [k \in DOMAIN conf.user |-> Line(conf.user[k], FALSE, <<user>>)]
        /\ p = [k \in DOMAIN conf.password |-> Line(conf.password[k], FALSE, <<password>>)]
    OBVIOUS
  <2> HIDE DEF u, p
  <2>3. /\ u \in Seq(EnvLines)
        /\ \A line \in Range(u) :
             line.secrets = <<user>> /\ line.uri = FALSE /\ line.name \in Range(conf.user)
    <3> DEFINE names == conf.user
               secrets == <<user>>
               uri == FALSE
    <3>1. uri \in BOOLEAN /\ names \in Seq(Names) /\ secrets \in Seq(Secrets)
          /\ u = [k \in DOMAIN names |-> Line(names[k], uri, secrets)]
      BY <1>1, <1>3, <2>2
    <3> HIDE DEF names, secrets, uri
    <3>2. /\ u \in Seq(EnvLines)
          /\ \A line \in Range(u) :
               line.secrets = secrets /\ line.uri = uri /\ line.name \in Range(names)
      BY <3>1, LinesFor
    <3> QED BY <3>2 DEF names, secrets, uri
  <2>4. /\ p \in Seq(EnvLines)
        /\ \A line \in Range(p) :
             line.secrets = <<password>> /\ line.uri = FALSE /\ line.name \in Range(conf.password)
    <3> DEFINE names == conf.password
               secrets == <<password>>
               uri == FALSE
    <3>1. uri \in BOOLEAN /\ names \in Seq(Names) /\ secrets \in Seq(Secrets)
          /\ p = [k \in DOMAIN names |-> Line(names[k], uri, secrets)]
      BY <1>1, <1>3, <2>2
    <3> HIDE DEF names, secrets, uri
    <3>2. /\ p \in Seq(EnvLines)
          /\ \A line \in Range(p) :
               line.secrets = secrets /\ line.uri = uri /\ line.name \in Range(names)
      BY <3>1, LinesFor
    <3> QED BY <3>2 DEF names, secrets, uri
  <2>5. u \o p \in Seq(EnvLines) /\ Range(u \o p) \subseteq Range(u) \cup Range(p)
    BY <2>3, <2>4, RangeOfConcat
  <2> QED BY <1>4, <2>1, <2>3, <2>4, <2>5 DEF LineFor
<1>5. CASE ~Classic(conf)
  <2> DEFINE secrets == IF conf.template = <<"opaque">> THEN <<>> ELSE <<user, password>>
  <2>1. secrets \in Seq(Secrets) /\ secrets \in {<<>>, <<user, password>>}
    BY <1>3
  <2>2. LinesOf(conf, user, password) = [k \in DOMAIN conf.uri |-> Line(conf.uri[k], TRUE, secrets)]
    BY <1>5 DEF LinesOf
  <2> DEFINE names == conf.uri
             uri == TRUE
             lines == LinesOf(conf, user, password)
  <2>3. /\ names \in Seq(Names) /\ uri \in BOOLEAN
        /\ lines = [k \in DOMAIN names |-> Line(names[k], uri, secrets)]
    BY <1>1, <2>2
  <2> HIDE DEF secrets, names, uri, lines
  <2>4. /\ lines \in Seq(EnvLines)
        /\ \A line \in Range(lines) :
             line.secrets = secrets /\ line.uri = uri /\ line.name \in Range(names)
    BY <2>1, <2>3, LinesFor
  <2> QED BY <1>5, <2>1, <2>4 DEF LineFor, names, uri, lines
<1> QED BY <1>4, <1>5

PlaceholderLines(cs) ==
  [i \in DOMAIN cs |-> LinesOf(cs[i], Placeholder(i, "username"), Placeholder(i, "password"))]

LEMMA PlaceholderLinesOf ==
  ASSUME NEW cs \in Seq(DbConfigurations)
  PROVE  /\ PlaceholderLines(cs) \in Seq(Seq(EnvLines))
         /\ DOMAIN PlaceholderLines(cs) = DOMAIN cs
         /\ \A i \in DOMAIN cs : \A line \in Range(PlaceholderLines(cs)[i]) :
              LineFor(line, cs[i], Placeholder(i, "username"), Placeholder(i, "password"))
<1> DEFINE ss == PlaceholderLines(cs)
<1>1. DOMAIN cs = 1..Len(cs) /\ Len(cs) \in Nat
  OBVIOUS
<1>2. ASSUME NEW i \in DOMAIN cs
      PROVE  /\ ss[i] \in Seq(EnvLines)
             /\ \A line \in Range(ss[i]) :
                  LineFor(line, cs[i], Placeholder(i, "username"), Placeholder(i, "password"))
  <2> DEFINE user == Placeholder(i, "username")
             password == Placeholder(i, "password")
             conf == cs[i]
             lines == ss[i]
  <2>1. user \in Secrets /\ password \in Secrets
    BY <1>1 DEF Placeholder, Secrets, Values
  <2>2. Escaped(user) = user /\ Escaped(password) = password
    BY DEF Placeholder, Escaped
  <2>3. conf \in DbConfigurations /\ lines = LinesOf(conf, user, password)
    BY DEF PlaceholderLines
  <2> HIDE DEF user, password, ss, conf, lines
  <2>4. /\ lines \in Seq(EnvLines)
        /\ \A line \in Range(lines) : LineFor(line, conf, user, password)
    BY <2>1, <2>2, <2>3, StampedLines
  <2> QED BY <2>4 DEF conf, lines, user, password
<1>3. DOMAIN ss = DOMAIN cs /\ ss = [i \in DOMAIN cs |-> ss[i]]
  BY DEF PlaceholderLines
<1> HIDE DEF ss
<1>4. ss \in [1..Len(cs) -> Seq(EnvLines)]
  BY <1>1, <1>2, <1>3
<1>5. ss \in Seq(Seq(EnvLines))
  BY <1>1, <1>4
<1> QED BY <1>2, <1>3, <1>5 DEF ss

\* The lines of the webhook are those of the dbConfigurations.
LEMMA StampedEnv ==
  ASSUME NEW cs \in Seq(DbConfigurations)
  PROVE  /\ PlaceholderEnv(cs) \in Seq(EnvLines)
         /\ \A line \in Range(PlaceholderEnv(cs)) : \E i \in DOMAIN cs :
              LineFor(line, cs[i], Placeholder(i, "username"), Placeholder(i, "password"))
<1> DEFINE ss == PlaceholderLines(cs)
<1>1. PlaceholderEnv(cs) = FlattenSeq(ss)
  BY DEF PlaceholderEnv, PlaceholderLines
<1> HIDE DEF ss
<1>2. /\ FlattenSeq(ss) \in Seq(EnvLines)
      /\ Range(FlattenSeq(ss)) \subseteq UNION {Range(ss[i]) : i \in DOMAIN ss}
  BY PlaceholderLinesOf, FlattenLines DEF ss
<1> QED BY <1>1, <1>2, PlaceholderLinesOf DEF ss

-----------------------------------------------------------------------------
(* The mapping *)

\* Each of the values is one that a map has.
LEMMA MergedOf ==
  ASSUME NEW n \in Nat, NEW maps, DOMAIN maps = 1..n
  PROVE  /\ \A s : s \in DOMAIN Merged(maps) <=> \E i \in 1..n : s \in DOMAIN maps[i]
         /\ \A s \in DOMAIN Merged(maps) : \E i \in 1..n :
              s \in DOMAIN maps[i] /\ Merged(maps)[s] = maps[i][s]
<1>1. \A s : s \in DOMAIN Merged(maps) <=> \E i \in 1..n : s \in DOMAIN maps[i]
  BY DEF Merged
<1>2. ASSUME NEW s \in DOMAIN Merged(maps)
      PROVE  \E i \in 1..n : s \in DOMAIN maps[i] /\ Merged(maps)[s] = maps[i][s]
  <2> DEFINE I == {i \in 1..n : s \in DOMAIN maps[i]}
  <2>1. I \in SUBSET (1..n) /\ I # {}
    BY <1>1
  <2>2. Merged(maps)[s] = maps[Max(I)][s]
    BY <1>1 DEF Merged
  <2>3. Max(I) \in I
    <3> HIDE DEF I
    <3> QED BY <2>1, MaxOfBounded
  <2> QED BY <2>2, <2>3
<1> QED BY <1>1, <1>2

CredentialFields == {"username", "password"}

LEMMA FieldsOfLine ==
  ASSUME NEW line, NEW conf
  PROVE  /\ DOMAIN FieldsIn(line, conf) \subseteq Range(line.secrets)
         /\ \A s \in DOMAIN FieldsIn(line, conf) : FieldsIn(line, conf)[s] \in CredentialFields
<1>1. CASE Classic(conf)
  BY <1>1 DEF FieldsIn, CredentialFields
<1>2. CASE ~Classic(conf)
  BY <1>2 DEF FieldsIn, CredentialFields
<1> QED BY <1>1, <1>2

\* What a dbConfiguration finds in the lines gets credentials of its own.
LEMMA MappingOfConf ==
  ASSUME env \in Seq(EnvLines), NEW conf
  PROVE  /\ \A s : s \in DOMAIN MappingOf(conf)
                   <=> \E k \in DOMAIN env : s \in DOMAIN FieldsIn(env[k], conf)
         /\ DOMAIN MappingOf(conf) \subseteq SecretsIn(env)
         /\ \A s \in DOMAIN MappingOf(conf) : \E k \in DOMAIN env :
              /\ s \in DOMAIN FieldsIn(env[k], conf)
              /\ FieldsIn(env[k], conf)[s] \in CredentialFields
              /\ MappingOf(conf)[s] = Credential(conf, FieldsIn(env[k], conf)[s])
<1> DEFINE maps == [k \in DOMAIN env |-> FieldsIn(env[k], conf)]
           fields == Merged(maps)
<1>1. PICK n \in Nat : DOMAIN env = 1..n
  OBVIOUS
<1>2. DOMAIN maps = 1..n
  BY <1>1
<1>3. MappingOf(conf) = [s \in DOMAIN fields |-> Credential(conf, fields[s])]
  BY DEF MappingOf
<1>4. \A k \in DOMAIN env : maps[k] = FieldsIn(env[k], conf)
  OBVIOUS
<1> HIDE DEF maps
<1>5. /\ \A s : s \in DOMAIN fields <=> \E k \in 1..n : s \in DOMAIN maps[k]
      /\ \A s \in DOMAIN fields : \E k \in 1..n :
           s \in DOMAIN maps[k] /\ fields[s] = maps[k][s]
  BY <1>2, MergedOf
<1> HIDE DEF fields
<1>6. \A s : s \in DOMAIN fields <=> \E k \in DOMAIN env : s \in DOMAIN FieldsIn(env[k], conf)
  BY <1>1, <1>4, <1>5
<1>7. DOMAIN fields \subseteq SecretsIn(env)
  BY <1>6, FieldsOfLine DEF SecretsIn
<1>8. \A s \in DOMAIN fields : \E k \in DOMAIN env :
        /\ s \in DOMAIN FieldsIn(env[k], conf)
        /\ FieldsIn(env[k], conf)[s] \in CredentialFields
        /\ fields[s] = FieldsIn(env[k], conf)[s]
  BY <1>1, <1>4, <1>5, FieldsOfLine
<1> QED BY <1>3, <1>6, <1>7, <1>8

LEMMA MappingOfConfs ==
  ASSUME env \in Seq(EnvLines), NEW cs \in Seq(DbConfigurations)
  PROVE  /\ \A s : s \in DOMAIN Mapping(cs) <=> \E i \in DOMAIN cs : s \in DOMAIN MappingOf(cs[i])
         /\ DOMAIN Mapping(cs) \subseteq SecretsIn(env)
         /\ \A s \in DOMAIN Mapping(cs) : \E i \in DOMAIN cs, k \in DOMAIN env :
              /\ s \in DOMAIN FieldsIn(env[k], cs[i])
              /\ FieldsIn(env[k], cs[i])[s] \in CredentialFields
              /\ Mapping(cs)[s] = Credential(cs[i], FieldsIn(env[k], cs[i])[s])
<1> DEFINE maps == [i \in DOMAIN cs |-> MappingOf(cs[i])]
<1>1. PICK n \in Nat : DOMAIN cs = 1..n
  OBVIOUS
<1>2. DOMAIN maps = 1..n /\ \A i \in DOMAIN cs : maps[i] = MappingOf(cs[i])
  BY <1>1
<1>3. Mapping(cs) = Merged(maps)
  BY DEF Mapping
<1> HIDE DEF maps
<1>4. /\ \A s : s \in DOMAIN Mapping(cs) <=> \E i \in 1..n : s \in DOMAIN maps[i]
      /\ \A s \in DOMAIN Mapping(cs) : \E i \in 1..n :
           s \in DOMAIN maps[i] /\ Mapping(cs)[s] = maps[i][s]
  BY <1>2, <1>3, MergedOf
<1>5. \A s : s \in DOMAIN Mapping(cs) <=> \E i \in DOMAIN cs : s \in DOMAIN MappingOf(cs[i])
  BY <1>1, <1>2, <1>4
<1>6. DOMAIN Mapping(cs) \subseteq SecretsIn(env)
  BY <1>5, MappingOfConf
<1>7. ASSUME NEW s \in DOMAIN Mapping(cs)
      PROVE  \E i \in DOMAIN cs, k \in DOMAIN env :
               /\ s \in DOMAIN FieldsIn(env[k], cs[i])
               /\ FieldsIn(env[k], cs[i])[s] \in CredentialFields
               /\ Mapping(cs)[s] = Credential(cs[i], FieldsIn(env[k], cs[i])[s])
  <2>1. PICK i \in DOMAIN cs : s \in DOMAIN MappingOf(cs[i]) /\ Mapping(cs)[s] = MappingOf(cs[i])[s]
    BY <1>1, <1>2, <1>4
  <2>2. PICK k \in DOMAIN env :
          /\ s \in DOMAIN FieldsIn(env[k], cs[i])
          /\ FieldsIn(env[k], cs[i])[s] \in CredentialFields
          /\ MappingOf(cs[i])[s] = Credential(cs[i], FieldsIn(env[k], cs[i])[s])
    BY <2>1, MappingOfConf
  <2> QED BY <2>1, <2>2
<1> QED BY <1>5, <1>6, <1>7

\* Each placeholder of the webhook is found again, as long as the annotations are
\* those that it saw and it accepted.
LEMMA MappingCovers ==
  ASSUME env \in Seq(EnvLines), NEW cs \in Seq(DbConfigurations), env = PlaceholderEnv(cs),
         \A i \in DOMAIN cs : Accepted(cs[i])
  PROVE  SecretsIn(env) \subseteq DOMAIN Mapping(cs)
<1> SUFFICES ASSUME NEW s \in SecretsIn(env)
             PROVE  s \in DOMAIN Mapping(cs)
  OBVIOUS
<1>1. PICK k \in DOMAIN env : s \in Range(env[k].secrets)
  BY DEF SecretsIn
<1>2. PICK i \in DOMAIN cs :
        LineFor(env[k], cs[i], Placeholder(i, "username"), Placeholder(i, "password"))
  <2>1. env[k] \in Range(PlaceholderEnv(cs))
    BY DEF Range
  <2> QED BY <2>1, StampedEnv
<1>3. s \in DOMAIN FieldsIn(env[k], cs[i])
  <2>1. CASE Classic(cs[i])
    BY <1>1, <1>2, <2>1 DEF FieldsIn, LineFor
  <2>2. CASE ~Classic(cs[i])
    <3>1. cs[i].mode = <<"uri">>
      BY <2>2 DEF Accepted
    <3> QED BY <1>1, <1>2, <2>2, <3>1 DEF FieldsIn, LineFor
  <2> QED BY <2>1, <2>2
<1>4. s \in DOMAIN MappingOf(cs[i])
  BY <1>3, MappingOfConf
<1> QED BY <1>4, MappingOfConfs

\* A secret of the substituted env is a value of the mapping, or has none there.
LEMMA SubstitutedSecrets ==
  ASSUME env \in Seq(EnvLines), NEW mapping
  PROVE  \A s \in SecretsIn(Substitute(env, mapping)) :
           \/ \E p \in DOMAIN mapping : s = mapping[p]
           \/ s \in SecretsIn(env) \ DOMAIN mapping
<1> DEFINE sub == Substitute(env, mapping)
<1> SUFFICES ASSUME NEW s \in SecretsIn(sub)
             PROVE  \/ \E p \in DOMAIN mapping : s = mapping[p]
                    \/ s \in SecretsIn(env) \ DOMAIN mapping
  OBVIOUS
<1>1. DOMAIN sub = DOMAIN env
  BY DEF Substitute
<1>2. PICK k \in DOMAIN env : s \in Range(sub[k].secrets)
  BY <1>1 DEF SecretsIn
<1>3. env[k] \in EnvLines
  OBVIOUS
<1> DEFINE old == env[k].secrets
           new == [j \in DOMAIN old |-> IF old[j] \in DOMAIN mapping THEN mapping[old[j]] ELSE old[j]]
<1>4. sub[k].secrets = new
  BY <1>3 DEF Substitute, EnvLines
<1>5. PICK j \in DOMAIN old : s = new[j]
  BY <1>2, <1>4 DEF Range
<1>6. old[j] \in SecretsIn(env)
  BY DEF SecretsIn, Range
<1>7. s = IF old[j] \in DOMAIN mapping THEN mapping[old[j]] ELSE old[j]
  BY <1>5
<1> QED BY <1>6, <1>7

-----------------------------------------------------------------------------
(* The steps *)

LEMMA NoLines == SecretsIn(<<>>) = {} /\ Placeholders(<<>>) = {}
BY DEF SecretsIn, Placeholders

\* A dbConfiguration has a name that some annotation has.
LEMMA NamesOfConfs ==
  ASSUME NEW as, NEW met \in SUBSET as, NEW cs, Range(cs) = ConfsMet(as, met)
  PROVE  \A i \in DOMAIN cs : \E e \in as : e.db = cs[i].db
<1> SUFFICES ASSUME NEW i \in DOMAIN cs
             PROVE  \E e \in as : e.db = cs[i].db
  OBVIOUS
<1>1. cs[i] \in ConfsMet(as, met)
  BY DEF Range
<1>2. PICK e \in met : cs[i] = ConfOf(as, met, e.db)
  BY <1>1 DEF ConfsMet
<1>3. ConfOf(as, met, e.db).db = e.db
  BY DEF ConfOf
<1> QED BY <1>2, <1>3

\* A step that only the stage, the outcome and the parser change in.
LEMMA PodUnchanged ==
  ASSUME PInv,
         UNCHANGED <<annotations, env, uuids, edited, cache, kept, container>>,
         stage' \in {"none", "admission", "denied", "admitted", "creating", "resolved"},
         outcome' \in {"none", "refused", "failed", "started"},
         todo' \subseteq annotations,
         stage' \in {"admission", "creating"} => ConfsBuilt',
         stage' \notin {"admission", "creating"} => todo' = {} /\ confs' = <<>>,
         stage' = "admission" => outcome' = "none",
         stage' \in {"none", "denied", "admission"} => stage \in {"none", "denied", "admission"},
         stage' \in {"admitted", "creating", "resolved"} =>
           stage \in {"admitted", "creating", "resolved"} \/ uuids = <<>>,
         stage' \in {"creating", "resolved"} => Placeholders(env) # {},
         stage' = "resolved" => DOMAIN cache # {},
         outcome' # outcome => outcome' # "started",
         stage' \in {"admitted", "creating", "resolved"} /\ ~edited => outcome' # "refused"
  PROVE  PInv'
<1>1. \A i \in DOMAIN confs' : \E e \in annotations : e.db = confs'[i].db
  <2>1. CASE stage' \in {"admission", "creating"}
    <3>1. Range(confs') = ConfsMet(annotations, annotations \ todo')
      BY <2>1 DEF ConfsBuilt
    <3> QED BY <3>1, NamesOfConfs
  <2>2. CASE stage' \notin {"admission", "creating"}
    BY <2>2
  <2> QED BY <2>1, <2>2
<1>2. TypeOK'
  BY <1>1 DEF PInv, TypeOK
<1>3. AdmittedAfresh'
  BY DEF PInv, AdmittedAfresh
<1>4. StampedAsAsked'
  BY DEF PInv, StampedAsAsked, Mapping, MappingOf
<1>5. PluginAtWork' /\ ParserIdle'
  BY DEF PInv, PluginAtWork, ParserIdle
<1>6. EnvOfPlaceholders' /\ CacheOfBoundRoles'
  BY DEF PInv, EnvOfPlaceholders, CacheOfBoundRoles
<1>7. NoPlaceholderStarts' /\ OnlyBoundRoles'
  BY DEF PInv, NoPlaceholderStarts, OnlyBoundRoles
<1>8. OwnUuidPerDb' /\ AdmittedMeansSubstitutable'
  BY DEF PInv, OwnUuidPerDb, AdmittedMeansSubstitutable
<1> QED BY <1>2, <1>3, <1>4, <1>5, <1>6, <1>7, <1>8 DEF PInv

LEMMA SubmitKeepsPInv ==
  ASSUME PInv, Submit
  PROVE  PInv'
<1>1. /\ stage \in {"none", "denied"} /\ stage' = "admission" /\ outcome' = "none"
      /\ annotations' \in PodAnnotations /\ todo' = annotations' /\ confs' = <<>>
      /\ UNCHANGED <<env, uuids, edited, cache, kept, container>>
  BY DEF Submit, StartParsing
<1>2. /\ env = <<>> /\ uuids = <<>> /\ cache = <<>> /\ kept = {} /\ ~edited /\ container = <<>>
  BY <1>1 DEF PInv, AdmittedAfresh
<1>3. ConfsBuilt'
  BY <1>1, StartBuilds
<1>4. TypeOK'
  BY <1>1, <1>2, NoLines DEF PInv, TypeOK
<1>5. AdmittedAfresh' /\ StampedAsAsked' /\ PluginAtWork' /\ ParserIdle'
  BY <1>1, <1>2 DEF AdmittedAfresh, StampedAsAsked, PluginAtWork, ParserIdle
<1>6. EnvOfPlaceholders' /\ CacheOfBoundRoles'
  BY <1>1, <1>2 DEF PInv, EnvOfPlaceholders, CacheOfBoundRoles
<1>7. NoPlaceholderStarts' /\ OnlyBoundRoles'
  BY <1>1, <1>2, NoLines DEF NoPlaceholderStarts, OnlyBoundRoles
<1>8. OwnUuidPerDb' /\ AdmittedMeansSubstitutable'
  BY <1>1, <1>2 DEF OwnUuidPerDb, AdmittedMeansSubstitutable
<1> QED BY <1>1, <1>3, <1>4, <1>5, <1>6, <1>7, <1>8 DEF PInv

LEMMA ParseKeepsPInv ==
  ASSUME PInv, Parse
  PROVE  PInv'
<1>1. /\ stage \in {"admission", "creating"} /\ ParseOne
      /\ UNCHANGED <<stage, env, uuids, edited, cache, kept, outcome, container>>
  BY DEF Parse, podVars
<1>2. ConfsBuilt /\ AnnotationsOK(annotations) /\ todo \subseteq annotations
  BY <1>1, AnnotationsAreMaps DEF PInv, TypeOK
<1>3. ConfsBuilt' /\ annotations' = annotations /\ todo' \subseteq annotations
  BY <1>1, <1>2, ParseOneBuilds
<1> QED BY <1>1, <1>3, PodUnchanged DEF PInv, TypeOK, PluginAtWork, AdmittedMeansSubstitutable

LEMMA IgnoreV1PodKeepsPInv ==
  ASSUME PInv, IgnoreV1Pod
  PROVE  PInv'
<1>1. /\ stage = "admission" /\ stage' = "admitted" /\ todo' = {} /\ confs' = <<>>
      /\ UNCHANGED <<annotations, env, uuids, edited, cache, kept, outcome, container>>
  BY DEF IgnoreV1Pod, ParserDone
<1>2. outcome = "none" /\ uuids = <<>>
  BY <1>1 DEF PInv, AdmittedAfresh
<1> QED BY <1>1, <1>2, PodUnchanged DEF PInv, TypeOK

LEMMA DenyKeepsPInv ==
  ASSUME PInv, Deny \/ AdmissionFails
  PROVE  PInv'
<1>1. /\ stage = "admission" /\ stage' = "denied" /\ todo' = {} /\ confs' = <<>>
      /\ outcome' \in {"refused", "failed"}
      /\ UNCHANGED <<annotations, env, uuids, edited, cache, kept, container>>
  BY DEF Deny, AdmissionFails, ParserDone
<1> QED BY <1>1, PodUnchanged DEF PInv, TypeOK

LEMMA AdmitKeepsPInv ==
  ASSUME PInv, Admit
  PROVE  PInv'
<1> DEFINE cs == ByName(confs)
<1>1. /\ stage = "admission" /\ todo = {} /\ stage' = "admitted" /\ todo' = {} /\ confs' = <<>>
      /\ cs # <<>> /\ \A i \in DOMAIN cs : Accepted(cs[i])
      /\ Named(PlaceholderEnv(cs))
      /\ env' = PlaceholderEnv(cs) /\ uuids' = [i \in DOMAIN cs |-> i]
      /\ UNCHANGED <<annotations, edited, cache, kept, outcome, container>>
  BY DEF Admit, ParserDone
<1>2. /\ cache = <<>> /\ kept = {} /\ ~edited /\ container = <<>> /\ outcome = "none"
      /\ ConfsBuilt
  BY <1>1 DEF PInv, AdmittedAfresh
<1>3. cs = ConfsOf(annotations) /\ cs \in Seq(DbConfigurations)
  BY <1>1, <1>2, ParsedInOrder
<1>4. \A e \in annotations : e.type # "revoke-ttl"
  BY <1>1, <1>2 DEF ConfsBuilt
<1> HIDE DEF cs
<1>5. uuids' # <<>>
  <2>1. DOMAIN cs # {}
    BY <1>1, <1>3
  <2> QED BY <1>1, <2>1
<1>6. /\ env' \in Seq(EnvLines)
      /\ SecretsIn(env') \subseteq Secrets
      /\ \A s \in SecretsIn(env') : s.kind = "placeholder"
  <2>1. env' \in Seq(EnvLines)
    BY <1>1, <1>3, StampedEnv
  <2>2. ASSUME NEW s \in SecretsIn(env')
        PROVE  s \in Secrets /\ s.kind = "placeholder"
    <3>1. PICK k \in DOMAIN env' : s \in Range(env'[k].secrets)
      BY DEF SecretsIn
    <3>2. env'[k] \in EnvLines
      BY <2>1
    <3>3. env'[k].secrets \in Seq(Secrets)
      BY <3>2 DEF EnvLines
    <3>4. s \in Secrets
      BY <3>1, <3>3 DEF Range
    <3>5. env'[k] \in Range(PlaceholderEnv(cs))
      BY <1>1 DEF Range
    <3>6. PICK i \in DOMAIN cs :
            LineFor(env'[k], cs[i], Placeholder(i, "username"), Placeholder(i, "password"))
      BY <1>3, <3>5, StampedEnv
    <3> DEFINE user == Placeholder(i, "username")
               password == Placeholder(i, "password")
    <3> HIDE DEF user, password
    <3>7. /\ env'[k].secrets \in {<<>>, <<user>>, <<password>>, <<user, password>>}
          /\ s \in Range(env'[k].secrets)
      BY <3>1, <3>6 DEF LineFor, user, password
    <3>8. s \in {user, password}
      <4>1. /\ Range(<<>>) = {} /\ Range(<<user>>) = {user}
            /\ Range(<<password>>) = {password} /\ Range(<<user, password>>) = {user, password}
        BY ShortRanges, Zenon
      <4> QED BY <3>7, <4>1
    <3> QED BY <3>4, <3>8 DEF Placeholder, user, password
  <2> QED BY <2>1, <2>2
<1>7. TypeOK'
  BY <1>1, <1>2, <1>6, NoLines DEF PInv, TypeOK
<1>8. StampedAsAsked'
  BY <1>1, <1>2, <1>3, <1>4 DEF StampedAsAsked
<1>9. AdmittedAfresh' /\ PluginAtWork' /\ ParserIdle'
  BY <1>1 DEF AdmittedAfresh, PluginAtWork, ParserIdle
<1>10. EnvOfPlaceholders' /\ CacheOfBoundRoles'
  BY <1>1, <1>2, <1>5, <1>6 DEF EnvOfPlaceholders, CacheOfBoundRoles
<1>11. NoPlaceholderStarts' /\ OnlyBoundRoles'
  BY <1>1, <1>2, NoLines DEF NoPlaceholderStarts, OnlyBoundRoles
<1>12. OwnUuidPerDb' /\ AdmittedMeansSubstitutable'
  BY <1>1, <1>2 DEF OwnUuidPerDb, AdmittedMeansSubstitutable
<1> QED BY <1>1, <1>7, <1>8, <1>9, <1>10, <1>11, <1>12 DEF PInv


LEMMA CreateContainerKeepsPInv ==
  ASSUME PInv, CreateContainer
  PROVE  PInv'
<1>1. stage = "admitted" /\ UNCHANGED <<env, uuids, edited, cache, kept>>
  BY DEF CreateContainer
<1>2. CASE Placeholders(env) = {}
  <2>1. /\ outcome' = "started" /\ container' = env
        /\ UNCHANGED <<annotations, todo, confs, stage>>
    BY <1>2 DEF CreateContainer, parserVars
  <2>2. TypeOK'
    BY <1>1, <2>1 DEF PInv, TypeOK
  <2>3. AdmittedAfresh' /\ PluginAtWork' /\ ParserIdle'
    BY <1>1, <2>1 DEF PInv, AdmittedAfresh, PluginAtWork, ParserIdle
  <2>4. StampedAsAsked'
    BY <1>1, <2>1 DEF PInv, StampedAsAsked, Mapping, MappingOf
  <2>5. EnvOfPlaceholders' /\ CacheOfBoundRoles'
    BY <1>1, <2>1 DEF PInv, EnvOfPlaceholders, CacheOfBoundRoles
  <2>6. NoPlaceholderStarts' /\ OnlyBoundRoles'
    BY <1>2, <2>1 DEF PInv, EnvOfPlaceholders, NoPlaceholderStarts, OnlyBoundRoles
  <2>7. OwnUuidPerDb' /\ AdmittedMeansSubstitutable'
    BY <1>1, <2>1 DEF PInv, OwnUuidPerDb, AdmittedMeansSubstitutable
  <2> QED BY <1>1, <2>1, <2>2, <2>3, <2>4, <2>5, <2>6, <2>7 DEF PInv
<1>3. CASE Placeholders(env) # {} /\ DOMAIN cache # {}
  <2>1. stage' = "resolved" /\ UNCHANGED <<annotations, todo, confs, outcome, container>>
    BY <1>3 DEF CreateContainer, parserVars
  <2> QED BY <1>1, <1>3, <2>1, PodUnchanged
          DEF PInv, TypeOK, ParserIdle, AdmittedMeansSubstitutable
<1>4. CASE Placeholders(env) # {} /\ DOMAIN cache = {}
  <2>1. /\ stage' = "creating" /\ annotations' = annotations /\ todo' = annotations
        /\ confs' = <<>> /\ UNCHANGED <<outcome, container>>
    BY <1>4 DEF CreateContainer, StartParsing
  <2>2. ConfsBuilt'
    BY <2>1, StartBuilds
  <2> QED BY <1>1, <1>4, <2>1, <2>2, PodUnchanged
          DEF PInv, TypeOK, AdmittedMeansSubstitutable
<1> QED BY <1>2, <1>3, <1>4

\* The lines of an admitted pod with placeholders are those that its annotations
\* ask for, until they are changed.
LEMMA StampsOf ==
  ASSUME PInv, stage \in {"creating", "resolved"}, ~edited
  PROVE  /\ ConfsOf(annotations) \in Seq(DbConfigurations)
         /\ env = PlaceholderEnv(ConfsOf(annotations))
         /\ uuids = [i \in DOMAIN ConfsOf(annotations) |-> i]
         /\ \A i \in DOMAIN ConfsOf(annotations) : Accepted(ConfsOf(annotations)[i])
         /\ \A e \in annotations : e.type # "revoke-ttl"
         /\ Named(env)
         /\ DOMAIN cache # {} => cache = Mapping(ConfsOf(annotations))
<1>1. uuids # <<>>
  BY NoLines DEF PInv, PluginAtWork, EnvOfPlaceholders
<1> QED BY <1>1 DEF PInv, StampedAsAsked, Mapping, MappingOf

LEMMA PlaceholdersOnly ==
  ASSUME PInv
  PROVE  Placeholders(env) = SecretsIn(env)
BY DEF PInv, EnvOfPlaceholders, Placeholders

LEMMA FetchKeepsPInv ==
  ASSUME PInv, Fetch
  PROVE  PInv'
<1> DEFINE cs == ByName(confs)
<1>1. /\ stage = "creating" /\ todo = {} /\ stage' = "resolved" /\ todo' = {} /\ confs' = <<>>
      /\ \A i \in DOMAIN cs : cs[i].role # Unset /\ CanIGetRoles(cs[i].role[1])
      /\ DOMAIN Mapping(cs) # {} /\ cache' = Mapping(cs)
      /\ kept' = kept \cup {<<cs[i].db, UuidOf(i)>> : i \in DOMAIN cs}
      /\ UNCHANGED <<annotations, env, uuids, edited, outcome, container>>
  BY DEF Fetch, ParserDone
<1>2. /\ ConfsBuilt /\ env \in Seq(EnvLines)
      /\ Placeholders(env) # {}
  BY <1>1 DEF PInv, PluginAtWork, EnvOfPlaceholders
<1>3. cs = ConfsOf(annotations) /\ cs \in Seq(DbConfigurations)
  BY <1>1, <1>2, ParsedInOrder
<1> HIDE DEF cs
<1>4. /\ DOMAIN cache' \subseteq SecretsIn(env)
      /\ \A s \in DOMAIN cache' : \E i \in DOMAIN cs, field \in CredentialFields :
           cache'[s] = Credential(cs[i], field)
  BY <1>1, <1>2, <1>3, MappingOfConfs
<1>5. ASSUME NEW i \in DOMAIN cs, NEW field \in CredentialFields
      PROVE  /\ Credential(cs[i], field) \in Secrets
             /\ Credential(cs[i], field).kind = "credential"
             /\ ServiceAccount \in VaultRoles[Credential(cs[i], field).role[1]].serviceAccounts
  <2>1. cs[i] \in DbConfigurations
    BY <1>3
  <2>2. ServiceAccount \in VaultRoles[cs[i].role[1]].serviceAccounts
    BY <1>1 DEF CanIGetRoles
  <2> QED BY <2>1, <2>2 DEF Credential, Secrets, DbConfigurations, CredentialFields
<1>6. /\ CacheOfBoundRoles'
      /\ \A s \in DOMAIN cache' : s \in SecretsIn(env) /\ cache'[s] \in Secrets
  BY <1>4, <1>5 DEF CacheOfBoundRoles
<1>7. ASSUME NEW k \in kept'
      PROVE  /\ k[2] = PodUid \/ k[2] \in Range(uuids)
             /\ ~edited => \E i \in DOMAIN uuids : k = <<ConfsOf(annotations)[i].db, uuids[i]>>
  <2>1. CASE k \in kept
    BY <2>1 DEF PInv, TypeOK, OwnUuidPerDb
  <2>2. CASE k \notin kept
    <3>1. PICK i \in DOMAIN cs : k = <<cs[i].db, UuidOf(i)>>
      BY <1>1, <2>2
    <3>2. UuidOf(i) = PodUid \/ UuidOf(i) \in Range(uuids)
      BY DEF UuidOf, Range
    <3>3. ~edited => i \in DOMAIN uuids /\ UuidOf(i) = uuids[i]
      <4> HAVE ~edited
      <4>1. uuids = [j \in DOMAIN cs |-> j]
        BY <1>1, <1>3, StampsOf
      <4> QED BY <4>1 DEF UuidOf
    <3> QED BY <1>3, <3>1, <3>2, <3>3
  <2> QED BY <2>1, <2>2
<1>8. TypeOK'
  BY <1>1, <1>6, <1>7 DEF PInv, TypeOK
<1>9. StampedAsAsked'
  BY <1>1, <1>3, StampsOf DEF StampedAsAsked, Mapping, MappingOf
<1>10. AdmittedAfresh' /\ PluginAtWork' /\ ParserIdle'
  BY <1>1, <1>2 DEF AdmittedAfresh, PluginAtWork, ParserIdle
<1>11. EnvOfPlaceholders' /\ NoPlaceholderStarts' /\ OnlyBoundRoles'
  BY <1>1 DEF PInv, EnvOfPlaceholders, NoPlaceholderStarts, OnlyBoundRoles
<1>12. OwnUuidPerDb' /\ AdmittedMeansSubstitutable'
  BY <1>1, <1>7 DEF PInv, OwnUuidPerDb, AdmittedMeansSubstitutable
<1> QED BY <1>1, <1>6, <1>8, <1>9, <1>10, <1>11, <1>12 DEF PInv


LEMMA FetchRefusedKeepsPInv ==
  ASSUME PInv, FetchRefused
  PROVE  PInv'
<1>1. /\ stage = "creating" /\ stage' = "admitted" /\ outcome' = "refused"
      /\ todo' = {} /\ confs' = <<>>
      /\ UNCHANGED <<annotations, env, uuids, edited, cache, kept, container>>
  BY DEF FetchRefused, Refuse, ParserDone
<1>2. edited
  <2> SUFFICES ASSUME ~edited PROVE FALSE
    BY DEF PInv, TypeOK
  <2>1. /\ env = PlaceholderEnv(ConfsOf(annotations))
        /\ \A i \in DOMAIN ConfsOf(annotations) : Accepted(ConfsOf(annotations)[i])
        /\ \A e \in annotations : e.type # "revoke-ttl"
    BY <1>1, StampsOf
  <2>2. /\ ConfsBuilt /\ env \in Seq(EnvLines) /\ todo \subseteq annotations
        /\ Placeholders(env) # {}
    BY <1>1 DEF PInv, PluginAtWork, EnvOfPlaceholders, TypeOK
  <2>3. ~MeetsV1Annotation
    BY <2>1, <2>2 DEF MeetsV1Annotation
  <2> DEFINE cs == ByName(confs)
  <2>4. /\ todo = {}
        /\ \/ \E i \in DOMAIN cs : cs[i].role = Unset \/ ~CanIGetRoles(cs[i].role[1])
           \/ DOMAIN Mapping(cs) = {}
    BY <2>3 DEF FetchRefused
  <2>5. cs = ConfsOf(annotations) /\ cs \in Seq(DbConfigurations)
    BY <2>2, <2>4, ParsedInOrder
  <2> HIDE DEF cs
  <2>6. SecretsIn(env) \subseteq DOMAIN Mapping(cs)
    BY <2>1, <2>2, <2>5, MappingCovers
  <2>7. DOMAIN Mapping(cs) # {}
    BY <2>2, <2>6, PlaceholdersOnly
  <2> QED BY <2>1, <2>4, <2>5, <2>7 DEF Accepted
<1> QED BY <1>1, <1>2, PodUnchanged DEF PInv, TypeOK

LEMMA FetchFailsKeepsPInv ==
  ASSUME PInv, FetchFails
  PROVE  PInv'
<1>1. /\ stage = "creating" /\ stage' = "admitted" /\ outcome' = "failed"
      /\ todo' = {} /\ confs' = <<>>
      /\ UNCHANGED <<annotations, env, uuids, edited, cache, kept, container>>
  BY DEF FetchFails, ParserDone
<1> QED BY <1>1, PodUnchanged DEF PInv, TypeOK

\* The cache has credentials only, so what is left of the placeholders has none there.
LEMMA LeftAfterSubstitution ==
  ASSUME PInv
  PROVE  /\ \A s \in SecretsIn(Substitute(env, cache)) :
              \/ \E p \in DOMAIN cache : s = cache[p]
              \/ s \in SecretsIn(env) \ DOMAIN cache
         /\ SecretsIn(env) \subseteq DOMAIN cache => Placeholders(Substitute(env, cache)) = {}
<1>1. \A s \in SecretsIn(Substitute(env, cache)) :
        \/ \E p \in DOMAIN cache : s = cache[p]
        \/ s \in SecretsIn(env) \ DOMAIN cache
  BY SubstitutedSecrets DEF PInv, EnvOfPlaceholders
<1>2. \A p \in DOMAIN cache : cache[p].kind # "placeholder"
  BY DEF PInv, CacheOfBoundRoles
<1> QED BY <1>1, <1>2 DEF Placeholders

LEMMA StartContainerKeepsPInv ==
  ASSUME PInv, StartContainer
  PROVE  PInv'
<1> DEFINE sub == Substitute(env, cache)
<1>1. /\ stage = "resolved" /\ stage' = "admitted" /\ outcome' = "started"
      /\ Placeholders(sub) = {} /\ container' = sub
      /\ UNCHANGED <<annotations, todo, confs, env, uuids, edited, cache, kept>>
  BY DEF StartContainer, parserVars
<1>2. ASSUME NEW s \in SecretsIn(sub)
      PROVE  /\ s \in Secrets
             /\ s.kind # "placeholder" =>
                  ServiceAccount \in VaultRoles[s.role[1]].serviceAccounts
  <2>1. CASE \E p \in DOMAIN cache : s = cache[p]
    BY <2>1 DEF PInv, TypeOK, CacheOfBoundRoles
  <2>2. CASE s \in SecretsIn(env)
    BY <2>2 DEF PInv, TypeOK, EnvOfPlaceholders
  <2> QED BY <2>1, <2>2, LeftAfterSubstitution
<1> HIDE DEF sub
<1>3. TypeOK'
  BY <1>1, <1>2 DEF PInv, TypeOK
<1>4. AdmittedAfresh' /\ PluginAtWork' /\ ParserIdle'
  BY <1>1 DEF PInv, AdmittedAfresh, PluginAtWork, ParserIdle
<1>5. StampedAsAsked'
  BY <1>1 DEF PInv, StampedAsAsked, Mapping, MappingOf
<1>6. EnvOfPlaceholders' /\ CacheOfBoundRoles'
  BY <1>1 DEF PInv, EnvOfPlaceholders, CacheOfBoundRoles
<1>7. NoPlaceholderStarts' /\ OnlyBoundRoles'
  BY <1>1, <1>2 DEF NoPlaceholderStarts, OnlyBoundRoles
<1>8. OwnUuidPerDb' /\ AdmittedMeansSubstitutable'
  BY <1>1 DEF PInv, OwnUuidPerDb, AdmittedMeansSubstitutable
<1> QED BY <1>1, <1>3, <1>4, <1>5, <1>6, <1>7, <1>8 DEF PInv

LEMMA SubstitutionRefusedKeepsPInv ==
  ASSUME PInv, SubstitutionRefused
  PROVE  PInv'
<1>1. /\ stage = "resolved" /\ stage' = "admitted" /\ outcome' = "refused"
      /\ todo' = {} /\ confs' = <<>>
      /\ UNCHANGED <<annotations, env, uuids, edited, cache, kept, container>>
      /\ Substitute(env, cache) = env \/ Placeholders(Substitute(env, cache)) # {}
  BY DEF SubstitutionRefused, Refuse, ParserDone
<1>2. edited
  <2> SUFFICES ASSUME ~edited PROVE FALSE
    BY DEF PInv, TypeOK
  <2>1. Placeholders(env) # {} /\ DOMAIN cache # {}
    BY <1>1 DEF PInv, PluginAtWork
  <2>2. SecretsIn(env) \subseteq DOMAIN cache
    <3> DEFINE cs == ConfsOf(annotations)
    <3>1. /\ env = PlaceholderEnv(cs) /\ cache = Mapping(cs) /\ env \in Seq(EnvLines)
          /\ \A i \in DOMAIN cs : Accepted(cs[i])
          /\ cs \in Seq(DbConfigurations)
      BY <1>1, <2>1, StampsOf DEF PInv, EnvOfPlaceholders
    <3> HIDE DEF cs
    <3> QED BY <3>1, MappingCovers
  <2>3. Placeholders(Substitute(env, cache)) = {}
    BY <2>2, LeftAfterSubstitution
  <2> QED BY <1>1, <2>1, <2>3
<1> QED BY <1>1, <1>2, PodUnchanged DEF PInv, TypeOK

LEMMA LoseCacheKeepsPInv ==
  ASSUME PInv, LoseCache
  PROVE  PInv'
<1>1. /\ stage = "admitted" /\ cache' = <<>>
      /\ UNCHANGED <<annotations, todo, confs, stage, env, uuids, edited, kept, outcome, container>>
  BY DEF LoseCache, parserVars
<1>2. TypeOK' /\ EnvOfPlaceholders' /\ CacheOfBoundRoles'
  BY <1>1 DEF PInv, TypeOK, EnvOfPlaceholders, CacheOfBoundRoles
<1>3. AdmittedAfresh' /\ StampedAsAsked' /\ PluginAtWork' /\ ParserIdle'
  <2>1. DOMAIN cache' = {}
    BY <1>1
  <2> QED BY <1>1, <2>1 DEF PInv, AdmittedAfresh, StampedAsAsked, PluginAtWork, ParserIdle
<1>4. NoPlaceholderStarts' /\ OnlyBoundRoles' /\ OwnUuidPerDb' /\ AdmittedMeansSubstitutable'
  BY <1>1 DEF PInv, NoPlaceholderStarts, OnlyBoundRoles, OwnUuidPerDb, AdmittedMeansSubstitutable
<1> QED BY <1>1, <1>2, <1>3, <1>4 DEF PInv

LEMMA EditAnnotationsKeepsPInv ==
  ASSUME PInv, EditAnnotations
  PROVE  PInv'
<1>1. /\ stage = "admitted" /\ annotations' \in PodAnnotations /\ edited' = TRUE
      /\ UNCHANGED <<todo, confs, stage, env, uuids, cache, kept, outcome, container>>
  BY DEF EditAnnotations
<1>2. todo = {} /\ confs = <<>>
  BY <1>1 DEF PInv, ParserIdle
<1>3. TypeOK' /\ EnvOfPlaceholders' /\ CacheOfBoundRoles'
  BY <1>1, <1>2 DEF PInv, TypeOK, EnvOfPlaceholders, CacheOfBoundRoles
<1>4. AdmittedAfresh' /\ StampedAsAsked' /\ PluginAtWork' /\ ParserIdle'
  BY <1>1, <1>2 DEF PInv, AdmittedAfresh, StampedAsAsked, PluginAtWork, ParserIdle
<1>5. NoPlaceholderStarts' /\ OnlyBoundRoles' /\ OwnUuidPerDb' /\ AdmittedMeansSubstitutable'
  BY <1>1 DEF PInv, NoPlaceholderStarts, OnlyBoundRoles, OwnUuidPerDb, AdmittedMeansSubstitutable
<1> QED BY <1>1, <1>3, <1>4, <1>5 DEF PInv

LEMMA InitPInv ==
  ASSUME Init
  PROVE  PInv
<1>1. /\ annotations = {} /\ todo = {} /\ confs = <<>> /\ stage = "none"
      /\ env = <<>> /\ uuids = <<>> /\ container = <<>> /\ edited = FALSE
      /\ cache = <<>> /\ kept = {} /\ outcome = "none"
  BY DEF Init
<1>2. TypeOK
  <2>1. DOMAIN <<>> = {} /\ SecretsIn(<<>>) = {}
    BY NoLines
  <2>2. DOMAIN confs = {} /\ DOMAIN cache = {} /\ DOMAIN uuids = {}
    BY <1>1, <2>1
  <2>3. SecretsIn(env) = {} /\ SecretsIn(container) = {}
    BY <1>1, <2>1
  <2> QED BY <1>1, <2>2, <2>3 DEF TypeOK
<1>3. AdmittedAfresh /\ StampedAsAsked /\ PluginAtWork /\ ParserIdle
  BY <1>1 DEF AdmittedAfresh, StampedAsAsked, PluginAtWork, ParserIdle
<1>4. EnvOfPlaceholders /\ CacheOfBoundRoles
  BY <1>1, NoLines DEF EnvOfPlaceholders, CacheOfBoundRoles
<1>5. NoPlaceholderStarts /\ OnlyBoundRoles
  BY <1>1, NoLines DEF NoPlaceholderStarts, OnlyBoundRoles
<1>6. OwnUuidPerDb /\ AdmittedMeansSubstitutable
  BY <1>1 DEF OwnUuidPerDb, AdmittedMeansSubstitutable
<1> QED BY <1>1, <1>2, <1>3, <1>4, <1>5, <1>6 DEF PInv

LEMMA NextPInv ==
  ASSUME PInv, [Next]_vars
  PROVE  PInv'
<1>1. CASE UNCHANGED vars
  <2>1. UNCHANGED <<annotations, todo, confs, stage, env, uuids, edited, cache, kept, outcome,
                    container>>
    BY <1>1 DEF vars, parserVars, podVars
  <2>2. stage \in {"admission", "creating"} => ConfsBuilt'
    BY <2>1 DEF PInv, ConfsBuilt
  <2> QED BY <2>1, <2>2, PodUnchanged
          DEF PInv, TypeOK, ParserIdle, PluginAtWork, AdmittedMeansSubstitutable
<1>2. CASE Submit \/ Parse \/ IgnoreV1Pod \/ Admit \/ Deny \/ AdmissionFails
  BY <1>2, SubmitKeepsPInv, ParseKeepsPInv, IgnoreV1PodKeepsPInv, AdmitKeepsPInv, DenyKeepsPInv
<1>3. CASE CreateContainer \/ Fetch \/ FetchRefused \/ FetchFails
  BY <1>3, CreateContainerKeepsPInv, FetchKeepsPInv, FetchRefusedKeepsPInv, FetchFailsKeepsPInv
<1>4. CASE StartContainer \/ SubstitutionRefused \/ LoseCache \/ EditAnnotations
  BY <1>4, StartContainerKeepsPInv, SubstitutionRefusedKeepsPInv, LoseCacheKeepsPInv,
     EditAnnotationsKeepsPInv
<1> QED BY <1>1, <1>2, <1>3, <1>4 DEF Next

-----------------------------------------------------------------------------
(* What NRI gives, and what the webhook gives without *)

\* The line with the values that the mapping has for its secrets.
Resolved(line, mapping) ==
  [line EXCEPT !.secrets =
    [j \in DOMAIN @ |-> IF @[j] \in DOMAIN mapping THEN mapping[@[j]] ELSE @[j]]]

LEMMA SubstituteMaps ==
  ASSUME NEW lines \in Seq(EnvLines), NEW mapping
  PROVE  Substitute(lines, mapping) = Mapped([line \in EnvLines |-> Resolved(line, mapping)], lines)
<1> DEFINE h == [line \in EnvLines |-> Resolved(line, mapping)]
<1>1. \A k \in DOMAIN lines : lines[k] \in EnvLines
  OBVIOUS
<1>2. \A k \in DOMAIN lines : h[lines[k]] = Resolved(lines[k], mapping)
  BY <1>1
<1>3. Substitute(lines, mapping) = [k \in DOMAIN lines |-> Resolved(lines[k], mapping)]
  BY DEF Substitute, Resolved
<1> HIDE DEF h
<1>4. Mapped(h, lines) = [k \in DOMAIN lines |-> Resolved(lines[k], mapping)]
  BY <1>2 DEF Mapped
<1> QED BY <1>3, <1>4 DEF h

\* The lines of a dbConfiguration, one by one.
NameAt(conf, k) ==
  IF Classic(conf)
    THEN IF k <= Len(conf.user) THEN conf.user[k] ELSE conf.password[k - Len(conf.user)]
    ELSE conf.uri[k]

SecretsAt(conf, user, password, k) ==
  IF Classic(conf)
    THEN IF k <= Len(conf.user) THEN <<user>> ELSE <<password>>
    ELSE IF conf.template = <<"opaque">> THEN <<>> ELSE <<user, password>>

LineAt(conf, user, password, k) ==
  Line(NameAt(conf, k), ~Classic(conf), SecretsAt(conf, user, password, k))

LineCount(conf) ==
  IF Classic(conf) THEN Len(conf.user) + Len(conf.password) ELSE Len(conf.uri)

\* A list of the length.
OfLength(s, n) == n \in Nat /\ DOMAIN s = 1..n /\ s = [k \in 1..n |-> s[k]]

LEMMA ConcatAt ==
  ASSUME NEW m \in Nat, NEW n \in Nat, NEW u, NEW p, OfLength(u, m), OfLength(p, n)
  PROVE  /\ DOMAIN (u \o p) = 1..(m + n)
         /\ \A k \in 1..(m + n) : (u \o p)[k] = IF k <= m THEN u[k] ELSE p[k - m]
<1> DEFINE M == {u[k] : k \in 1..m} \cup {p[k] : k \in 1..n}
<1>1. u \in [1..m -> M] /\ p \in [1..n -> M] /\ m \in Nat /\ n \in Nat
  BY DEF OfLength
<1> HIDE DEF M
<1>2. u \in Seq(M) /\ p \in Seq(M) /\ Len(u) = m /\ Len(p) = n
  <2>1. ASSUME NEW l \in Nat, NEW q \in [1..l -> M] PROVE q \in Seq(M) /\ Len(q) = l
    OBVIOUS
  <2> QED BY <1>1, <2>1
<1> QED BY <1>2

LEMMA LinesAt ==
  ASSUME NEW conf \in DbConfigurations, NEW user, NEW password,
         Escaped(user) = user, Escaped(password) = password
  PROVE  /\ DOMAIN LinesOf(conf, user, password) = 1..LineCount(conf)
         /\ \A k \in 1..LineCount(conf) :
              LinesOf(conf, user, password)[k] = LineAt(conf, user, password, k)
<1> DEFINE lines == LinesOf(conf, user, password)
<1>1. /\ conf.user \in Seq(Names) /\ conf.password \in Seq(Names) /\ conf.uri \in Seq(Names)
  BY ValuesAreLists DEF DbConfigurations
<1>2. CASE Classic(conf)
  <2> DEFINE u == [k \in DOMAIN conf.user |-> Line(conf.user[k], FALSE, <<user>>)]
             p == [k \in DOMAIN conf.password |-> Line(conf.password[k], FALSE, <<password>>)]
  <2>1. lines = u \o p
    BY <1>2 DEF LinesOf
  <2>2. /\ DOMAIN conf.user = 1..Len(conf.user) /\ Len(conf.user) \in Nat
        /\ DOMAIN conf.password = 1..Len(conf.password) /\ Len(conf.password) \in Nat
    BY <1>1
  <2>3. OfLength(u, Len(conf.user)) /\ OfLength(p, Len(conf.password))
    BY <2>2 DEF OfLength
  <2>4. /\ \A k \in 1..Len(conf.user) : u[k] = Line(conf.user[k], FALSE, <<user>>)
        /\ \A k \in 1..Len(conf.password) : p[k] = Line(conf.password[k], FALSE, <<password>>)
    BY <2>2
  <2> HIDE DEF u, p
  <2>5. /\ DOMAIN (u \o p) = 1..(Len(conf.user) + Len(conf.password))
        /\ \A k \in 1..(Len(conf.user) + Len(conf.password)) :
             (u \o p)[k] = IF k <= Len(conf.user) THEN u[k] ELSE p[k - Len(conf.user)]
    <3> DEFINE m == Len(conf.user)
               n == Len(conf.password)
    <3>1. OfLength(u, m) /\ OfLength(p, n) /\ m \in Nat /\ n \in Nat
      BY <2>2, <2>3
    <3> HIDE DEF m, n, lines
    <3>2. /\ DOMAIN (u \o p) = 1..(m + n)
          /\ \A k \in 1..(m + n) : (u \o p)[k] = IF k <= m THEN u[k] ELSE p[k - m]
      BY <3>1, ConcatAt
    <3> QED BY <3>2 DEF m, n
  <2>6. LineCount(conf) = Len(conf.user) + Len(conf.password)
    BY <1>2 DEF LineCount
  <2> HIDE DEF lines
  <2>7. ASSUME NEW k \in 1..LineCount(conf)
        PROVE  lines[k] = LineAt(conf, user, password, k)
    <3>1. CASE k <= Len(conf.user)
      <4>1. k \in 1..Len(conf.user)
        BY <2>2, <2>6, <3>1
      <4>2. lines[k] = Line(conf.user[k], FALSE, <<user>>)
        BY <2>1, <2>4, <2>5, <2>6, <3>1, <4>1
      <4> QED BY <1>2, <3>1, <4>2 DEF LineAt, NameAt, SecretsAt
    <3>2. CASE ~(k <= Len(conf.user))
      <4>1. k - Len(conf.user) \in 1..Len(conf.password)
        <5> DEFINE m == Len(conf.user)
                   n == Len(conf.password)
        <5>1. m \in Nat /\ n \in Nat /\ k \in 1..(m + n) /\ ~(k <= m)
          BY <2>2, <2>6, <3>2
        <5> HIDE DEF m, n
        <5>2. k - m \in 1..n
          BY <5>1
        <5> QED BY <5>2 DEF m, n
      <4>2. lines[k] = Line(conf.password[k - Len(conf.user)], FALSE, <<password>>)
        BY <2>1, <2>4, <2>5, <2>6, <3>2, <4>1
      <4> QED BY <1>2, <3>2, <4>2 DEF LineAt, NameAt, SecretsAt
    <3> QED BY <3>1, <3>2
  <2>8. DOMAIN lines = 1..LineCount(conf)
    BY <2>1, <2>5, <2>6
  <2> QED BY <2>7, <2>8 DEF lines
<1>3. CASE ~Classic(conf)
  <2>1. DOMAIN conf.uri = 1..LineCount(conf)
    BY <1>1, <1>3 DEF LineCount
  <2>2. lines = [k \in DOMAIN conf.uri |->
                  Line(conf.uri[k], TRUE, SecretsAt(conf, user, password, k))]
    BY <1>3 DEF LinesOf, SecretsAt
  <2>3. \A k \in DOMAIN conf.uri :
          LineAt(conf, user, password, k) = Line(conf.uri[k], TRUE, SecretsAt(conf, user, password, k))
    BY <1>3 DEF LineAt, NameAt
  <2> HIDE DEF lines
  <2> QED BY <2>1, <2>2, <2>3 DEF lines
<1> QED BY <1>2, <1>3

\* The credentials in the place of the placeholders.
ValuesOf(secrets, mapping) ==
  [j \in DOMAIN secrets |-> IF secrets[j] \in DOMAIN mapping THEN mapping[secrets[j]] ELSE secrets[j]]

LEMMA LineResolved ==
  ASSUME NEW conf, NEW mapping, NEW user, NEW password, NEW u, NEW p, NEW k,
         Range(LineAt(conf, user, password, k).secrets) \subseteq DOMAIN mapping,
         user \in DOMAIN mapping => mapping[user] = u,
         password \in DOMAIN mapping => mapping[password] = p
  PROVE  Resolved(LineAt(conf, user, password, k), mapping) = LineAt(conf, u, p, k)
<1> DEFINE old == SecretsAt(conf, user, password, k)
           new == SecretsAt(conf, u, p, k)
<1>1. Range(old) \subseteq DOMAIN mapping
  BY DEF LineAt, Line
<1>2. ValuesOf(old, mapping) = new
  <2>1. /\ Range(<<user>>) = {user} /\ Range(<<password>>) = {password}
        /\ Range(<<user, password>>) = {user, password}
    BY ShortRanges, Zenon
  <2>2. CASE old = <<user>> /\ new = <<u>>
    <3>1. user \in DOMAIN mapping
      BY <1>1, <2>1, <2>2
    <3> QED BY <2>2, <3>1 DEF ValuesOf
  <2>3. CASE old = <<password>> /\ new = <<p>>
    <3>1. password \in DOMAIN mapping
      BY <1>1, <2>1, <2>3
    <3> QED BY <2>3, <3>1 DEF ValuesOf
  <2>4. CASE old = <<>> /\ new = <<>>
    BY <2>4 DEF ValuesOf
  <2>5. CASE old = <<user, password>> /\ new = <<u, p>>
    <3>1. user \in DOMAIN mapping /\ password \in DOMAIN mapping
      BY <1>1, <2>1, <2>5
    <3>2. ValuesOf(<<user, password>>, mapping) = <<u, p>>
      BY <3>1 DEF ValuesOf
    <3> QED BY <2>5, <3>2
  <2> QED BY <2>2, <2>3, <2>4, <2>5 DEF SecretsAt
<1>3. Resolved(LineAt(conf, user, password, k), mapping)
        = Line(NameAt(conf, k), ~Classic(conf), ValuesOf(old, mapping))
  BY DEF Resolved, LineAt, Line, ValuesOf
<1> QED BY <1>2, <1>3 DEF LineAt


CredentialLines(cs) ==
  [i \in DOMAIN cs |-> LinesOf(cs[i], Credential(cs[i], "username"), Credential(cs[i], "password"))]

\* A credential without a character that a URI must escape.
LEMMA PlainCredentials ==
  ASSUME ~ReservedChars, NEW conf \in DbConfigurations, NEW field \in CredentialFields
  PROVE  Credential(conf, field) \in Secrets /\ Escaped(Credential(conf, field)) = Credential(conf, field)
BY DEF Credential, Secrets, DbConfigurations, CredentialFields, Escaped

LEMMA CredentialLinesOf ==
  ASSUME ~ReservedChars, NEW cs \in Seq(DbConfigurations)
  PROVE  CredentialLines(cs) \in Seq(Seq(EnvLines)) /\ DOMAIN CredentialLines(cs) = DOMAIN cs
<1> DEFINE ss == CredentialLines(cs)
<1>1. DOMAIN cs = 1..Len(cs) /\ Len(cs) \in Nat
  OBVIOUS
<1>2. ASSUME NEW i \in DOMAIN cs PROVE ss[i] \in Seq(EnvLines)
  <2> DEFINE user == Credential(cs[i], "username")
             password == Credential(cs[i], "password")
             conf == cs[i]
             lines == ss[i]
  <2>1. conf \in DbConfigurations
    OBVIOUS
  <2>2. /\ user \in Secrets /\ password \in Secrets
        /\ Escaped(user) = user /\ Escaped(password) = password
    BY <2>1, PlainCredentials DEF CredentialFields
  <2>3. lines = LinesOf(conf, user, password)
    BY DEF CredentialLines
  <2> HIDE DEF user, password, ss, conf, lines
  <2>4. lines \in Seq(EnvLines)
    BY <2>1, <2>2, <2>3, StampedLines
  <2> QED BY <2>4 DEF lines
<1>3. DOMAIN ss = DOMAIN cs /\ ss = [i \in DOMAIN cs |-> ss[i]]
  BY DEF CredentialLines
<1> HIDE DEF ss
<1>4. ss \in [1..Len(cs) -> Seq(EnvLines)]
  BY <1>1, <1>2, <1>3
<1>5. ss \in Seq(Seq(EnvLines))
  BY <1>1, <1>4
<1> QED BY <1>3, <1>5 DEF ss

\* A placeholder of the webhook has the credential it stands for.
LEMMA RightCredential ==
  ASSUME env \in Seq(EnvLines), NEW cs \in Seq(DbConfigurations), env = PlaceholderEnv(cs),
         NamedOnce(cs), NEW i \in DOMAIN cs, NEW field \in CredentialFields,
         NEW s, s = Placeholder(i, field), s \in DOMAIN Mapping(cs)
  PROVE  Mapping(cs)[s] = Credential(cs[i], field)
<1>1. PICK j \in DOMAIN cs, k \in DOMAIN env :
        /\ s \in DOMAIN FieldsIn(env[k], cs[j])
        /\ Mapping(cs)[s] = Credential(cs[j], FieldsIn(env[k], cs[j])[s])
  BY MappingOfConfs
<1> DEFINE line == env[k]
<1>2. PICK l \in DOMAIN cs :
        LineFor(line, cs[l], Placeholder(l, "username"), Placeholder(l, "password"))
  <2>1. line \in Range(PlaceholderEnv(cs))
    BY DEF Range
  <2> QED BY <2>1, StampedEnv
<1>3. s \in Range(line.secrets)
  BY <1>1, FieldsOfLine
<1> HIDE DEF line
<1> DEFINE user == Placeholder(l, "username")
           password == Placeholder(l, "password")
<1>4. /\ Range(<<>>) = {} /\ Range(<<user>>) = {user}
      /\ Range(<<password>>) = {password} /\ Range(<<user, password>>) = {user, password}
  BY ShortRanges, Zenon
<1>5. /\ s.of = i /\ s.field = field
      /\ user.of = l /\ user.field = "username" /\ password.of = l /\ password.field = "password"
  BY DEF Placeholder
<1> HIDE DEF user, password
<1>6. line.secrets \in {<<>>, <<user>>, <<password>>, <<user, password>>}
  BY <1>2 DEF LineFor, user, password
<1>7. s \in {user, password}
  BY <1>3, <1>4, <1>6
<1>8. l = i /\ s = IF field = "username" THEN user ELSE password
  BY <1>5, <1>7 DEF CredentialFields
<1>9. line.name \in Variables(cs[i]) /\ line.name \in Variables(cs[j])
  <2>1. line.name \in Variables(cs[l])
    BY <1>2 DEF LineFor, Variables
  <2>2. line.name \in Variables(cs[j])
    BY <1>1 DEF FieldsIn, Variables, line
  <2> QED BY <1>8, <2>1, <2>2
<1>10. j = i
  BY <1>9 DEF NamedOnce
<1>11. FieldsIn(line, cs[i])[s] = field
  <2>1. s \in DOMAIN FieldsIn(line, cs[i])
    BY <1>1, <1>10 DEF line
  <2>2. LineFor(line, cs[i], user, password)
    BY <1>2, <1>8 DEF user, password
  <2>3. CASE Classic(cs[i])
    <3>1. Range(cs[i].user) \cap Range(cs[i].password) = {}
      BY <2>3 DEF NamedOnce
    <3>2. FieldsIn(line, cs[i])[s] = IF line.name \in Range(cs[i].user) THEN "username" ELSE "password"
      BY <2>1, <2>3 DEF FieldsIn
    <3>3. CASE line.secrets = <<user>> /\ line.name \in Range(cs[i].user)
      BY <1>3, <1>4, <1>5, <3>2, <3>3
    <3>4. CASE line.secrets = <<password>> /\ line.name \in Range(cs[i].password)
      BY <1>3, <1>4, <1>5, <3>1, <3>2, <3>4
    <3> QED BY <2>2, <2>3, <3>3, <3>4 DEF LineFor
  <2>4. CASE ~Classic(cs[i])
    <3>1. line.secrets = <<user, password>>
      BY <1>3, <1>4, <2>2, <2>4 DEF LineFor
    <3>2. FieldsIn(line, cs[i])[s] = IF s = line.secrets[1] THEN "username" ELSE "password"
      BY <2>1, <2>4 DEF FieldsIn
    <3>3. line.secrets[1] = user
      BY <3>1
    <3> QED BY <1>5, <1>7, <3>2, <3>3
  <2> QED BY <2>3, <2>4
<1> QED BY <1>1, <1>10, <1>11 DEF line


\* The plugin makes of the webhook's lines what the webhook would have written.
LEMMA SubstitutedEnv ==
  ASSUME ~ReservedChars, env \in Seq(EnvLines), NEW cs \in Seq(DbConfigurations),
         env = PlaceholderEnv(cs), NamedOnce(cs), \A i \in DOMAIN cs : Accepted(cs[i])
  PROVE  Substitute(env, Mapping(cs)) = CredentialEnv(cs)
<1> DEFINE mapping == Mapping(cs)
           h == [line \in EnvLines |-> Resolved(line, mapping)]
           rr == PlaceholderLines(cs)
           tt == CredentialLines(cs)
<1>1. env = FlattenSeq(rr) /\ CredentialEnv(cs) = FlattenSeq(tt)
  BY DEF PlaceholderEnv, CredentialEnv, PlaceholderLines, CredentialLines
<1>2. /\ rr \in Seq(Seq(EnvLines)) /\ DOMAIN rr = DOMAIN cs
      /\ tt \in Seq(Seq(EnvLines)) /\ DOMAIN tt = DOMAIN cs
  BY PlaceholderLinesOf, CredentialLinesOf
<1>3. SecretsIn(env) \subseteq DOMAIN mapping
  BY MappingCovers
<1>4. ASSUME NEW i \in DOMAIN cs
      PROVE  tt[i] = Mapped(h, rr[i])
  <2> DEFINE conf == cs[i]
             user == Placeholder(i, "username")
             password == Placeholder(i, "password")
             u == Credential(conf, "username")
             p == Credential(conf, "password")
             before == rr[i]
             after == tt[i]
  <2>1. conf \in DbConfigurations /\ before \in Seq(EnvLines)
    BY <1>2
  <2>2. /\ Escaped(user) = user /\ Escaped(password) = password
        /\ Escaped(u) = u /\ Escaped(p) = p
    BY <2>1, PlainCredentials DEF CredentialFields, Placeholder, Escaped
  <2>3. /\ user \in DOMAIN mapping => mapping[user] = u
        /\ password \in DOMAIN mapping => mapping[password] = p
    BY RightCredential DEF CredentialFields
  <2>4. before = LinesOf(conf, user, password) /\ after = LinesOf(conf, u, p)
    BY DEF PlaceholderLines, CredentialLines
  <2>5. \A k \in DOMAIN before : Range(before[k].secrets) \subseteq DOMAIN mapping
    <3> SUFFICES ASSUME NEW k \in DOMAIN before, NEW s \in Range(before[k].secrets)
                 PROVE  s \in DOMAIN mapping
      OBVIOUS
    <3>1. before[k] \in Range(FlattenSeq(rr))
      <4>1. before[k] \in Range(before)
        BY DEF Range
      <4> HIDE DEF rr
      <4>2. Range(rr[i]) \subseteq Range(FlattenSeq(rr))
        BY <1>2, FlattenLines
      <4> QED BY <4>1, <4>2
    <3>2. PICK m \in DOMAIN env : env[m] = before[k]
      BY <1>1, <3>1 DEF Range
    <3>3. s \in SecretsIn(env)
      BY <3>2 DEF SecretsIn
    <3> QED BY <1>3, <3>3
  <2> HIDE DEF mapping, conf, user, password, u, p, before, after
  <2>6. /\ DOMAIN before = 1..LineCount(conf) /\ DOMAIN after = 1..LineCount(conf)
        /\ \A k \in 1..LineCount(conf) :
             /\ before[k] = LineAt(conf, user, password, k)
             /\ after[k] = LineAt(conf, u, p, k)
    BY <2>1, <2>2, <2>4, LinesAt
  <2>7. ASSUME NEW k \in DOMAIN before PROVE after[k] = h[before[k]]
    <3>1. Resolved(before[k], mapping) = after[k]
      BY <2>3, <2>5, <2>6, LineResolved
    <3>2. before[k] \in EnvLines
      BY <2>1
    <3> QED BY <3>1, <3>2
  <2>8. after = [k \in DOMAIN after |-> after[k]]
    <3>1. after \in Seq(EnvLines)
      BY <1>2 DEF after
    <3> QED BY <3>1
  <2>9. after = Mapped(h, before)
    <3> HIDE DEF h
    <3> QED BY <2>6, <2>7, <2>8 DEF Mapped
  <2> QED BY <2>9 DEF before, after
<1>5. EachMapped(h, rr, tt)
  BY <1>2, <1>4 DEF EachMapped
<1>6. Substitute(env, mapping) = Mapped(h, env)
  BY SubstituteMaps
<1> HIDE DEF h, rr, tt
<1>7. FlattenSeq(tt) = Mapped(h, FlattenSeq(rr))
  BY <1>2, <1>5, FlattenMapped
<1> QED BY <1>1, <1>6, <1>7

\* The lines are left alone when there is nothing in them to substitute.
LEMMA NothingToSubstitute ==
  ASSUME env \in Seq(EnvLines), SecretsIn(env) = {}, NEW mapping
  PROVE  Substitute(env, mapping) = env
<1>1. ASSUME NEW k \in DOMAIN env PROVE Resolved(env[k], mapping) = env[k]
  <2>1. env[k] \in EnvLines
    OBVIOUS
  <2>2. Range(env[k].secrets) = {}
    BY DEF SecretsIn
  <2> DEFINE secrets == env[k].secrets
  <2>3. secrets \in Seq(Secrets) /\ \A j \in DOMAIN secrets : secrets[j] \in Range(secrets)
    BY <2>1 DEF EnvLines, Range
  <2>4. secrets = <<>>
    <3>1. DOMAIN secrets = {}
      BY <2>2, <2>3
    <3> HIDE DEF secrets
    <3> QED BY <2>3, <3>1
  <2> QED BY <2>1, <2>4 DEF Resolved, EnvLines
<1>2. Substitute(env, mapping) = [k \in DOMAIN env |-> Resolved(env[k], mapping)]
  BY DEF Substitute, Resolved
<1>3. env = [k \in DOMAIN env |-> env[k]]
  OBVIOUS
<1> QED BY <1>1, <1>2, <1>3

\* Each started container has what the webhook would have written.
LEMMA NextGivesWhatLegacyGives ==
  ASSUME PInv, NriGivesWhatLegacyGives, [Next]_vars
  PROVE  NriGivesWhatLegacyGives'
<1> DEFINE cs == ConfsOf(annotations)
<1>1. ASSUME ~edited, uuids # <<>>, ~ReservedChars, NamedOnce(cs),
             stage \in {"admitted", "creating", "resolved"}
      PROVE  /\ Substitute(env, Mapping(cs)) = CredentialEnv(cs)
             /\ DOMAIN cache # {} => cache = Mapping(cs)
             /\ Placeholders(env) = {} => env = CredentialEnv(cs)
  <2>1. /\ cs \in Seq(DbConfigurations) /\ env = PlaceholderEnv(cs)
        /\ \A i \in DOMAIN cs : Accepted(cs[i])
        /\ Named(env)
        /\ DOMAIN cache # {} => cache = Mapping(cs)
        /\ env \in Seq(EnvLines)
    BY <1>1 DEF PInv, StampedAsAsked, EnvOfPlaceholders
  <2> HIDE DEF cs
  <2>2. Substitute(env, Mapping(cs)) = CredentialEnv(cs)
    BY <1>1, <2>1, SubstitutedEnv
  <2>3. Placeholders(env) = {} => Substitute(env, Mapping(cs)) = env
    BY <2>1, NothingToSubstitute, PlaceholdersOnly
  <2> QED BY <2>1, <2>2, <2>3
<1>2. CASE StartContainer
  <2>1. /\ stage = "resolved" /\ container' = Substitute(env, cache)
        /\ UNCHANGED <<annotations, uuids, edited>>
    BY <1>2 DEF StartContainer, parserVars
  <2>2. DOMAIN cache # {}
    BY <2>1 DEF PInv, PluginAtWork
  <2> QED BY <1>1, <2>1, <2>2 DEF NriGivesWhatLegacyGives
<1>3. CASE CreateContainer
  <2>1. stage = "admitted" /\ UNCHANGED <<annotations, uuids, edited>>
    BY <1>3 DEF CreateContainer, StartParsing, parserVars
  <2>2. CASE Placeholders(env) = {}
    <3>1. container' = env
      BY <1>3, <2>2 DEF CreateContainer
    <3> QED BY <1>1, <2>1, <2>2, <3>1 DEF NriGivesWhatLegacyGives
  <2>3. CASE Placeholders(env) # {}
    <3>1. UNCHANGED <<outcome, container>>
      BY <1>3, <2>3 DEF CreateContainer
    <3> QED BY <2>1, <3>1 DEF NriGivesWhatLegacyGives
  <2> QED BY <2>2, <2>3
<1>4. CASE Submit \/ Parse \/ IgnoreV1Pod \/ Admit \/ Deny \/ AdmissionFails
  <2>1. CASE Submit \/ Deny \/ AdmissionFails
    BY <2>1 DEF Submit, Deny, AdmissionFails, NriGivesWhatLegacyGives
  <2>2. CASE IgnoreV1Pod \/ Admit
    BY <2>2 DEF IgnoreV1Pod, Admit, ParserDone, PInv, NriGivesWhatLegacyGives
  <2>3. CASE Parse
    BY <2>3 DEF Parse, ParseOne, podVars, NriGivesWhatLegacyGives
  <2> QED BY <1>4, <2>1, <2>2, <2>3
<1>5. CASE Fetch \/ FetchRefused \/ FetchFails \/ SubstitutionRefused
  BY <1>5 DEF Fetch, FetchRefused, FetchFails, SubstitutionRefused, Refuse, ParserDone,
              NriGivesWhatLegacyGives
<1>6. CASE LoseCache \/ EditAnnotations
  BY <1>6 DEF LoseCache, EditAnnotations, parserVars, NriGivesWhatLegacyGives
<1>7. CASE UNCHANGED vars
  BY <1>7 DEF vars, parserVars, podVars, NriGivesWhatLegacyGives
<1> QED BY <1>2, <1>3, <1>4, <1>5, <1>6, <1>7 DEF Next

-----------------------------------------------------------------------------
(* The theorems *)

\* Between two steps of the webhook, the plugin or a user, what the pod carries,
\* the plugin caches and the containers got fit together.
THEOREM SpecPInv == Spec => []PInv
<1>1. Init => PInv
  BY InitPInv
<1>2. PInv /\ [Next]_vars => PInv'
  BY NextPInv
<1> QED BY <1>1, <1>2, PTL DEF Spec

\* The variables hold what the parser, the webhook and the plugin put into them.
THEOREM PodSpecTypeOK == Spec => []TypeOK
<1>1. PInv => TypeOK
  BY DEF PInv
<1> QED BY <1>1, SpecPInv, PTL

\* No container starts with a placeholder (CreateContainer).
THEOREM SpecNoPlaceholderStarts == Spec => []NoPlaceholderStarts
<1>1. PInv => NoPlaceholderStarts
  BY DEF PInv
<1> QED BY <1>1, SpecPInv, PTL

\* A container never gets a credential of a role that does not bind its pod's
\* service account (canIGetRoles in authorizeDbAccess).
THEOREM SpecOnlyBoundRoles == Spec => []OnlyBoundRoles
<1>1. PInv => OnlyBoundRoles
  BY DEF PInv
<1> QED BY <1>1, SpecPInv, PTL

\* The KV entry of a dbConfiguration is the one under the uuid the webhook stamped
\* for it (fetchAndBuildMapping).
THEOREM SpecOwnUuidPerDb == Spec => []OwnUuidPerDb
<1>1. PInv => OwnUuidPerDb
  BY DEF PInv
<1> QED BY <1>1, SpecPInv, PTL

\* What the webhook let through, the plugin does not refuse (checkConfigurationLite,
\* the residual check).
THEOREM SpecAdmittedMeansSubstitutable == Spec => []AdmittedMeansSubstitutable
<1>1. PInv => AdmittedMeansSubstitutable
  BY DEF PInv
<1> QED BY <1>1, SpecPInv, PTL

\* The container starts with the env that the webhook would have written itself
\* without NRI (generatePlaceholders, buildMappingFromPodEnv, Substitute).
THEOREM SpecNriGivesWhatLegacyGives == Spec => []NriGivesWhatLegacyGives
<1>1. Init => NriGivesWhatLegacyGives
  BY DEF Init, NriGivesWhatLegacyGives
<1>2. PInv /\ NriGivesWhatLegacyGives /\ [Next]_vars => NriGivesWhatLegacyGives'
  BY NextGivesWhatLegacyGives
<1> QED BY <1>1, <1>2, SpecPInv, PTL DEF Spec
=============================================================================
