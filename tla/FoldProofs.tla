----------------------------- MODULE FoldProofs -----------------------------
(***************************************************************************)
(* Proofs about the models that fold: InfluxExporter, whose points are     *)
(* those of its pieces one after the other (FlattenSeq), for any batch     *)
(* size, buffer size, number of points and set of bad points; the          *)
(* allocation of targets to collectors, which places one target after the  *)
(* other (MapThenFoldSet), for any fleet, weights and limit; and           *)
(* BulkExport, whose output is its chunk files one after the other, for    *)
(* any range and chunk size.  What a fold computes is proved by induction  *)
(* over its length, and induction itself from the well-foundedness of      *)
(* inclusion on finite sets.                                               *)
(***************************************************************************)
EXTENDS InfluxExporter, MCShardAlloc, BulkExport, SequenceTheorems, FiniteSetTheorems, TLAPS

-----------------------------------------------------------------------------
(* Induction, and what FlattenSeq computes.                                *)

\* Every set of numbers has a least one: the intervals below its members are
\* finite, and strict inclusion is well-founded on finite sets.
LEMMA LeastNumber ==
    ASSUME NEW T \in SUBSET Nat, T # {}
    PROVE  \E n \in T : \A m \in T : n <= m
<1> DEFINE Below == {0 .. n : n \in T}
<1>1. ASSUME NEW x \in Below PROVE x \in FiniteSubsetsOf(Nat)
  <2>1. PICK n \in T : x = 0 .. n
    OBVIOUS
  <2>2. IsFiniteSet(0 .. n) /\ 0 .. n \subseteq Nat
    BY FS_Interval
  <2> QED
    BY <2>1, <2>2 DEF FiniteSubsetsOf
<1>2. Below # {}
  OBVIOUS
<1>3. PICK x \in Below : \A y \in Below : ~(<<y, x>> \in StrictSubsetOrdering(Nat))
  <2> HIDE DEF Below
  <2>1. Below \subseteq FiniteSubsetsOf(Nat)
    BY <1>1
  <2>2. IsWellFoundedOn(StrictSubsetOrdering(Nat), FiniteSubsetsOf(Nat))
    BY FS_StrictSubsetOrderingWellFounded
  <2> QED
    BY <1>2, <2>1, <2>2, WFMin, Zenon
<1>4. PICK n \in T : x = 0 .. n
  BY <1>3
<1>5. ASSUME NEW m \in T, m < n PROVE FALSE
  <2>1. 0 .. m \in SUBSET Nat /\ 0 .. n \in SUBSET Nat /\ 0 .. m \subseteq 0 .. n
    BY <1>5
  <2>2. 0 .. m # 0 .. n
    <3>1. n \in 0 .. n /\ n \notin 0 .. m
      BY <1>5
    <3> QED
      BY <3>1
  <2>3. <<0 .. m, x>> \in StrictSubsetOrdering(Nat)
    BY <1>4, <2>1, <2>2 DEF StrictSubsetOrdering
  <2> QED
    BY <1>3, <2>3
<1> QED
  BY <1>4, <1>5

\* Induction over a set instead of a predicate.
LEMMA Induction ==
    ASSUME NEW T, 0 \in T, \A n \in Nat : n \in T => n + 1 \in T
    PROVE  Nat \subseteq T
<1> SUFFICES ASSUME Nat \ T # {} PROVE FALSE
  OBVIOUS
<1>1. PICK n \in Nat \ T : \A m \in Nat \ T : n <= m
  BY LeastNumber
<1>2. n - 1 \in Nat /\ n - 1 \notin T
  BY <1>1
<1> QED
  BY <1>1, <1>2

\* Concatenation under a name of its own, which the provers take as it is.
Cat(s, t) == s \o t

LEMMA CatType ==
    ASSUME NEW S, NEW s \in Seq(S), NEW t \in Seq(S)
    PROVE  Cat(s, t) \in Seq(S)
BY DEF Cat

\* f[i] is the concatenation of the first i members of ss.
Sums(S, ss, f, n) ==
    /\ f \in [1 .. n -> Seq(S)]
    /\ \A i \in 1 .. n : f[i] = IF i = 1 THEN ss[1] ELSE Cat(f[i - 1], ss[i])

LEMMA SumsStep ==
    ASSUME NEW S, NEW ss, NEW f, NEW n \in Nat, Sums(S, ss, f, n),
           NEW k \in Nat, k + 1 <= n
    PROVE  f[k + 1] = IF k = 0 THEN ss[1] ELSE Cat(f[k], ss[k + 1])
<1>1. k + 1 \in 1 .. n /\ (k + 1) - 1 = k /\ (k + 1 = 1 <=> k = 0)
  OBVIOUS
<1>2. f[k + 1] = IF k + 1 = 1 THEN ss[1] ELSE Cat(f[(k + 1) - 1], ss[k + 1])
  BY <1>1 DEF Sums
<1> QED
  BY <1>1, <1>2

LEMMA SumsExist ==
    ASSUME NEW S, NEW ss \in Seq(Seq(S)), NEW n \in 0 .. Len(ss)
    PROVE  \E f : Sums(S, ss, f, n)
<1> DEFINE T == {k \in Nat : k <= Len(ss) => \E f : Sums(S, ss, f, k)}
<1>1. 0 \in T
  <2>1. Sums(S, ss, [i \in 1 .. 0 |-> << >>], 0)
    BY DEF Sums
  <2> QED
    BY <2>1
<1>2. ASSUME NEW k \in Nat, k \in T PROVE k + 1 \in T
  <2> SUFFICES ASSUME k + 1 <= Len(ss) PROVE \E f : Sums(S, ss, f, k + 1)
    OBVIOUS
  <2>1. PICK f : Sums(S, ss, f, k)
    BY <1>2
  <2> DEFINE last == IF k = 0 THEN ss[1] ELSE Cat(f[k], ss[k + 1])
             g == [i \in 1 .. k + 1 |-> IF i = k + 1 THEN last ELSE f[i]]
  <2>2. last \in Seq(S)
    <3>1. ss[1] \in Seq(S) /\ ss[k + 1] \in Seq(S)
      OBVIOUS
    <3>2. k # 0 => f[k] \in Seq(S)
      BY <2>1 DEF Sums
    <3> QED
      BY <3>1, <3>2, CatType
  <2>3. g \in [1 .. k + 1 -> Seq(S)]
    <3> HIDE DEF last
    <3> QED
      BY <2>1, <2>2 DEF Sums
  <2>4. ASSUME NEW i \in 1 .. k + 1
        PROVE  g[i] = IF i = 1 THEN ss[1] ELSE Cat(g[i - 1], ss[i])
    <3>1. CASE i = k + 1
      <4>1. k # 0 => g[k] = f[k]
        OBVIOUS
      <4>2. g[i] = last
        BY <3>1
      <4> HIDE DEF g
      <4> QED
        BY <3>1, <4>1, <4>2
    <3>2. CASE i # k + 1
      <4>1. i \in 1 .. k /\ g[i] = f[i] /\ (i # 1 => g[i - 1] = f[i - 1])
        BY <3>2
      <4> HIDE DEF g
      <4> QED
        BY <2>1, <4>1 DEF Sums
    <3> QED
      BY <3>1, <3>2
  <2> QED
    BY <2>3, <2>4 DEF Sums
<1>3. n \in T
  <2> HIDE DEF T
  <2>1. Nat \subseteq T
    BY <1>1, <1>2, Induction
  <2> QED
    BY <2>1
<1> QED
  BY <1>3

\* The sums of a prefix are those of the whole.
LEMMA SumsUnique ==
    ASSUME NEW S, NEW ss, NEW tt, NEW f, NEW g, NEW m \in Nat, NEW n \in Nat,
           Sums(S, ss, f, m), Sums(S, tt, g, n), m <= n,
           \A i \in 1 .. m : ss[i] = tt[i]
    PROVE  \A i \in 1 .. m : f[i] = g[i]
<1> DEFINE T == {k \in Nat : k \in 1 .. m => f[k] = g[k]}
<1>1. 0 \in T
  OBVIOUS
<1>2. ASSUME NEW k \in Nat, k \in T PROVE k + 1 \in T
  <2> SUFFICES ASSUME k + 1 \in 1 .. m PROVE f[k + 1] = g[k + 1]
    OBVIOUS
  <2>1. ss[k + 1] = tt[k + 1] /\ ss[1] = tt[1] /\ k + 1 \in 1 .. n
    OBVIOUS
  <2>2. k # 0 => f[k] = g[k]
    BY <1>2
  <2>3. f[k + 1] = IF k = 0 THEN ss[1] ELSE Cat(f[k], ss[k + 1])
    BY SumsStep
  <2>4. g[k + 1] = IF k = 0 THEN tt[1] ELSE Cat(g[k], tt[k + 1])
    BY SumsStep
  <2> QED
    BY <2>1, <2>2, <2>3, <2>4
<1>3. Nat \subseteq T
  <2> HIDE DEF T
  <2> QED
    BY <1>1, <1>2, Induction
<1> QED
  BY <1>3

LEMMA FlattenIsSum ==
    ASSUME NEW S, NEW ss \in Seq(Seq(S)), ss # << >>
    PROVE  \E f : Sums(S, ss, f, Len(ss)) /\ FlattenSeq(ss) = f[Len(ss)]
<1> DEFINE n == Len(ss)
           Def(f) == [i \in 1 .. n |-> IF i = 1 THEN ss[i] ELSE f[i - 1] \o ss[i]]
           flatten == CHOOSE f : f = Def(f)
<1>1. PICK f : Sums(S, ss, f, n)
  BY SumsExist
<1>2. f = Def(f)
  BY <1>1 DEF Sums, Cat
<1>3. flatten = Def(flatten)
  <2> HIDE DEF Def
  <2> QED
    BY <1>2
<1>4. n \in Nat \ {0} /\ FlattenSeq(ss) = flatten[n]
  BY DEF FlattenSeq
<1> HIDE DEF flatten
<1>5. \A i \in 1 .. n : flatten[i] = IF i = 1 THEN ss[1] ELSE Cat(flatten[i - 1], ss[i])
  BY <1>3 DEF Cat
<1> DEFINE T == {k \in Nat : k \in 1 .. n => flatten[k] = f[k]}
<1>6. 0 \in T
  OBVIOUS
<1>7. ASSUME NEW k \in Nat, k \in T PROVE k + 1 \in T
  <2> SUFFICES ASSUME k + 1 \in 1 .. n PROVE flatten[k + 1] = f[k + 1]
    OBVIOUS
  <2>1. k # 0 => flatten[k] = f[k]
    BY <1>7
  <2>2. f[k + 1] = IF k = 0 THEN ss[1] ELSE Cat(f[k], ss[k + 1])
    <3>1. n \in Nat /\ k + 1 <= n
      BY <1>4
    <3> HIDE DEF n
    <3> QED
      BY <1>1, <3>1, SumsStep
  <2>3. (k + 1) - 1 = k /\ (k + 1 = 1 <=> k = 0)
    OBVIOUS
  <2>4. flatten[k + 1] = IF k + 1 = 1 THEN ss[1] ELSE Cat(flatten[(k + 1) - 1], ss[k + 1])
    BY <1>5
  <2> QED
    BY <2>1, <2>2, <2>3, <2>4
<1>8. n \in T
  <2> HIDE DEF T
  <2> QED
    BY <1>4, <1>6, <1>7, Induction
<1> QED
  BY <1>1, <1>4, <1>8

\* FlattenSeq concatenates.
LEMMA FlattenType ==
    ASSUME NEW S, NEW ss \in Seq(Seq(S))
    PROVE  FlattenSeq(ss) \in Seq(S)
<1>1. CASE ss = << >>
  BY <1>1 DEF FlattenSeq
<1>2. CASE ss # << >>
  <2>1. PICK f : Sums(S, ss, f, Len(ss)) /\ FlattenSeq(ss) = f[Len(ss)]
    BY <1>2, FlattenIsSum
  <2>2. Len(ss) \in 1 .. Len(ss)
    BY <1>2
  <2> QED
    BY <2>1, <2>2 DEF Sums
<1> QED
  BY <1>1, <1>2

LEMMA FlattenEmpty == FlattenSeq(<< >>) = << >>
BY DEF FlattenSeq

LEMMA FlattenOne ==
    ASSUME NEW S, NEW s \in Seq(S)
    PROVE  FlattenSeq(<<s>>) = s
<1> PICK ss : ss = <<s>>
  OBVIOUS
<1>1. ss \in Seq(Seq(S)) /\ ss # << >> /\ Len(ss) = 1 /\ ss[1] = s
  OBVIOUS
<1>2. PICK f : Sums(S, ss, f, 1) /\ FlattenSeq(ss) = f[1]
  BY <1>1, FlattenIsSum
<1>3. f[1] = s
  BY <1>1, <1>2 DEF Sums
<1> QED
  BY <1>2, <1>3

LEMMA Associative ==
    ASSUME NEW S, NEW a \in Seq(S), NEW b \in Seq(S), NEW c \in Seq(S)
    PROVE  Cat(Cat(a, b), c) = Cat(a, Cat(b, c))
BY ConcatAssociative DEF Cat

\* The first m members of st are those of ss, the next n those of tt; g, h and f
\* are their sums.
Joins(S, ss, tt, st, m, n, f, g, h) ==
    /\ m \in Nat /\ n \in Nat /\ m # 0 /\ n # 0
    /\ \A i \in 1 .. m : ss[i] = st[i]
    /\ \A i \in 1 .. n : tt[i] \in Seq(S) /\ tt[i] = st[m + i]
    /\ Sums(S, ss, g, m) /\ Sums(S, tt, h, n) /\ Sums(S, st, f, m + n)

LEMMA SumsConcat ==
    ASSUME NEW S, NEW ss, NEW tt, NEW st, NEW m, NEW n, NEW f, NEW g, NEW h,
           Joins(S, ss, tt, st, m, n, f, g, h)
    PROVE  f[m + n] = Cat(g[m], h[n])
<1> /\ m \in Nat /\ n \in Nat /\ m # 0 /\ n # 0
    /\ Sums(S, ss, g, m) /\ Sums(S, tt, h, n) /\ Sums(S, st, f, m + n)
  BY DEF Joins
<1>0. /\ \A i \in 1 .. m : ss[i] = st[i]
      /\ \A i \in 1 .. n : tt[i] \in Seq(S) /\ tt[i] = st[m + i]
  BY DEF Joins
<1>1. f[m] = g[m]
  <2>1. m + n \in Nat /\ m <= m + n /\ m \in 1 .. m
    OBVIOUS
  <2> QED
    BY <1>0, <2>1, SumsUnique
<1> DEFINE Q(k) == f[m + k] = Cat(g[m], h[k])
           T == {k \in Nat : k \in 1 .. n => Q(k)}
<1> HIDE DEF Q
<1>2. 0 \in T
  OBVIOUS
<1>3. ASSUME NEW k \in Nat, k \in T PROVE k + 1 \in T
  <2> SUFFICES ASSUME k + 1 <= n PROVE Q(k + 1)
    OBVIOUS
  <2>1. f[(m + k) + 1] = IF m + k = 0 THEN st[1] ELSE Cat(f[m + k], st[(m + k) + 1])
    <3>1. m + n \in Nat /\ m + k \in Nat /\ (m + k) + 1 <= m + n
      OBVIOUS
    <3> QED
      BY <3>1, SumsStep
  <2>2. h[k + 1] = IF k = 0 THEN tt[1] ELSE Cat(h[k], tt[k + 1])
    BY SumsStep
  <2>3. (m + k) + 1 = m + (k + 1) /\ m + k # 0
    OBVIOUS
  <2>4. st[m + (k + 1)] = tt[k + 1] /\ tt[k + 1] \in Seq(S)
    BY <1>0
  <2>5. f[m + (k + 1)] = Cat(f[m + k], tt[k + 1])
    BY <2>1, <2>3, <2>4
  <2>6. CASE k = 0
    <3>1. m + k = m /\ h[k + 1] = tt[k + 1]
      BY <2>2, <2>6
    <3> QED
      BY <1>1, <2>5, <3>1 DEF Q
  <2>7. CASE k # 0
    <3>1. f[m + k] = Cat(g[m], h[k]) /\ h[k + 1] = Cat(h[k], tt[k + 1])
      <4>1. Q(k)
        BY <1>3, <2>7
      <4> QED
        BY <2>2, <2>7, <4>1 DEF Q
    <3>2. g[m] \in Seq(S) /\ h[k] \in Seq(S)
      BY <2>7 DEF Sums
    <3>3. Cat(f[m + k], tt[k + 1]) = Cat(g[m], h[k + 1])
      BY <2>4, <3>1, <3>2, Associative
    <3> QED
      BY <2>5, <3>1, <3>3 DEF Q
  <2> QED
    BY <2>6, <2>7
<1>4. n \in T
  <2> HIDE DEF T
  <2>1. Nat \subseteq T
    BY <1>2, <1>3, Induction
  <2> QED
    BY <2>1
<1>5. Q(n)
  BY <1>4
<1> QED
  BY <1>5 DEF Q, Cat

LEMMA FlattenConcat ==
    ASSUME NEW S, NEW ss \in Seq(Seq(S)), NEW tt \in Seq(Seq(S))
    PROVE  FlattenSeq(Cat(ss, tt)) = Cat(FlattenSeq(ss), FlattenSeq(tt))
<1>1. CASE ss = << >>
  <2>1. ss \o tt = tt /\ FlattenSeq(tt) \in Seq(S)
    BY <1>1, FlattenType
  <2> QED
    BY <1>1, <2>1, FlattenEmpty DEF Cat
<1>2. CASE tt = << >>
  <2>1. ss \o tt = ss /\ FlattenSeq(ss) \in Seq(S)
    BY <1>2, FlattenType
  <2> QED
    BY <1>2, <2>1, FlattenEmpty DEF Cat
<1>3. CASE ss # << >> /\ tt # << >>
  <2>1. PICK st : st = ss \o tt
    OBVIOUS
  <2>2. PICK m, n : m = Len(ss) /\ n = Len(tt)
    OBVIOUS
  <2>3. /\ m \in Nat /\ n \in Nat /\ m # 0 /\ n # 0
        /\ st \in Seq(Seq(S)) /\ Len(st) = m + n /\ st # << >>
    BY <1>3, <2>1, <2>2
  <2>4. /\ \A i \in 1 .. m : ss[i] = st[i]
        /\ \A i \in 1 .. n : tt[i] \in Seq(S) /\ tt[i] = st[m + i]
    BY <2>1, <2>2
  <2>5. PICK g : Sums(S, ss, g, m) /\ FlattenSeq(ss) = g[m]
    BY <1>3, <2>2, FlattenIsSum
  <2>6. PICK h : Sums(S, tt, h, n) /\ FlattenSeq(tt) = h[n]
    BY <1>3, <2>2, FlattenIsSum
  <2>7. PICK f : Sums(S, st, f, m + n) /\ FlattenSeq(st) = f[m + n]
    BY <2>3, FlattenIsSum
  <2>8. f[m + n] = Cat(g[m], h[n])
    <3>1. Joins(S, ss, tt, st, m, n, f, g, h)
      BY <2>3, <2>4, <2>5, <2>6, <2>7 DEF Joins
    <3> QED
      BY <3>1, SumsConcat
  <2> QED
    BY <2>1, <2>5, <2>6, <2>7, <2>8 DEF Cat
<1> QED
  BY <1>1, <1>2, <1>3

\* u consists of the m members of s and the n members of t.
IsCat(S, s, t, u, m, n) ==
    /\ m \in Nat /\ n \in Nat /\ u \in Seq(S) /\ Len(u) = m + n
    /\ \A i \in 1 .. m : u[i] = s[i]
    /\ \A i \in 1 .. n : u[m + i] = t[i]

LEMMA CatAt ==
    ASSUME NEW S, NEW s \in Seq(S), NEW t \in Seq(S)
    PROVE  IsCat(S, s, t, Cat(s, t), Len(s), Len(t))
BY DEF Cat, IsCat

LEMMA CatPair == ASSUME NEW S, NEW p \in S, NEW q \in S PROVE Cat(<<p>>, <<q>>) = <<p, q>>
<1>1. PICK s, t, u : s = <<p>> /\ t = <<q>> /\ u = <<p, q>>
  OBVIOUS
<1>2. /\ s \in Seq(S) /\ Len(s) = 1 /\ s[1] = p
      /\ t \in Seq(S) /\ Len(t) = 1 /\ t[1] = q
      /\ u \in Seq(S) /\ Len(u) = 2 /\ u[1] = p /\ u[2] = q
  BY <1>1
<1>3. IsCat(S, s, t, Cat(s, t), 1, 1)
  BY <1>2, CatAt
<1>4. Cat(s, t) \in Seq(S) /\ Len(Cat(s, t)) = 2 /\ Cat(s, t)[1] = p /\ Cat(s, t)[1 + 1] = q
  BY <1>2, <1>3 DEF IsCat
<1>5. Cat(s, t) = u
  BY <1>2, <1>4, SeqEqual
<1> QED
  BY <1>1, <1>5

LEMMA IsCatUnique ==
    ASSUME NEW S, NEW s, NEW t, NEW u, NEW v, NEW m, NEW n,
           IsCat(S, s, t, u, m, n), IsCat(S, s, t, v, m, n)
    PROVE  u = v
<1>1. ASSUME NEW i \in 1 .. m + n PROVE u[i] = v[i]
  <2>1. CASE i <= m
    BY <2>1 DEF IsCat
  <2>2. CASE ~(i <= m)
    <3>1. i - m \in 1 .. n /\ m + (i - m) = i
      BY <2>2 DEF IsCat
    <3> QED
      BY <3>1 DEF IsCat
  <2> QED
    BY <2>1, <2>2
<1>2. u \in Seq(S) /\ v \in Seq(S) /\ Len(u) = m + n /\ Len(v) = m + n
  BY DEF IsCat
<1> QED
  BY <1>1, <1>2, SeqEqual

\* The members of a concatenation.
MadeOf(S, s, t, u) == u \in Seq(S) /\ Len(u) = Len(s) + Len(t) /\ ToSet(u) = ToSet(s) \cup ToSet(t)

LEMMA CatMadeOf ==
    ASSUME NEW S, NEW s \in Seq(S), NEW t \in Seq(S), NEW u, u = Cat(s, t)
    PROVE  MadeOf(S, s, t, u)
<1>1. Cat(s, t) \in Seq(S) /\ Len(Cat(s, t)) = Len(s) + Len(t)
  BY DEF Cat
<1>2. \A i \in 1 .. Len(s) + Len(t) : Cat(s, t)[i] = IF i <= Len(s) THEN s[i] ELSE t[i - Len(s)]
  BY DEF Cat
<1>3. \A i \in 1 .. Len(t) : Len(s) + i \in 1 .. Len(s) + Len(t) /\ Cat(s, t)[Len(s) + i] = t[i]
  BY <1>2
<1>4. /\ DOMAIN s = 1 .. Len(s) /\ DOMAIN t = 1 .. Len(t)
      /\ DOMAIN Cat(s, t) = 1 .. Len(s) + Len(t)
  BY <1>1
<1>5. ToSet(Cat(s, t)) \subseteq ToSet(s) \cup ToSet(t)
  BY <1>2, <1>4 DEF ToSet
<1>6. ToSet(s) \subseteq ToSet(Cat(s, t))
  BY <1>2, <1>4 DEF ToSet
<1>7. ToSet(t) \subseteq ToSet(Cat(s, t))
  BY <1>3, <1>4 DEF ToSet
<1>8. ToSet(Cat(s, t)) = ToSet(s) \cup ToSet(t)
  BY <1>5, <1>6, <1>7
<1> QED
  BY <1>1, <1>8 DEF MadeOf

Members(ss, n) == UNION {ToSet(ss[i]) : i \in 1 .. n}

LEMMA SumsSet ==
    ASSUME NEW S, NEW ss \in Seq(Seq(S)), NEW n \in Nat, NEW f, n # 0, n <= Len(ss),
           Sums(S, ss, f, n)
    PROVE  ToSet(f[n]) = Members(ss, n)
<1> DEFINE Q(k) == ToSet(f[k]) = Members(ss, k)
           T == {k \in Nat : k \in 1 .. n => Q(k)}
<1> HIDE DEF Q
<1>1. 0 \in T
  OBVIOUS
<1>2. ASSUME NEW k \in Nat, k \in T PROVE k + 1 \in T
  <2> SUFFICES ASSUME k + 1 <= n PROVE Q(k + 1)
    OBVIOUS
  <2>1. f[k + 1] = IF k = 0 THEN ss[1] ELSE Cat(f[k], ss[k + 1])
    BY SumsStep
  <2>2. CASE k = 0
    <3>1. f[1] = ss[1] /\ 1 .. 1 = {1} /\ k + 1 = 1
      BY <2>1, <2>2
    <3> QED
      BY <3>1 DEF Q, Members
  <2>3. CASE k # 0
    <3>1. Q(k) /\ f[k + 1] = Cat(f[k], ss[k + 1])
      BY <1>2, <2>1, <2>3
    <3>2. f[k] \in Seq(S) /\ ss[k + 1] \in Seq(S)
      BY <2>3 DEF Sums
    <3>3. ToSet(f[k + 1]) = ToSet(f[k]) \cup ToSet(ss[k + 1])
      <4>1. MadeOf(S, f[k], ss[k + 1], f[k + 1])
        BY <3>1, <3>2, CatMadeOf
      <4> QED
        BY <4>1 DEF MadeOf
    <3>4. 1 .. k + 1 = (1 .. k) \cup {k + 1}
      OBVIOUS
    <3> QED
      BY <3>1, <3>3, <3>4 DEF Q, Members
  <2> QED
    BY <2>2, <2>3
<1>3. Nat \subseteq T
  <2> HIDE DEF T
  <2> QED
    BY <1>1, <1>2, Induction
<1>4. Q(n)
  BY <1>3
<1> QED
  BY <1>4 DEF Q

LEMMA FlattenMembers ==
    ASSUME NEW S, NEW ss \in Seq(Seq(S))
    PROVE  ToSet(FlattenSeq(ss)) = Members(ss, Len(ss))
<1>1. CASE ss = << >>
  <2>1. ToSet(<< >>) = {}
    BY DEF ToSet
  <2>2. Len(ss) = 0 /\ 1 .. 0 = {}
    BY <1>1
  <2>3. Members(ss, Len(ss)) = {}
    BY <2>2 DEF Members
  <2> QED
    BY <1>1, <2>1, <2>3, FlattenEmpty
<1>2. CASE ss # << >>
  <2>1. PICK n : n = Len(ss)
    OBVIOUS
  <2>2. n \in Nat /\ n # 0 /\ \A i \in 1 .. n : ss[i] \in Seq(S)
    BY <1>2, <2>1
  <2>3. PICK f : Sums(S, ss, f, n) /\ FlattenSeq(ss) = f[n]
    BY <1>2, <2>1, FlattenIsSum
  <2> QED
    BY <2>1, <2>2, <2>3, SumsSet
<1> QED
  BY <1>1, <1>2

-----------------------------------------------------------------------------
(* The points of the running flush.                                        *)

PtsOf(w) == [i \in 1 .. Len(w) |-> w[i].pts]
Flat(w) == FlattenSeq(PtsOf(w))

LEMMA PtsType ==
    ASSUME NEW w \in Seq(Pieces)
    PROVE  /\ PtsOf(w) \in Seq(Seq(Points)) /\ Len(PtsOf(w)) = Len(w)
           /\ \A i \in 1 .. Len(w) : PtsOf(w)[i] = w[i].pts
<1>1. \A i \in 1 .. Len(w) : w[i].pts \in Seq(Points)
  <2>1. \A p \in Pieces : p.pts \in Seq(Points)
    BY DEF Pieces
  <2>2. \A i \in 1 .. Len(w) : w[i] \in Pieces
    OBVIOUS
  <2> QED
    BY <2>1, <2>2
<1> QED
  BY <1>1 DEF PtsOf

LEMMA FlatType ==
    ASSUME NEW w \in Seq(Pieces)
    PROVE  /\ Flat(w) \in Seq(Points)
           /\ ToSet(Flat(w)) = UNION {ToSet(w[i].pts) : i \in 1 .. Len(w)}
<1>1. Flat(w) \in Seq(Points)
  BY PtsType, FlattenType DEF Flat
<1>2. ToSet(Flat(w)) = Members(PtsOf(w), Len(PtsOf(w)))
  BY PtsType, FlattenMembers DEF Flat
<1>3. Members(PtsOf(w), Len(PtsOf(w))) = UNION {ToSet(w[i].pts) : i \in 1 .. Len(w)}
  BY PtsType DEF Members
<1> QED
  BY <1>1, <1>2, <1>3

LEMMA FlatEmpty == Flat(<< >>) = << >>
<1>1. PtsOf(<< >>) = << >>
  BY DEF PtsOf
<1> QED
  BY <1>1, FlattenEmpty DEF Flat

LEMMA FlatOne ==
    ASSUME NEW p \in Pieces
    PROVE  Flat(<<p>>) = p.pts
<1>1. p.pts \in Seq(Points)
  BY DEF Pieces
<1>2. PtsOf(<<p>>) = <<p.pts>>
  BY DEF PtsOf
<1> QED
  BY <1>1, <1>2, FlattenOne DEF Flat

LEMMA FlatCat ==
    ASSUME NEW v \in Seq(Pieces), NEW w \in Seq(Pieces)
    PROVE  Flat(Cat(v, w)) = Cat(Flat(v), Flat(w))
<1>1. PICK pv, pw, pvw : pv = PtsOf(v) /\ pw = PtsOf(w) /\ pvw = PtsOf(Cat(v, w))
  OBVIOUS
<1>2. Cat(v, w) \in Seq(Pieces)
  BY CatType
<1>3. /\ pv \in Seq(Seq(Points)) /\ Len(pv) = Len(v) /\ \A i \in 1 .. Len(v) : pv[i] = v[i].pts
      /\ pw \in Seq(Seq(Points)) /\ Len(pw) = Len(w) /\ \A i \in 1 .. Len(w) : pw[i] = w[i].pts
      /\ pvw \in Seq(Seq(Points)) /\ Len(pvw) = Len(Cat(v, w))
      /\ \A i \in 1 .. Len(Cat(v, w)) : pvw[i] = Cat(v, w)[i].pts
  BY <1>1, <1>2, PtsType
<1>4. PICK m, n : m = Len(v) /\ n = Len(w)
  OBVIOUS
<1>5. IsCat(Pieces, v, w, Cat(v, w), m, n)
  BY <1>4, CatAt
<1>6. IsCat(Seq(Points), pv, pw, Cat(pv, pw), m, n)
  BY <1>3, <1>4, CatAt
<1>7. pvw = Cat(pv, pw)
  <2>1. /\ m \in Nat /\ n \in Nat /\ Len(pvw) = m + n
        /\ \A i \in 1 .. m : pvw[i] = pv[i]
        /\ \A i \in 1 .. n : pvw[m + i] = pw[i]
    <3>1. m \in Nat /\ n \in Nat /\ Len(Cat(v, w)) = m + n
      BY <1>5 DEF IsCat
    <3>2. ASSUME NEW i \in 1 .. m PROVE pvw[i] = pv[i]
      <4>1. i \in 1 .. Len(Cat(v, w)) /\ Cat(v, w)[i] = v[i]
        BY <1>5, <3>1 DEF IsCat
      <4> QED
        BY <1>3, <1>4, <4>1
    <3>3. ASSUME NEW i \in 1 .. n PROVE pvw[m + i] = pw[i]
      <4>1. m + i \in 1 .. Len(Cat(v, w)) /\ Cat(v, w)[m + i] = w[i]
        BY <1>5, <3>1 DEF IsCat
      <4> QED
        BY <1>3, <1>4, <4>1
    <3> QED
      BY <1>3, <3>1, <3>2, <3>3
  <2>2. IsCat(Seq(Points), pv, pw, pvw, m, n)
    BY <1>3, <2>1 DEF IsCat
  <2> QED
    BY <1>6, <2>2, IsCatUnique
<1>8. FlattenSeq(Cat(pv, pw)) = Cat(FlattenSeq(pv), FlattenSeq(pw))
  BY <1>3, FlattenConcat
<1> QED
  BY <1>1, <1>7, <1>8 DEF Flat

LEMMA PiecesAssociate ==
    ASSUME NEW u \in Seq(Pieces), NEW v \in Seq(Pieces), NEW w \in Seq(Pieces)
    PROVE  Cat(Cat(u, v), w) = Cat(u, Cat(v, w))
<1>1. PICK S : S = Pieces
  OBVIOUS
<1>2. u \in Seq(S) /\ v \in Seq(S) /\ w \in Seq(S)
  BY <1>1
<1> QED
  BY <1>2, Associative

Cut(w, i, p, q) == SubSeq(w, 1, i - 1) \o <<p, q>> \o SubSeq(w, i + 1, Len(w))

\* A piece among the others, without it, and cut in two.
LEMMA FlatSplit ==
    ASSUME NEW w \in Seq(Pieces), NEW i \in 1 .. Len(w)
    PROVE  \E a, c \in Seq(Points) :
              /\ Flat(w) = Cat(a, Cat(w[i].pts, c))
              /\ RemoveAt(w, i) \in Seq(Pieces) /\ Flat(RemoveAt(w, i)) = Cat(a, c)
              /\ \A p, q \in Pieces :
                    /\ Cut(w, i, p, q) \in Seq(Pieces)
                    /\ Flat(Cut(w, i, p, q)) = Cat(a, Cat(Cat(p.pts, q.pts), c))
<1>1. PICK pre, post : pre = SubSeq(w, 1, i - 1) /\ post = SubSeq(w, i + 1, Len(w))
  OBVIOUS
<1>2. pre \in Seq(Pieces) /\ post \in Seq(Pieces)
  BY <1>1
<1>3. w = Cat(pre, Cat(<<w[i]>>, post))
  <2>1. /\ Len(pre) = i - 1 /\ \A k \in 1 .. i - 1 : pre[k] = w[k]
        /\ Len(post) = Len(w) - i /\ \A k \in 1 .. Len(w) - i : post[k] = w[i + k]
    BY <1>1
  <2>2. PICK one, r, u : one = <<w[i]>> /\ r = Cat(one, post) /\ u = Cat(pre, r)
    OBVIOUS
  <2>3. PICK m, n : m = i - 1 /\ n = Len(w) - i
    OBVIOUS
  <2>4. m \in Nat /\ n \in Nat /\ i = m + 1 /\ Len(w) = m + (1 + n)
    BY <2>3
  <2>5. one \in Seq(Pieces) /\ Len(one) = 1 /\ one[1] = w[i]
    BY <2>2
  <2>6. IsCat(Pieces, one, post, r, 1, n)
    BY <1>2, <2>1, <2>2, <2>3, <2>5, CatAt
  <2>7. /\ r \in Seq(Pieces) /\ Len(r) = 1 + n /\ r[1] = w[m + 1]
        /\ \A k \in 1 .. n : r[1 + k] = w[m + (1 + k)]
    <3>1. \A k \in 1 .. n : post[k] = w[m + (1 + k)]
      BY <2>1, <2>3
    <3>2. /\ r \in Seq(Pieces) /\ Len(r) = 1 + n /\ r[1] = one[1]
          /\ \A k \in 1 .. n : r[1 + k] = post[k]
      BY <2>6 DEF IsCat
    <3> QED
      BY <2>4, <2>5, <3>1, <3>2
  <2>8. IsCat(Pieces, pre, r, u, m, 1 + n)
    <3>1. IsCat(Pieces, pre, r, Cat(pre, r), Len(pre), Len(r))
      BY <1>2, <2>7, CatAt
    <3> QED
      BY <2>1, <2>2, <2>3, <2>7, <3>1
  <2>9. \A k \in 1 .. 1 + n : r[k] = w[m + k]
    <3> SUFFICES ASSUME NEW k \in 1 .. 1 + n PROVE r[k] = w[m + k]
      OBVIOUS
    <3>1. CASE k = 1
      BY <2>7, <3>1
    <3>2. CASE k # 1
      <4>1. k - 1 \in 1 .. n /\ 1 + (k - 1) = k
        BY <2>4, <3>2
      <4> QED
        BY <2>7, <4>1
    <3> QED
      BY <3>1, <3>2
  <2>10. IsCat(Pieces, pre, r, w, m, 1 + n)
    <3>1. \A k \in 1 .. m : w[k] = pre[k]
      BY <2>1, <2>3
    <3>2. 1 + n \in Nat
      BY <2>4
    <3> QED
      BY <2>4, <2>9, <3>1, <3>2 DEF IsCat
  <2> QED
    BY <2>2, <2>8, <2>10, IsCatUnique
<1>4. Flat(pre) \in Seq(Points) /\ Flat(post) \in Seq(Points)
  BY <1>2, FlatType
<1>5. <<w[i]>> \in Seq(Pieces) /\ w[i] \in Pieces
  OBVIOUS
<1>6. Flat(w) = Cat(Flat(pre), Cat(w[i].pts, Flat(post)))
  <2>1. Flat(Cat(<<w[i]>>, post)) = Cat(w[i].pts, Flat(post))
    <3>1. Flat(Cat(<<w[i]>>, post)) = Cat(Flat(<<w[i]>>), Flat(post))
      BY <1>2, <1>5, FlatCat
    <3>2. Flat(<<w[i]>>) = w[i].pts
      BY <1>5, FlatOne
    <3> QED
      BY <3>1, <3>2
  <2>2. Cat(<<w[i]>>, post) \in Seq(Pieces)
    BY <1>2, <1>5, CatType
  <2>3. Flat(Cat(pre, Cat(<<w[i]>>, post))) = Cat(Flat(pre), Flat(Cat(<<w[i]>>, post)))
    BY <1>2, <2>2, FlatCat
  <2> QED
    BY <1>3, <2>1, <2>3
<1>7. RemoveAt(w, i) = Cat(pre, post)
  BY <1>1 DEF RemoveAt, Cat
<1>8. RemoveAt(w, i) \in Seq(Pieces) /\ Flat(RemoveAt(w, i)) = Cat(Flat(pre), Flat(post))
  BY <1>2, <1>7, CatType, FlatCat
<1>9. ASSUME NEW p \in Pieces, NEW q \in Pieces,
             NEW cut, cut = Cut(w, i, p, q)
      PROVE  cut \in Seq(Pieces) /\ Flat(cut) = Cat(Flat(pre), Cat(Cat(p.pts, q.pts), Flat(post)))
  <2>1. <<p>> \in Seq(Pieces) /\ <<q>> \in Seq(Pieces) /\ <<p, q>> = Cat(<<p>>, <<q>>)
    BY CatPair
  <2>2. <<p, q>> \in Seq(Pieces) /\ Flat(<<p, q>>) = Cat(p.pts, q.pts)
    BY <2>1, CatType, FlatCat, FlatOne
  <2>3. cut = Cat(Cat(pre, <<p, q>>), post)
    BY <1>1, <1>9 DEF Cat, Cut
  <2>4. cut = Cat(pre, Cat(<<p, q>>, post))
    <3>1. PICK pq : pq = <<p, q>>
      OBVIOUS
    <3>2. pq \in Seq(Pieces)
      BY <2>2, <3>1
    <3>3. Cat(Cat(pre, pq), post) = Cat(pre, Cat(pq, post))
      BY <1>2, <3>2, PiecesAssociate
    <3> QED
      BY <2>3, <3>1, <3>3
  <2>5. Cat(<<p, q>>, post) \in Seq(Pieces)
        /\ Flat(Cat(<<p, q>>, post)) = Cat(Flat(<<p, q>>), Flat(post))
    BY <1>2, <2>2, CatType, FlatCat
  <2> QED
    BY <1>2, <2>2, <2>4, <2>5, CatType, FlatCat
<1>10. \A p, q \in Pieces :
         /\ Cut(w, i, p, q) \in Seq(Pieces)
         /\ Flat(Cut(w, i, p, q)) = Cat(Flat(pre), Cat(Cat(p.pts, q.pts), Flat(post)))
  BY <1>9
<1> QED
  BY <1>4, <1>6, <1>8, <1>10, Zenon

-----------------------------------------------------------------------------
(* Order.                                                                  *)

Increasing(s) == \A i, j \in 1 .. Len(s) : i < j => s[i] < s[j]

Before(A, B) == \A x \in A, y \in B : x < y

\* When a concatenation is increasing.
LEMMA IncreasingCat ==
    ASSUME NEW S, NEW a \in Seq(S), NEW b \in Seq(S)
    PROVE  Increasing(Cat(a, b)) <=>
              Increasing(a) /\ Increasing(b) /\ Before(ToSet(a), ToSet(b))
<1>1. PICK u, m, n : u = Cat(a, b) /\ m = Len(a) /\ n = Len(b)
  OBVIOUS
<1>2. /\ m \in Nat /\ n \in Nat /\ Len(u) = m + n
      /\ \A i \in 1 .. m : u[i] = a[i]
      /\ \A i \in 1 .. n : u[m + i] = b[i]
  <2>1. IsCat(S, a, b, u, m, n)
    BY <1>1, CatAt
  <2> QED
    BY <2>1 DEF IsCat
<1>3. ToSet(a) = {a[i] : i \in 1 .. m} /\ ToSet(b) = {b[i] : i \in 1 .. n}
  <2>1. DOMAIN a = 1 .. m /\ DOMAIN b = 1 .. n
    BY <1>1
  <2> QED
    BY <2>1 DEF ToSet
<1>4. ASSUME Increasing(u)
      PROVE  Increasing(a) /\ Increasing(b) /\ Before(ToSet(a), ToSet(b))
  <2>1. ASSUME NEW i \in 1 .. m, NEW j \in 1 .. m, i < j PROVE a[i] < a[j]
    <3>1. i \in 1 .. Len(u) /\ j \in 1 .. Len(u) /\ u[i] = a[i] /\ u[j] = a[j]
      BY <1>2
    <3> QED
      BY <1>4, <2>1, <3>1 DEF Increasing
  <2>2. ASSUME NEW i \in 1 .. n, NEW j \in 1 .. n, i < j PROVE b[i] < b[j]
    <3>1. /\ m + i \in 1 .. Len(u) /\ m + j \in 1 .. Len(u) /\ m + i < m + j
          /\ u[m + i] = b[i] /\ u[m + j] = b[j]
      BY <1>2, <2>2
    <3> QED
      BY <1>4, <3>1 DEF Increasing
  <2>3. ASSUME NEW i \in 1 .. m, NEW j \in 1 .. n PROVE a[i] < b[j]
    <3>1. /\ i \in 1 .. Len(u) /\ m + j \in 1 .. Len(u) /\ i < m + j
          /\ u[i] = a[i] /\ u[m + j] = b[j]
      BY <1>2
    <3> QED
      BY <1>4, <3>1 DEF Increasing
  <2> QED
    BY <1>1, <1>3, <2>1, <2>2, <2>3 DEF Increasing, Before
<1>5. ASSUME Increasing(a), Increasing(b), Before(ToSet(a), ToSet(b)) PROVE Increasing(u)
  <2> SUFFICES ASSUME NEW i \in 1 .. m + n, NEW j \in 1 .. m + n, i < j PROVE u[i] < u[j]
    BY <1>2 DEF Increasing
  <2>1. ASSUME NEW k \in 1 .. m + n, ~(k <= m) PROVE k - m \in 1 .. n /\ u[k] = b[k - m]
    <3>1. k - m \in 1 .. n /\ m + (k - m) = k
      BY <1>2, <2>1
    <3> QED
      BY <1>2, <3>1
  <2>2. CASE j <= m
    <3>1. i \in 1 .. m /\ j \in 1 .. m
      BY <1>2, <2>2
    <3> QED
      BY <1>1, <1>2, <1>5, <3>1 DEF Increasing
  <2>3. CASE ~(i <= m)
    <3>1. ~(j <= m) /\ i - m < j - m
      BY <1>2, <2>3
    <3> QED
      BY <1>1, <1>5, <2>1, <2>3, <3>1 DEF Increasing
  <2>4. CASE i <= m /\ ~(j <= m)
    <3>1. i \in 1 .. m /\ u[i] = a[i]
      BY <1>2, <2>4
    <3> QED
      BY <1>3, <1>5, <2>1, <2>4, <3>1 DEF Before
  <2> QED
    BY <2>2, <2>3, <2>4
<1> QED
  BY <1>1, <1>4, <1>5

\* What is left of an increasing sequence without a part of it.
LEMMA IncreasingDrop ==
    ASSUME NEW S, NEW a \in Seq(S), NEW p \in Seq(S), NEW c \in Seq(S), NEW b \in Seq(S),
           Increasing(Cat(Cat(a, Cat(p, c)), b))
    PROVE  Increasing(Cat(Cat(a, c), b))
<1>1. PICK pp, apc, ac : pp = Cat(p, c) /\ apc = Cat(a, pp) /\ ac = Cat(a, c)
  OBVIOUS
<1>2. /\ pp \in Seq(S) /\ ToSet(pp) = ToSet(p) \cup ToSet(c)
      /\ apc \in Seq(S) /\ ToSet(apc) = ToSet(a) \cup ToSet(pp)
      /\ ac \in Seq(S) /\ ToSet(ac) = ToSet(a) \cup ToSet(c)
  <2>1. MadeOf(S, p, c, pp) /\ MadeOf(S, a, c, ac)
    BY <1>1, CatMadeOf
  <2>2. pp \in Seq(S)
    BY <2>1 DEF MadeOf
  <2>3. MadeOf(S, a, pp, apc)
    BY <1>1, <2>2, CatMadeOf
  <2> QED
    BY <2>1, <2>3 DEF MadeOf
<1>3. Increasing(apc) /\ Increasing(b) /\ Before(ToSet(apc), ToSet(b))
  BY <1>1, <1>2, IncreasingCat
<1>4. Increasing(a) /\ Increasing(pp) /\ Before(ToSet(a), ToSet(pp))
  BY <1>1, <1>2, <1>3, IncreasingCat
<1>5. Increasing(c)
  BY <1>1, <1>4, IncreasingCat
<1>6. Before(ToSet(a), ToSet(c)) /\ Before(ToSet(ac), ToSet(b))
  BY <1>2, <1>3, <1>4 DEF Before
<1>7. Increasing(ac)
  BY <1>1, <1>4, <1>5, <1>6, IncreasingCat
<1> QED
  BY <1>1, <1>2, <1>3, <1>6, <1>7, IncreasingCat

-----------------------------------------------------------------------------
(* Sequences cut in parts.                                                 *)

LEMMA CutAt ==
    ASSUME NEW S, NEW s \in Seq(S), NEW k \in 0 .. Len(s)
    PROVE  /\ SubSeq(s, 1, k) \in Seq(S) /\ Len(SubSeq(s, 1, k)) = k
           /\ SubSeq(s, k + 1, Len(s)) \in Seq(S) /\ Len(SubSeq(s, k + 1, Len(s))) = Len(s) - k
           /\ s = Cat(SubSeq(s, 1, k), SubSeq(s, k + 1, Len(s)))
<1>1. PICK a, b, n : a = SubSeq(s, 1, k) /\ b = SubSeq(s, k + 1, Len(s)) /\ n = Len(s) - k
  OBVIOUS
<1>2. /\ k \in Nat /\ n \in Nat /\ Len(s) = k + n
      /\ a \in Seq(S) /\ Len(a) = k /\ \A i \in 1 .. k : a[i] = s[i]
      /\ b \in Seq(S) /\ Len(b) = n /\ \A i \in 1 .. n : b[i] = s[k + i]
  BY <1>1
<1>3. IsCat(S, a, b, s, k, n)
  BY <1>2 DEF IsCat
<1>4. IsCat(S, a, b, Cat(a, b), k, n)
  BY <1>2, CatAt
<1>5. s = Cat(a, b)
  BY <1>3, <1>4, IsCatUnique
<1> QED
  BY <1>1, <1>2, <1>5

\* What an overflow drops and what it keeps.
LEMMA NewestKept ==
    ASSUME NEW s \in Seq(Points), MaxBuffer \in Nat
    PROVE  /\ Newest(s) \in Seq(Points) /\ Len(Newest(s)) <= MaxBuffer
           /\ Overflow(s) \in Seq(Points)
           /\ s = Cat(Overflow(s), Newest(s))
<1>1. CASE Len(s) > MaxBuffer
  <2>1. PICK k : k = Len(s) - MaxBuffer
    OBVIOUS
  <2>2. k \in 0 .. Len(s) /\ Len(s) - k = MaxBuffer
    BY <1>1, <2>1
  <2>3. Newest(s) = SubSeq(s, k + 1, Len(s)) /\ Overflow(s) = SubSeq(s, 1, k)
    BY <1>1, <2>1 DEF Newest, Overflow
  <2> QED
    BY <2>2, <2>3, CutAt
<1>2. CASE ~(Len(s) > MaxBuffer)
  <2>1. Newest(s) = s /\ Overflow(s) = << >> /\ Len(s) <= MaxBuffer
    BY <1>2 DEF Newest, Overflow
  <2>2. Cat(<< >>, s) = s
    BY DEF Cat
  <2> QED
    BY <2>1, <2>2
<1> QED
  BY <1>1, <1>2

LEMMA AdjacentParts ==
    ASSUME NEW S, NEW s \in Seq(S), NEW j \in Nat, NEW k \in Nat, j <= k, k <= Len(s)
    PROVE  SubSeq(s, 1, k) = Cat(SubSeq(s, 1, j), SubSeq(s, j + 1, k))
<1>1. PICK a, b, c, n : /\ a = SubSeq(s, 1, j) /\ b = SubSeq(s, j + 1, k)
                        /\ c = SubSeq(s, 1, k) /\ n = k - j
  OBVIOUS
<1>2. /\ j \in Nat /\ n \in Nat /\ k = j + n
      /\ a \in Seq(S) /\ Len(a) = j /\ \A i \in 1 .. j : a[i] = s[i]
      /\ b \in Seq(S) /\ Len(b) = n /\ \A i \in 1 .. n : b[i] = s[j + i]
      /\ c \in Seq(S) /\ Len(c) = j + n /\ \A i \in 1 .. j + n : c[i] = s[i]
  BY <1>1
<1>3. IsCat(S, a, b, c, j, n)
  <2>1. ASSUME NEW i \in 1 .. j PROVE c[i] = a[i]
    BY <1>2
  <2>2. ASSUME NEW i \in 1 .. n PROVE c[j + i] = b[i]
    <3>1. j + i \in 1 .. j + n
      BY <1>2
    <3> QED
      BY <1>2, <3>1
  <2> QED
    BY <1>2, <2>1, <2>2 DEF IsCat
<1>4. IsCat(S, a, b, Cat(a, b), j, n)
  BY <1>2, CatAt
<1>5. c = Cat(a, b)
  BY <1>3, <1>4, IsCatUnique
<1> QED
  BY <1>1, <1>5

LEMMA ProductGrows ==
    ASSUME NEW a \in Nat, NEW b \in Nat, NEW B \in Nat, a <= b
    PROVE  a * B \in Nat /\ a * B <= b * B
<1>1. PICK d \in Nat : b = a + d
  <2>1. b - a \in Nat /\ b = a + (b - a)
    OBVIOUS
  <2> QED
    BY <2>1
<1>2. (a + d) * B = a * B + d * B /\ d * B \in Nat /\ a * B \in Nat
  OBVIOUS
<1> QED
  BY <1>1, <1>2

LEMMA Division ==
    ASSUME NEW a \in Nat, NEW B \in Nat \ {0}
    PROVE  /\ a \div B \in Nat
           /\ (a \div B) * B <= a
           /\ a < (a \div B) * B + B
OBVIOUS

\* A function on 1 .. n is a sequence.
LEMMA FunctionIsSeq ==
    ASSUME NEW S, NEW n \in Nat, NEW w, w = [b \in 1 .. n |-> w[b]], \A b \in 1 .. n : w[b] \in S
    PROVE  w \in Seq(S) /\ Len(w) = n
OBVIOUS

\* Cutting the buffer into batches neither loses nor reorders a point.
LEMMA FlatBatches ==
    ASSUME NEW s \in Seq(Points), BatchSize \in Nat \ {0}
    PROVE  Batches(s) \in Seq(Pieces) /\ Flat(Batches(s)) = s
<1>1. PICK L, B, n : L = Len(s) /\ B = BatchSize /\ n = (L + B - 1) \div B
  OBVIOUS
<1> DEFINE End(b) == IF b * B <= L THEN b * B ELSE L
<1>2. L \in Nat /\ B \in Nat \ {0} /\ n \in Nat /\ n * B <= L + B - 1 /\ L + B - 1 < n * B + B
  <2>1. L + B - 1 \in Nat
    BY <1>1
  <2> QED
    BY <1>1, <2>1, Division
<1>3. ASSUME NEW b \in 1 .. n
      PROVE  /\ (b - 1) * B \in Nat /\ End(b - 1) = (b - 1) * B
             /\ End(b) \in Nat /\ End(b - 1) <= End(b) /\ End(b) <= L
  <2>1. b - 1 \in Nat /\ b \in Nat /\ n \in Nat /\ b <= n /\ B \in Nat
    BY <1>2
  <2>2. (b - 1) * B \in Nat /\ b * B \in Nat /\ b * B <= n * B
    BY <2>1, ProductGrows
  <2>3. b * B = (b - 1) * B + B
    BY <2>1
  <2>4. (b - 1) * B <= L
    BY <1>2, <2>2, <2>3
  <2> QED
    BY <1>2, <2>2, <2>3, <2>4
<1>4. n * B >= L
  BY <1>2
<1>5. n # 0 <=> L # 0
  BY <1>2
<1>6. PICK w : w = Batches(s)
  OBVIOUS
<1>7. ASSUME NEW b \in 1 .. n
      PROVE  w[b] \in Pieces /\ w[b].pts = SubSeq(s, End(b - 1) + 1, End(b))
  <2>1. w[b] = [batch |-> b, retry |-> FALSE, pts |-> SubSeq(s, End(b - 1) + 1, End(b))]
    BY <1>1, <1>3, <1>6 DEF Batches
  <2>2. SubSeq(s, End(b - 1) + 1, End(b)) \in Seq(Points)
    <3>1. PICK j, k : j = End(b - 1) + 1 /\ k = End(b)
      OBVIOUS
    <3>2. j \in Nat /\ k \in Nat /\ j >= 1 /\ k <= Len(s)
      BY <1>1, <1>3, <3>1
    <3> QED
      BY <3>1, <3>2
  <2>3. PICK q : q = SubSeq(s, End(b - 1) + 1, End(b))
    OBVIOUS
  <2>4. w[b] = [batch |-> b, retry |-> FALSE, pts |-> q] /\ q \in Seq(Points) /\ b \in Nat
    <3> HIDE DEF End
    <3>1. b \in Nat
      BY <1>2
    <3> QED
      BY <2>1, <2>2, <2>3, <3>1
  <2>5. w[b] \in Pieces /\ w[b].pts = q
    BY <2>4 DEF Pieces
  <2> QED
    BY <2>3, <2>5
<1>8. w \in Seq(Pieces) /\ Len(w) = n
  <2>1. w = [b \in 1 .. n |-> w[b]]
    BY <1>1, <1>6 DEF Batches
  <2>2. \A b \in 1 .. n : w[b] \in Pieces
    BY <1>7
  <2>3. n \in Nat
    BY <1>2
  <2> QED
    BY <2>1, <2>2, <2>3, FunctionIsSeq
<1>9. CASE n = 0
  <2>1. w = << >> /\ s = << >>
    BY <1>1, <1>5, <1>8, <1>9
  <2> QED
    BY <1>6, <1>8, <2>1, FlatEmpty
<1>10. CASE n # 0
  <2> DEFINE f == [b \in 1 .. n |-> SubSeq(s, 1, End(b))]
  <2>1. PICK ss : ss = PtsOf(w)
    OBVIOUS
  <2>2. /\ ss \in Seq(Seq(Points)) /\ Len(ss) = n
        /\ \A b \in 1 .. n : ss[b] = SubSeq(s, End(b - 1) + 1, End(b))
    BY <1>7, <1>8, <2>1, PtsType
  <2>3. Sums(Points, ss, f, n)
    <3>1. f \in [1 .. n -> Seq(Points)]
      BY <1>1, <1>3
    <3>2. ASSUME NEW b \in 1 .. n
          PROVE  f[b] = IF b = 1 THEN ss[1] ELSE Cat(f[b - 1], ss[b])
      <4>1. CASE b = 1
        <5>1. End(b - 1) + 1 = 1
          BY <1>2, <4>1
        <5> QED
          BY <2>2, <4>1, <5>1
      <4>2. CASE b # 1
        <5>1. SubSeq(s, 1, End(b)) = Cat(SubSeq(s, 1, End(b - 1)), SubSeq(s, End(b - 1) + 1, End(b)))
          <6>1. PICK j, k : j = End(b - 1) /\ k = End(b)
            OBVIOUS
          <6>2. j \in Nat /\ k \in Nat /\ j <= k /\ k <= Len(s)
            BY <1>1, <1>3, <6>1
          <6> QED
            BY <6>1, <6>2, AdjacentParts
        <5>2. b - 1 \in 1 .. n
          BY <1>2, <4>2
        <5> HIDE DEF End
        <5> QED
          BY <2>2, <4>2, <5>1, <5>2
      <4> QED
        BY <4>1, <4>2
    <3> HIDE DEF f
    <3> QED
      BY <3>1, <3>2 DEF Sums
  <2>4. PICK g : Sums(Points, ss, g, n) /\ FlattenSeq(ss) = g[n]
    <3>1. ss # << >>
      BY <1>10, <2>2
    <3> QED
      BY <2>2, <3>1, FlattenIsSum
  <2>5. f[n] = g[n]
    <3>1. \A b \in 1 .. n : f[b] = g[b]
      <4> HIDE DEF f
      <4> QED
        BY <1>2, <2>3, <2>4, SumsUnique
    <3>2. n \in 1 .. n
      BY <1>2, <1>10
    <3> HIDE DEF f
    <3> QED
      BY <3>1, <3>2
  <2>6. f[n] = s
    <3>1. End(n) = L /\ n \in 1 .. n
      BY <1>2, <1>4, <1>10
    <3>2. f[n] = SubSeq(s, 1, L)
      BY <3>1
    <3>3. SubSeq(s, 1, Len(s)) = s
      OBVIOUS
    <3> QED
      BY <1>1, <3>2, <3>3
  <2> QED
    BY <1>6, <1>8, <2>1, <2>4, <2>5, <2>6 DEF Flat
<1> QED
  BY <1>9, <1>10

-----------------------------------------------------------------------------
(* The books of the exporter.                                              *)

\* Of n points produced, r are in the running flush and b in the buffer, o and w
\* are counted as written, j as rejected and d as dropped, and st are stored; c
\* says that close() was called.
Books(c, n, r, b, o, w, j, d, st) ==
    /\ Increasing(Cat(r, b))
    /\ \A x \in ToSet(r) \cup ToSet(b) : x <= n
    /\ ~ c => n = Len(b) + Len(r) + o + w + Len(j) + Len(d)
    /\ ~ c => 1 .. n \subseteq ToSet(b) \cup ToSet(r) \cup st \cup ToSet(j) \cup ToSet(d)
    /\ ToSet(j) \subseteq Bad

LEMMA EmptyPoints ==
    /\ ToSet(<< >>) = {} /\ Len(<< >>) = 0 /\ Increasing(<< >>)
    /\ \A s \in Seq(Points) : Cat(<< >>, s) = s /\ Cat(s, << >>) = s
<1>1. ToSet(<< >>) = {}
  BY DEF ToSet
<1>2. \A s \in Seq(Points) : Cat(<< >>, s) = s /\ Cat(s, << >>) = s
  BY DEF Cat
<1>3. Len(<< >>) = 0 /\ Increasing(<< >>)
  BY DEF Increasing
<1> QED
  BY <1>1, <1>2, <1>3

LEMMA PointsAre == MaxPoints \in Nat /\ \A x : x \in Points <=> x \in Nat /\ 1 <= x /\ x <= MaxPoints
BY ExporterAssumption DEF Points

LEMMA NewPoints ==
    ASSUME NEW n \in Nat, NEW k \in Nat, n + k <= MaxPoints
    PROVE  /\ Interval(n + 1, n + k) \in Seq(Points)
           /\ Len(Interval(n + 1, n + k)) = k
           /\ ToSet(Interval(n + 1, n + k)) = n + 1 .. n + k
           /\ Increasing(Interval(n + 1, n + k))
<1>1. PICK s : s = Interval(n + 1, n + k)
  OBVIOUS
<1>2. s = [i \in 1 .. k |-> n + i]
  <2>1. (IF n + k < n + 1 THEN 0 ELSE (n + k) - (n + 1) + 1) = k
    OBVIOUS
  <2>2. \A i \in 1 .. k : (n + 1) + i - 1 = n + i
    OBVIOUS
  <2> QED
    BY <1>1, <2>1, <2>2 DEF Interval
<1>3. \A i \in 1 .. k : n + i \in Points
  BY PointsAre
<1>4. s \in Seq(Points) /\ Len(s) = k
  BY <1>2, <1>3
<1>5. DOMAIN s = 1 .. k /\ \A i \in 1 .. k : s[i] = n + i
  BY <1>2
<1>6. ToSet(s) = n + 1 .. n + k
  <2>1. ASSUME NEW x \in n + 1 .. n + k PROVE x - n \in 1 .. k /\ n + (x - n) = x
    OBVIOUS
  <2>2. \A i \in 1 .. k : n + i \in n + 1 .. n + k
    OBVIOUS
  <2>3. ToSet(s) = {s[i] : i \in 1 .. k}
    BY <1>5 DEF ToSet
  <2>4. ToSet(s) \subseteq n + 1 .. n + k
    BY <1>5, <2>2, <2>3
  <2>5. ASSUME NEW x \in n + 1 .. n + k PROVE x \in ToSet(s)
    <3>1. s[x - n] = x
      BY <1>5, <2>1
    <3> QED
      BY <2>1, <2>3, <3>1
  <2> QED
    BY <2>4, <2>5
<1>7. Increasing(s)
  BY <1>4, <1>5 DEF Increasing
<1> QED
  BY <1>1, <1>4, <1>6, <1>7

\* A flush takes the buffer.
LEMMA BooksTake ==
    ASSUME NEW c, NEW n \in Nat, NEW b \in Seq(Points), NEW o, NEW w,
           NEW j \in Seq(Points), NEW d \in Seq(Points), NEW st,
           Books(c, n, << >>, b, o, w, j, d, st)
    PROVE  Books(c, n, b, << >>, o, w, j, d, st)
<1>1. Cat(<< >>, b) = b /\ Cat(b, << >>) = b /\ ToSet(<< >>) = {} /\ Len(<< >>) = 0 /\ Len(b) \in Nat
  BY EmptyPoints
<1> QED
  BY <1>1 DEF Books

\* close() drops what the flush held.
LEMMA BooksClose ==
    ASSUME NEW c, NEW n \in Nat, NEW r \in Seq(Points), NEW b \in Seq(Points), NEW o, NEW w,
           NEW j \in Seq(Points), NEW d \in Seq(Points), NEW st,
           Books(c, n, r, b, o, w, j, d, st)
    PROVE  Books(TRUE, n, << >>, b, 0, w, j, d, st)
<1>1. Cat(<< >>, b) = b /\ ToSet(<< >>) = {}
  BY EmptyPoints
<1>2. Increasing(Cat(r, b))
  BY DEF Books
<1>3. Increasing(b)
  BY <1>2, IncreasingCat
<1> QED
  BY <1>1, <1>3 DEF Books

LEMMA BooksMore ==
    ASSUME NEW c, NEW n, NEW r, NEW b, NEW o, NEW w, NEW j, NEW d, NEW st, NEW su,
           Books(c, n, r, b, o, w, j, d, st), st \subseteq su
    PROVE  Books(c, n, r, b, o, w, j, d, su)
BY DEF Books

\* The newest points of q become the buffer, the others are counted as dropped.
LEMMA BooksFill ==
    ASSUME NEW c, NEW n \in Nat, NEW r \in Seq(Points), NEW q \in Seq(Points),
           NEW o \in Nat, NEW w \in Nat, NEW j \in Seq(Points), NEW d \in Seq(Points), NEW st,
           Books(c, n, r, q, o, w, j, d, st)
    PROVE  Books(c, n, r, Newest(q), o, w, j, Cat(d, Overflow(q)), st)
<1>1. PICK x, y, e : x = Overflow(q) /\ y = Newest(q) /\ e = Cat(d, x)
  OBVIOUS
<1>2. x \in Seq(Points) /\ y \in Seq(Points) /\ q = Cat(x, y)
  BY <1>1, NewestKept, ExporterAssumption
<1>3. Len(q) = Len(x) + Len(y) /\ ToSet(q) = ToSet(x) \cup ToSet(y)
  <2>1. MadeOf(Points, x, y, q)
    BY <1>2, CatMadeOf
  <2> QED
    BY <2>1 DEF MadeOf
<1>4. Len(e) = Len(d) + Len(x) /\ ToSet(e) = ToSet(d) \cup ToSet(x)
  <2>1. MadeOf(Points, d, x, e)
    BY <1>1, <1>2, CatMadeOf
  <2> QED
    BY <2>1 DEF MadeOf
<1>5. Increasing(Cat(r, y))
  <2>1. Increasing(r) /\ Increasing(q) /\ Before(ToSet(r), ToSet(q))
    BY IncreasingCat DEF Books
  <2>2. Increasing(y)
    BY <1>2, <2>1, IncreasingCat
  <2>3. Before(ToSet(r), ToSet(y))
    BY <1>3, <2>1 DEF Before
  <2> QED
    BY <1>2, <2>1, <2>2, <2>3, IncreasingCat
<1>6. \A z \in ToSet(r) \cup ToSet(y) : z <= n
  BY <1>3 DEF Books
<1>7. ASSUME ~ c PROVE n = Len(y) + Len(r) + o + w + Len(j) + Len(e)
  <2>1. n = Len(q) + Len(r) + o + w + Len(j) + Len(d)
    BY <1>7 DEF Books
  <2>2. Len(x) \in Nat /\ Len(y) \in Nat /\ Len(r) \in Nat /\ Len(j) \in Nat /\ Len(d) \in Nat
    BY <1>2
  <2> QED
    BY <1>3, <1>4, <2>1, <2>2
<1>8. ASSUME ~ c
      PROVE  1 .. n \subseteq ToSet(y) \cup ToSet(r) \cup st \cup ToSet(j) \cup ToSet(e)
  <2>1. 1 .. n \subseteq ToSet(q) \cup ToSet(r) \cup st \cup ToSet(j) \cup ToSet(d)
    BY <1>8 DEF Books
  <2> QED
    BY <1>3, <1>4, <2>1
<1>9. ToSet(j) \subseteq Bad
  BY DEF Books
<1>10. Books(c, n, r, y, o, w, j, e, st)
  BY <1>5, <1>6, <1>7, <1>8, <1>9 DEF Books
<1> QED
  BY <1>1, <1>10

\* New points go to the end of the buffer.
LEMMA BooksAdd ==
    ASSUME NEW c, NEW n \in Nat, NEW r \in Seq(Points), NEW b \in Seq(Points),
           NEW o \in Nat, NEW w \in Nat, NEW j \in Seq(Points), NEW d \in Seq(Points), NEW st,
           Books(c, n, r, b, o, w, j, d, st),
           NEW k \in Nat, n + k <= MaxPoints
    PROVE  /\ Cat(b, Interval(n + 1, n + k)) \in Seq(Points)
           /\ Books(c, n + k, r, Cat(b, Interval(n + 1, n + k)), o, w, j, d, st)
<1>1. PICK x, y : x = Interval(n + 1, n + k) /\ y = Cat(b, x)
  OBVIOUS
<1>2. x \in Seq(Points) /\ Len(x) = k /\ ToSet(x) = n + 1 .. n + k /\ Increasing(x)
  BY <1>1, NewPoints
<1>3. y \in Seq(Points) /\ Len(y) = Len(b) + Len(x) /\ ToSet(y) = ToSet(b) \cup ToSet(x)
  <2>1. x \in Seq(Points)
    BY <1>2
  <2>2. MadeOf(Points, b, x, y)
    BY <1>1, <2>1, CatMadeOf
  <2> QED
    BY <2>2 DEF MadeOf
<1>4. Increasing(r) /\ Increasing(b) /\ Before(ToSet(r), ToSet(b))
  BY IncreasingCat DEF Books
<1>5. \A z \in ToSet(r) \cup ToSet(b) : z \in Nat /\ z <= n
  <2>1. ToSet(r) \subseteq Points /\ ToSet(b) \subseteq Points
    BY DEF ToSet
  <2> QED
    BY <2>1, PointsAre DEF Books
<1>6. Before(ToSet(r), ToSet(x)) /\ Before(ToSet(b), ToSet(x))
  <2>1. \A v \in ToSet(x) : v \in Nat /\ v > n
    BY <1>2
  <2> QED
    BY <1>5, <2>1 DEF Before
<1>7. Increasing(y) /\ Before(ToSet(r), ToSet(y))
  <2>1. Before(ToSet(r), ToSet(y))
    BY <1>3, <1>4, <1>6 DEF Before
  <2>2. x \in Seq(Points) /\ Increasing(x)
    BY <1>2
  <2> QED
    BY <1>1, <1>4, <1>6, <2>1, <2>2, IncreasingCat
<1>8. Increasing(Cat(r, y))
  <2>1. y \in Seq(Points)
    BY <1>3
  <2> QED
    BY <1>4, <1>7, <2>1, IncreasingCat
<1>9. \A z \in ToSet(r) \cup ToSet(y) : z <= n + k
  BY <1>2, <1>3, <1>5
<1>10. ASSUME ~ c PROVE n + k = Len(y) + Len(r) + o + w + Len(j) + Len(d)
  <2>1. n = Len(b) + Len(r) + o + w + Len(j) + Len(d)
    BY <1>10 DEF Books
  <2> QED
    BY <1>2, <1>3, <2>1
<1>11. ASSUME ~ c
       PROVE  1 .. n + k \subseteq ToSet(y) \cup ToSet(r) \cup st \cup ToSet(j) \cup ToSet(d)
  <2>1. 1 .. n \subseteq ToSet(b) \cup ToSet(r) \cup st \cup ToSet(j) \cup ToSet(d)
    BY <1>11 DEF Books
  <2>2. \A z \in 1 .. n + k : z \in 1 .. n \/ z \in n + 1 .. n + k
    OBVIOUS
  <2> QED
    BY <1>2, <1>3, <2>1, <2>2
<1>12. ToSet(j) \subseteq Bad
  BY DEF Books
<1>13. Books(c, n + k, r, y, o, w, j, d, st)
  BY <1>8, <1>9, <1>10, <1>11, <1>12 DEF Books
<1> QED
  BY <1>1, <1>3, <1>13

\* The pieces of the flush go back in front of the buffer.
LEMMA BooksJoin ==
    ASSUME NEW c, NEW n \in Nat, NEW r \in Seq(Points), NEW b \in Seq(Points),
           NEW o \in Nat, NEW w \in Nat, NEW j \in Seq(Points), NEW d \in Seq(Points), NEW st,
           Books(c, n, r, b, o, w, j, d, st)
    PROVE  /\ Cat(r, b) \in Seq(Points)
           /\ Books(c, n, << >>, Cat(r, b), 0, w + o, j, d, st)
<1>1. PICK q : q = Cat(r, b)
  OBVIOUS
<1>2. q \in Seq(Points) /\ Len(q) = Len(r) + Len(b) /\ ToSet(q) = ToSet(r) \cup ToSet(b)
  <2>1. MadeOf(Points, r, b, q)
    BY <1>1, CatMadeOf
  <2> QED
    BY <2>1 DEF MadeOf
<1>3. Cat(<< >>, q) = q /\ ToSet(<< >>) = {} /\ Len(<< >>) = 0
  BY <1>2, EmptyPoints
<1>4. Increasing(Cat(<< >>, q))
  BY <1>1, <1>3 DEF Books
<1>5. ASSUME ~ c PROVE n = Len(q) + Len(<< >>) + 0 + (w + o) + Len(j) + Len(d)
  <2>1. n = Len(b) + Len(r) + o + w + Len(j) + Len(d)
    BY <1>5 DEF Books
  <2>2. Len(r) \in Nat /\ Len(b) \in Nat /\ Len(j) \in Nat /\ Len(d) \in Nat
    OBVIOUS
  <2> QED
    BY <1>2, <1>3, <2>1, <2>2
<1>6. Books(c, n, << >>, q, 0, w + o, j, d, st)
  BY <1>2, <1>3, <1>4, <1>5 DEF Books
<1> QED
  BY <1>1, <1>2, <1>6

\* A piece that is written, or whose point is rejected, leaves the flush.
LEMMA BooksRemove ==
    ASSUME NEW c, NEW n \in Nat, NEW a \in Seq(Points), NEW p \in Seq(Points), NEW e \in Seq(Points),
           NEW b \in Seq(Points),
           NEW o \in Nat, NEW w \in Nat, NEW j \in Seq(Points), NEW d \in Seq(Points), NEW st,
           Books(c, n, Cat(a, Cat(p, e)), b, o, w, j, d, st)
    PROVE  /\ Books(c, n, Cat(a, e), b, o + Len(p), w, j, d, st \cup ToSet(p))
           /\ ToSet(p) \subseteq Bad => Books(c, n, Cat(a, e), b, o, w, Cat(j, p), d, st)
<1>1. PICK r, x, y, z : r = Cat(a, x) /\ x = Cat(p, e) /\ y = Cat(a, e) /\ z = Cat(j, p)
  OBVIOUS
<1>2. /\ x \in Seq(Points) /\ Len(x) = Len(p) + Len(e) /\ ToSet(x) = ToSet(p) \cup ToSet(e)
      /\ y \in Seq(Points) /\ Len(y) = Len(a) + Len(e) /\ ToSet(y) = ToSet(a) \cup ToSet(e)
      /\ z \in Seq(Points) /\ Len(z) = Len(j) + Len(p) /\ ToSet(z) = ToSet(j) \cup ToSet(p)
  <2>1. MadeOf(Points, p, e, x)
    BY <1>1, CatMadeOf
  <2>2. MadeOf(Points, a, e, y)
    BY <1>1, CatMadeOf
  <2>3. MadeOf(Points, j, p, z)
    BY <1>1, CatMadeOf
  <2> QED
    BY <2>1, <2>2, <2>3 DEF MadeOf
<1>3. r \in Seq(Points) /\ Len(r) = Len(a) + Len(x) /\ ToSet(r) = ToSet(a) \cup ToSet(x)
  <2>1. x \in Seq(Points) /\ r = Cat(a, x)
    BY <1>1, <1>2
  <2>2. MadeOf(Points, a, x, r)
    BY <2>1, CatMadeOf
  <2> QED
    BY <2>2 DEF MadeOf
<1>4. Books(c, n, r, b, o, w, j, d, st)
  BY <1>1
<1>5. Increasing(Cat(y, b))
  <2>1. Increasing(Cat(Cat(a, Cat(p, e)), b))
    BY DEF Books
  <2> QED
    BY <1>1, <2>1, IncreasingDrop
<1>6. \A u \in ToSet(y) \cup ToSet(b) : u <= n
  BY <1>2, <1>3, <1>4 DEF Books
<1>7. /\ Len(a) \in Nat /\ Len(p) \in Nat /\ Len(e) \in Nat /\ Len(b) \in Nat
      /\ Len(j) \in Nat /\ Len(d) \in Nat
  OBVIOUS
<1>8. ASSUME ~ c
      PROVE  /\ n = Len(b) + Len(y) + (o + Len(p)) + w + Len(j) + Len(d)
             /\ n = Len(b) + Len(y) + o + w + Len(z) + Len(d)
  <2>1. n = Len(b) + Len(r) + o + w + Len(j) + Len(d)
    BY <1>4, <1>8 DEF Books
  <2>2. Len(r) = Len(a) + (Len(p) + Len(e)) /\ Len(y) = Len(a) + Len(e) /\ Len(z) = Len(j) + Len(p)
    BY <1>2, <1>3
  <2> QED
    BY <1>7, <2>1, <2>2
<1>9. ASSUME ~ c
      PROVE  /\ 1 .. n \subseteq ToSet(b) \cup ToSet(y) \cup (st \cup ToSet(p)) \cup ToSet(j) \cup ToSet(d)
             /\ 1 .. n \subseteq ToSet(b) \cup ToSet(y) \cup st \cup ToSet(z) \cup ToSet(d)
  <2>1. 1 .. n \subseteq ToSet(b) \cup ToSet(r) \cup st \cup ToSet(j) \cup ToSet(d)
    BY <1>4, <1>9 DEF Books
  <2> QED
    BY <1>2, <1>3, <2>1
<1>10. ToSet(j) \subseteq Bad
  BY <1>4 DEF Books
<1>11. Books(c, n, y, b, o + Len(p), w, j, d, st \cup ToSet(p))
  BY <1>5, <1>6, <1>8, <1>9, <1>10 DEF Books
<1>12. ASSUME ToSet(p) \subseteq Bad PROVE Books(c, n, y, b, o, w, z, d, st)
  <2>1. ToSet(z) \subseteq Bad
    BY <1>2, <1>10, <1>12
  <2> QED
    BY <1>5, <1>6, <1>8, <1>9, <2>1 DEF Books
<1> QED
  BY <1>1, <1>11, <1>12

-----------------------------------------------------------------------------
(* The invariant.                                                          *)

\* Only a running flush holds pieces.
HeldByFlush == pc # "write" => work = << >> /\ ok = 0

Balanced == Books(closing, produced, Flat(work), buffer, ok, written, rejected, dropped, stored)

ExporterInv == TypeOK /\ HeldByFlush /\ Balanced

LEMMA InitExporter == Init => ExporterInv
<1> SUFFICES ASSUME Init PROVE ExporterInv
  OBVIOUS
<1>1. TypeOK
  <2>1. << >> \in Seq(Points) /\ << >> \in Seq(Pieces) /\ Len(<< >>) = 0
    OBVIOUS
  <2>2. 0 \in 0 .. MaxPoints /\ 0 <= MaxBuffer
    BY ExporterAssumption
  <2> QED
    BY <2>1, <2>2 DEF Init, TypeOK, Pcs
<1>2. Books(FALSE, 0, << >>, << >>, 0, 0, << >>, << >>, {})
  <2>1. Cat(<< >>, << >>) = << >> /\ ToSet(<< >>) = {} /\ Len(<< >>) = 0 /\ Increasing(<< >>)
    <3>1. << >> \in Seq(Points)
      OBVIOUS
    <3> QED
      BY <3>1, EmptyPoints
  <2>2. 1 .. 0 = {}
    OBVIOUS
  <2> QED
    BY <2>1, <2>2 DEF Books
<1>3. Balanced
  BY <1>2, FlatEmpty DEF Init, Balanced
<1> QED
  BY <1>1, <1>3 DEF Init, HeldByFlush, ExporterInv

LEMMA HeldTypes ==
    ASSUME TypeOK
    PROVE  /\ produced \in Nat /\ ok \in Nat /\ written \in Nat
           /\ buffer \in Seq(Points) /\ rejected \in Seq(Points) /\ dropped \in Seq(Points)
           /\ work \in Seq(Pieces) /\ Flat(work) \in Seq(Points)
BY FlatType DEF TypeOK

\* Steps that move no point.
LEMMA QuietKeeps ==
    ASSUME ExporterInv,
           UNCHANGED <<produced, buffer, work, ok, closing, counters, stored>>,
           pc' \in Pcs, api' \in {"none", "good", "broken"}, failures' \in Nat, server' \in ServerStates,
           pc' = pc \/ (pc # "write" /\ pc' # "write")
    PROVE  ExporterInv'
<1>1. TypeOK'
  BY DEF ExporterInv, TypeOK, counters
<1>2. HeldByFlush'
  BY DEF ExporterInv, HeldByFlush, counters
<1>3. Balanced'
  BY DEF ExporterInv, Balanced, counters
<1> QED
  BY <1>1, <1>2, <1>3 DEF ExporterInv

LEMMA WriteKeeps == ASSUME ExporterInv, NEW n \in 1 .. MaxWrite, write(n) PROVE ExporterInv'
<1>1. TypeOK /\ Balanced
  BY DEF ExporterInv
<1>2. PICK q : q = Cat(buffer, Interval(produced + 1, produced + n))
  OBVIOUS
<1>3. n \in Nat /\ produced + n <= MaxPoints /\ produced' = produced + n
  BY ExporterAssumption DEF write
<1>4. q \in Seq(Points)
      /\ Books(closing, produced + n, Flat(work), q, ok, written, rejected, dropped, stored)
  BY <1>1, <1>2, <1>3, HeldTypes, BooksAdd DEF Balanced
<1>5. Books(closing, produced + n, Flat(work), Newest(q), ok, written, rejected,
            Cat(dropped, Overflow(q)), stored)
  <2>1. produced + n \in Nat
    BY <1>1, <1>3, HeldTypes
  <2> QED
    BY <1>1, <1>4, <2>1, HeldTypes, BooksFill
<1>6. buffer' = Newest(q) /\ dropped' = Cat(dropped, Overflow(q))
  BY <1>2 DEF write, SetBuffer, Cat
<1>7. /\ Newest(q) \in Seq(Points) /\ Len(Newest(q)) <= MaxBuffer
      /\ Cat(dropped, Overflow(q)) \in Seq(Points)
  BY <1>1, <1>4, HeldTypes, NewestKept, CatType, ExporterAssumption
<1>8. TypeOK'
  BY <1>1, <1>3, <1>6, <1>7 DEF TypeOK, write, external
<1>9. HeldByFlush'
  BY DEF ExporterInv, HeldByFlush, write
<1>10. Balanced'
  BY <1>3, <1>5, <1>6 DEF Balanced, write, external
<1> QED
  BY <1>8, <1>9, <1>10 DEF ExporterInv

\* Every flush begins by taking the buffer, or does nothing.
LEMMA FlushKeeps ==
    ASSUME ExporterInv, NEW a \in {"none", "good", "broken"}, pc # "write", api' = a, StartFlush(a),
           UNCHANGED <<produced, closing, failures, counters, external>>
    PROVE  ExporterInv'
<1>1. TypeOK /\ Balanced /\ work = << >> /\ ok = 0
  BY DEF ExporterInv, HeldByFlush
<1>2. CASE buffer = << >> \/ a = "none"
  <2>1. ok' = ok /\ pc' = LoopHead(a) /\ buffer' = buffer /\ work' = work
    BY <1>1, <1>2 DEF StartFlush
  <2>2. pc' \in Pcs /\ pc' # "write" /\ api' \in {"none", "good", "broken"} /\ failures' \in Nat
        /\ server' \in ServerStates
    BY <1>1, <2>1 DEF LoopHead, Pcs, TypeOK, external
  <2> QED
    BY <2>1, <2>2, QuietKeeps DEF external
<1>3. CASE ~(buffer = << >> \/ a = "none")
  <2>1. ok' = 0 /\ pc' = "write" /\ buffer' = << >> /\ work' = Batches(buffer)
    BY <1>3 DEF StartFlush
  <2>2. Batches(buffer) \in Seq(Pieces) /\ Flat(Batches(buffer)) = buffer
    BY <1>1, HeldTypes, FlatBatches, ExporterAssumption
  <2>3. Books(closing, produced, buffer, << >>, ok, written, rejected, dropped, stored)
    <3>1. Books(closing, produced, << >>, buffer, ok, written, rejected, dropped, stored)
      BY <1>1, FlatEmpty DEF Balanced
    <3> QED
      BY <1>1, <3>1, HeldTypes, BooksTake
  <2>4. TypeOK'
    BY <1>1, <2>1, <2>2, ExporterAssumption DEF TypeOK, Pcs, counters, external
  <2>5. HeldByFlush'
    BY <2>1 DEF HeldByFlush
  <2>6. Balanced'
    BY <1>1, <2>1, <2>2, <2>3 DEF Balanced, counters, external
  <2> QED
    BY <2>4, <2>5, <2>6 DEF ExporterInv
<1> QED
  BY <1>2, <1>3

-----------------------------------------------------------------------------
(* The pieces of a flush.                                                  *)

\* A piece of the running flush is answered.
Answers(i) ==
    /\ pc = "write" /\ i \in 1 .. Len(work)
    /\ UNCHANGED <<produced, buffer, pc, closing, api, failures, written, dropped, server>>

LEMMA PieceType ==
    ASSUME TypeOK, NEW i \in 1 .. Len(work)
    PROVE  /\ work[i] \in Pieces /\ work[i].pts \in Seq(Points)
           /\ ToSet(work[i].pts) \subseteq Points /\ Len(work[i].pts) \in Nat
<1>1. work[i] \in Pieces
  BY DEF TypeOK
<1>2. work[i].pts \in Seq(Points)
  BY <1>1 DEF Pieces
<1> QED
  BY <1>1, <1>2 DEF ToSet

\* What an answer must establish.
LEMMA AnswerKeeps ==
    ASSUME ExporterInv, NEW i, Answers(i),
           work' \in Seq(Pieces), ok' \in Nat, rejected' \in Seq(Points), stored' \subseteq Points,
           Books(closing, produced, Flat(work'), buffer, ok', written, rejected', dropped, stored')
    PROVE  ExporterInv'
<1>1. TypeOK'
  BY DEF ExporterInv, TypeOK, Answers
<1>2. HeldByFlush'
  BY DEF HeldByFlush, Answers
<1>3. Balanced'
  BY DEF Balanced, Answers
<1> QED
  BY <1>1, <1>2, <1>3 DEF ExporterInv

LEMMA AcceptedKeeps == ASSUME ExporterInv, NEW i, Answers(i), Accepted(i) PROVE ExporterInv'
<1>1. TypeOK /\ Balanced /\ i \in 1 .. Len(work)
  BY DEF ExporterInv, Answers
<1>2. PICK p : p = work[i].pts
  OBVIOUS
<1>3. p \in Seq(Points) /\ ToSet(p) \subseteq Points /\ Len(p) \in Nat
  BY <1>1, <1>2, PieceType
<1>4. PICK a, e \in Seq(Points) :
         /\ Flat(work) = Cat(a, Cat(p, e))
         /\ RemoveAt(work, i) \in Seq(Pieces) /\ Flat(RemoveAt(work, i)) = Cat(a, e)
  BY <1>1, <1>2, HeldTypes, FlatSplit
<1>5. Books(closing, produced, Cat(a, Cat(p, e)), buffer, ok, written, rejected, dropped, stored)
  BY <1>1, <1>4 DEF Balanced
<1>6. Books(closing, produced, Cat(a, e), buffer, ok + Len(p), written, rejected, dropped,
            stored \cup ToSet(p))
  BY <1>1, <1>3, <1>5, HeldTypes, BooksRemove
<1>7. /\ work' = RemoveAt(work, i) /\ ok' = ok + Len(p) /\ stored' = stored \cup ToSet(p)
      /\ rejected' = rejected
  BY <1>2 DEF Accepted
<1>8. Books(closing, produced, Flat(work'), buffer, ok', written, rejected', dropped, stored')
  BY <1>4, <1>6, <1>7
<1>9. work' \in Seq(Pieces) /\ ok' \in Nat /\ rejected' \in Seq(Points) /\ stored' \subseteq Points
  BY <1>1, <1>3, <1>4, <1>7 DEF TypeOK
<1> QED
  BY <1>8, <1>9, AnswerKeeps

LEMMA FailedKeeps == ASSUME ExporterInv, NEW i, Answers(i), Failed(i) PROVE ExporterInv'
<1>1. TypeOK /\ Balanced /\ i \in 1 .. Len(work)
  BY DEF ExporterInv, Answers
<1>2. work' = [work EXCEPT ![i].retry = TRUE] /\ ok' = ok /\ rejected' = rejected
  BY DEF Failed
<1>3. stored \subseteq stored' /\ stored' \subseteq Points
  BY <1>1, PieceType DEF Failed, TypeOK
<1>4. work' \in Seq(Pieces) /\ Len(work') = Len(work) /\ \A k \in 1 .. Len(work) : work'[k].pts = work[k].pts
  <2>1. work \in Seq(Pieces)
    BY <1>1 DEF TypeOK
  <2>2. [work[i] EXCEPT !.retry = TRUE] \in Pieces
        /\ [work[i] EXCEPT !.retry = TRUE].pts = work[i].pts
    <3>1. PICK p : p = work[i]
      OBVIOUS
    <3>2. p \in Pieces
      BY <1>1, <3>1, PieceType
    <3>3. [p EXCEPT !.retry = TRUE] \in Pieces /\ [p EXCEPT !.retry = TRUE].pts = p.pts
      BY <3>2 DEF Pieces
    <3> QED
      BY <3>1, <3>3
  <2>3. work' = [work EXCEPT ![i] = [work[i] EXCEPT !.retry = TRUE]]
    BY <1>2
  <2> QED
    BY <1>1, <2>1, <2>2, <2>3
<1>5. Flat(work') = Flat(work)
  BY <1>4 DEF Flat, PtsOf
<1>6. Books(closing, produced, Flat(work'), buffer, ok', written, rejected', dropped, stored')
  BY <1>1, <1>2, <1>3, <1>5, BooksMore DEF Balanced
<1> QED
  BY <1>1, <1>2, <1>3, <1>4, <1>6, AnswerKeeps DEF TypeOK

LEMMA RejectedKeeps == ASSUME ExporterInv, NEW i, Answers(i), Rejected(i) PROVE ExporterInv'
<1>1. TypeOK /\ Balanced /\ i \in 1 .. Len(work)
  BY DEF ExporterInv, Answers
<1>2. PICK p : p = work[i].pts
  OBVIOUS
<1>3. p \in Seq(Points) /\ ToSet(p) \subseteq Points /\ Len(p) \in Nat /\ work[i] \in Pieces
  BY <1>1, <1>2, PieceType
<1>4. PICK a, e \in Seq(Points) :
         /\ Flat(work) = Cat(a, Cat(p, e))
         /\ RemoveAt(work, i) \in Seq(Pieces) /\ Flat(RemoveAt(work, i)) = Cat(a, e)
         /\ \A x, y \in Pieces :
               /\ Cut(work, i, x, y) \in Seq(Pieces)
               /\ Flat(Cut(work, i, x, y)) = Cat(a, Cat(Cat(x.pts, y.pts), e))
  BY <1>1, <1>2, HeldTypes, FlatSplit
<1>5. Books(closing, produced, Cat(a, Cat(p, e)), buffer, ok, written, rejected, dropped, stored)
  BY <1>1, <1>4 DEF Balanced
<1>6. ok' = ok /\ stored \subseteq stored' /\ stored' \subseteq Points /\ ToSet(p) \cap Bad # {}
  BY <1>1, <1>2, <1>3 DEF Rejected, TypeOK
<1>7. CASE Len(p) = 1
  <2>1. work' = RemoveAt(work, i) /\ rejected' = Cat(rejected, p)
    BY <1>2, <1>7 DEF Rejected, isolate_unprocessable, Cat
  <2>2. ToSet(p) \subseteq Bad
    <3>1. DOMAIN p = 1 .. 1 /\ 1 .. 1 = {1}
      BY <1>3, <1>7
    <3>2. ToSet(p) = {p[1]}
      BY <3>1 DEF ToSet
    <3> QED
      BY <1>6, <3>2
  <2>3. Books(closing, produced, Cat(a, e), buffer, ok, written, Cat(rejected, p), dropped, stored)
    BY <1>1, <1>3, <1>5, <2>2, HeldTypes, BooksRemove
  <2>4. Books(closing, produced, Flat(work'), buffer, ok', written, rejected', dropped, stored')
    <3>1. Books(closing, produced, Flat(work'), buffer, ok', written, rejected', dropped, stored)
      BY <1>4, <1>6, <2>1, <2>3
    <3> QED
      BY <1>6, <3>1, BooksMore
  <2>5. work' \in Seq(Pieces) /\ ok' \in Nat /\ rejected' \in Seq(Points)
    BY <1>1, <1>3, <1>4, <1>6, <2>1, HeldTypes, CatType
  <2> QED
    BY <1>6, <2>4, <2>5, AnswerKeeps
<1>8. CASE Len(p) # 1
  <2>1. PICK m, x, y : /\ m = Len(p) \div 2
                       /\ x = [work[i] EXCEPT !.pts = SubSeq(p, 1, m)]
                       /\ y = [work[i] EXCEPT !.pts = SubSeq(p, m + 1, Len(p))]
    OBVIOUS
  <2>2. work' = Cut(work, i, x, y) /\ rejected' = rejected
    BY <1>2, <1>8, <2>1 DEF Rejected, isolate_unprocessable, Cut
  <2>3. m \in 0 .. Len(p)
    BY <1>3, <2>1
  <2>4. /\ SubSeq(p, 1, m) \in Seq(Points) /\ SubSeq(p, m + 1, Len(p)) \in Seq(Points)
        /\ p = Cat(SubSeq(p, 1, m), SubSeq(p, m + 1, Len(p)))
    BY <1>3, <2>3, CutAt
  <2>5. x \in Pieces /\ y \in Pieces /\ Cat(x.pts, y.pts) = p
    <3>1. /\ x \in Pieces /\ x.pts = SubSeq(p, 1, m)
          /\ y \in Pieces /\ y.pts = SubSeq(p, m + 1, Len(p))
      BY <1>3, <2>1, <2>4 DEF Pieces
    <3> QED
      BY <2>4, <3>1
  <2>6. work' \in Seq(Pieces) /\ Flat(work') = Cat(a, Cat(p, e))
    BY <1>4, <2>2, <2>5
  <2>7. Books(closing, produced, Flat(work'), buffer, ok', written, rejected', dropped, stored')
    <3>1. Books(closing, produced, Flat(work'), buffer, ok', written, rejected', dropped, stored)
      BY <1>5, <1>6, <2>2, <2>6
    <3> QED
      BY <1>6, <3>1, BooksMore
  <2> QED
    BY <1>1, <1>6, <2>2, <2>6, <2>7, AnswerKeeps DEF TypeOK
<1> QED
  BY <1>7, <1>8

LEMMA FinishKeeps == ASSUME ExporterInv, FinishFlush PROVE ExporterInv'
<1>1. TypeOK /\ Balanced
  BY DEF ExporterInv
<1>2. RetryPoints = Flat(work)
  BY DEF RetryPoints, Flat, PtsOf
<1>3. PICK q : q = Cat(Flat(work), buffer)
  OBVIOUS
<1>4. q \in Seq(Points)
      /\ Books(closing, produced, << >>, q, 0, written + ok, rejected, dropped, stored)
  BY <1>1, <1>3, HeldTypes, BooksJoin DEF Balanced
<1>5. Books(closing, produced, << >>, Newest(q), 0, written + ok, rejected,
            Cat(dropped, Overflow(q)), stored)
  <2>1. << >> \in Seq(Points) /\ written + ok \in Nat /\ 0 \in Nat
    BY <1>1, HeldTypes
  <2> QED
    BY <1>1, <1>4, <2>1, HeldTypes, BooksFill
<1>6. buffer' = Newest(q) /\ dropped' = Cat(dropped, Overflow(q))
  BY <1>2, <1>3 DEF FinishFlush, re_add_points, SetBuffer, Cat
<1>7. /\ Newest(q) \in Seq(Points) /\ Len(Newest(q)) <= MaxBuffer
      /\ Cat(dropped, Overflow(q)) \in Seq(Points)
  BY <1>1, <1>4, HeldTypes, NewestKept, CatType, ExporterAssumption
<1>8. /\ work' = << >> /\ ok' = 0 /\ written' = written + ok
      /\ UNCHANGED <<produced, closing, api, rejected, server, stored>>
  BY DEF FinishFlush, external
<1>9. failures' \in Nat /\ pc' \in Pcs /\ pc' # "write"
  BY <1>1 DEF FinishFlush, FailureCount, LoopHead, Pcs, TypeOK
<1>10. TypeOK'
  <2>1. << >> \in Seq(Pieces)
    OBVIOUS
  <2> QED
    BY <1>1, <1>6, <1>7, <1>8, <1>9, <2>1 DEF TypeOK
<1>11. HeldByFlush'
  BY <1>8 DEF HeldByFlush
<1>12. Balanced'
  BY <1>5, <1>6, <1>8, FlatEmpty DEF Balanced
<1> QED
  BY <1>10, <1>11, <1>12 DEF ExporterInv

LEMMA CloseKeeps == ASSUME ExporterInv, close PROVE ExporterInv'
<1>1. TypeOK /\ Balanced
  BY DEF ExporterInv
<1>2. Books(TRUE, produced, << >>, buffer, 0, written, rejected, dropped, stored)
  BY <1>1, HeldTypes, BooksClose DEF Balanced
<1>3. TypeOK'
  <2>1. << >> \in Seq(Pieces)
    OBVIOUS
  <2> QED
    BY <1>1, <2>1 DEF TypeOK, close, Pcs, counters, external
<1>4. Balanced'
  BY <1>2, FlatEmpty DEF Balanced, close, counters, external
<1>5. HeldByFlush'
  BY DEF close, HeldByFlush
<1> QED
  BY <1>3, <1>4, <1>5 DEF ExporterInv

LEMMA NextExporter == ExporterInv /\ [Next]_vars => ExporterInv'
<1> SUFFICES ASSUME ExporterInv, [Next]_vars PROVE ExporterInv'
  OBVIOUS
<1>1. TypeOK
  BY DEF ExporterInv
<1>2. CASE connect
  BY <1>1, <1>2, QuietKeeps DEF connect, TypeOK, Pcs, counters, external
<1>3. ASSUME NEW n \in 1 .. MaxWrite, write(n) PROVE ExporterInv'
  BY <1>3, WriteKeeps
<1>4. CASE Wake
  BY <1>1, <1>4, FlushKeeps DEF Wake, TypeOK
<1>5. CASE Reconnect
  BY <1>5, FlushKeeps DEF Reconnect
<1>6. CASE Attempt
  <2>1. PICK i \in 1 .. Len(work) : write_or_bisect(i)
    BY <1>6 DEF Attempt
  <2>2. Answers(i)
    BY <1>6 DEF Attempt, Answers
  <2> QED
    BY <2>1, <2>2, AcceptedKeeps, RejectedKeeps, FailedKeeps DEF write_or_bisect
<1>7. CASE FinishFlush
  BY <1>7, FinishKeeps
<1>8. CASE force_reset_connection
  BY <1>1, <1>8, QuietKeeps DEF force_reset_connection, LoopHead, TypeOK, Pcs, counters, external
<1>9. CASE close
  BY <1>9, CloseKeeps
<1>10. CASE FinalFlush
  BY <1>1, <1>10, FlushKeeps DEF FinalFlush, TypeOK
<1>11. ASSUME NEW s \in ServerStates, ServerChanges(s) PROVE ExporterInv'
  BY <1>1, <1>11, QuietKeeps DEF ServerChanges, TypeOK, Pcs, counters
<1>12. CASE Closed \/ UNCHANGED vars
  BY <1>1, <1>12, QuietKeeps DEF Closed, vars, TypeOK, counters
<1> QED
  BY <1>2, <1>3, <1>4, <1>5, <1>6, <1>7, <1>8, <1>9, <1>10, <1>11, <1>12 DEF Next

-----------------------------------------------------------------------------
(* The theorems.                                                           *)

\* In every reachable state the points of the running flush and of the buffer
\* are in order and the counters account for all points (_flush_buffer,
\* _isolate_unprocessable, _re_add_points, write).
THEOREM ExporterInvariance == Spec => []ExporterInv
BY InitExporter, NextExporter, PTL DEF Spec

LEMMA HeldPoints ==
    ASSUME ExporterInv
    PROVE  RetryPoints = Flat(work) /\ ToSet(Flat(work)) = InFlight
<1>1. RetryPoints = Flat(work)
  BY DEF RetryPoints, Flat, PtsOf
<1>2. work \in Seq(Pieces)
  BY DEF ExporterInv, TypeOK
<1> QED
  BY <1>1, <1>2, FlatType DEF InFlight

\* Every point handed to write is counted exactly once until close() is called,
\* whatever InfluxDB answers (write, _flush_buffer, _re_add_points).
THEOREM BooksBalance == Spec => []Accounting
<1>1. ASSUME ExporterInv PROVE Accounting
  BY <1>1, HeldPoints DEF ExporterInv, Balanced, Books, Accounting
<1> QED
  BY <1>1, ExporterInvariance, PTL

\* Until close() is called, a point that no longer waits has been stored or is
\* counted as rejected or dropped (_flush_buffer, _re_add_points).
THEOREM PointsNotLost == Spec => []NoSilentLoss
<1>1. ASSUME ExporterInv PROVE NoSilentLoss
  BY <1>1, HeldPoints DEF ExporterInv, Balanced, Books, NoSilentLoss
<1> QED
  BY <1>1, ExporterInvariance, PTL

\* The bisection of a rejected batch ends at the offending points only, for
\* batches of every size and any number of bad points (_isolate_unprocessable).
THEOREM GoodPointsNotRejected == Spec => []OnlyBadRejected
<1>1. ASSUME ExporterInv PROVE OnlyBadRejected
  BY <1>1 DEF ExporterInv, Balanced, Books, OnlyBadRejected
<1> QED
  BY <1>1, ExporterInvariance, PTL

\* What waits is in the order of production, so that an overflow drops the
\* oldest points, however batches fail, are bisected and put back
\* (_flush_buffer, _re_add_points).
THEOREM OrderKept == Spec => []InOrder
<1>1. ASSUME ExporterInv PROVE InOrder
  BY <1>1, HeldPoints DEF ExporterInv, Balanced, Books, Increasing, Cat, InOrder
<1> QED
  BY <1>1, ExporterInvariance, PTL

-----------------------------------------------------------------------------
(* Finite sets: induction, a bound, a highest score, the size of a union.  *)

\* Induction over the subsets of a finite set.
LEMMA SetInduction ==
    ASSUME NEW S, IsFiniteSet(S), NEW T, {} \in T,
           \A s \in SUBSET S, x \in S : s \in T /\ x \notin s => s \cup {x} \in T
    PROVE  S \in T
<1> SUFFICES ASSUME S \notin T PROVE FALSE
  OBVIOUS
<1>1. PICK Z : Z = (SUBSET S) \ T
  OBVIOUS
<1>2. PICK z \in Z : \A y \in Z : ~(<<y, z>> \in StrictSubsetOrdering(S))
  <2>1. Z \subseteq FiniteSubsetsOf(S) /\ Z # {}
    BY <1>1, FS_FiniteSubsetsOfFinite
  <2>2. IsWellFoundedOn(StrictSubsetOrdering(S), FiniteSubsetsOf(S))
    BY FS_StrictSubsetOrderingWellFounded
  <2> QED
    BY <2>1, <2>2, WFMin, Zenon
<1>3. PICK x \in z : TRUE
  BY <1>1, <1>2
<1>4. PICK y : y = z \ {x}
  OBVIOUS
<1>5. y \in SUBSET S /\ z \in SUBSET S /\ x \in S /\ x \notin y /\ y \cup {x} = z /\ z \notin T
  BY <1>1, <1>3, <1>4
<1>6. <<y, z>> \in StrictSubsetOrdering(S)
  <2>1. y \subseteq z /\ y # z
    BY <1>3, <1>4
  <2> QED
    BY <1>5, <2>1 DEF StrictSubsetOrdering
<1>7. y \in T
  BY <1>1, <1>2, <1>5, <1>6
<1> QED
  BY <1>5, <1>7

\* A finite set of numbers has a bound.
LEMMA Bounded ==
    ASSUME NEW S, IsFiniteSet(S), S \subseteq Nat
    PROVE  \E b \in Nat : \A t \in S : t < b
<1> DEFINE T == {s \in SUBSET S : \E b \in Nat : \A t \in s : t < b}
<1>1. {} \in T
  OBVIOUS
<1>2. ASSUME NEW s \in SUBSET S, NEW x \in S, s \in T PROVE s \cup {x} \in T
  <2>1. PICK b \in Nat : \A t \in s : t < b
    BY <1>2
  <2>2. PICK e : e = IF x < b THEN b ELSE x + 1
    OBVIOUS
  <2>3. x \in Nat /\ e \in Nat /\ x < e /\ b <= e
    BY <2>2
  <2>4. \A t \in s \cup {x} : t < e
    BY <2>1, <2>3
  <2> QED
    BY <2>3, <2>4
<1>3. S \in T
  <2> HIDE DEF T
  <2> QED
    BY <1>1, <1>2, SetInduction
<1> QED
  BY <1>3

\* One of finitely many collectors has the highest score.
LEMMA BestExists ==
    ASSUME NEW S, IsFiniteSet(S), S # {}, NEW f, \A c \in S : f[c] \in Nat
    PROVE  \E c \in S : \A d \in S : f[c] >= f[d]
<1> DEFINE T == {s \in SUBSET S : s # {} => \E c \in s : \A d \in s : f[c] >= f[d]}
<1>1. {} \in T
  OBVIOUS
<1>2. ASSUME NEW s \in SUBSET S, NEW x \in S, s \in T PROVE s \cup {x} \in T
  <2>1. CASE s = {}
    <3>1. s \cup {x} = {x} /\ f[x] >= f[x]
      BY <2>1
    <3> QED
      BY <3>1
  <2>2. CASE s # {}
    <3>1. PICK c \in s : \A d \in s : f[c] >= f[d]
      BY <1>2, <2>2
    <3>2. PICK e : e = IF f[c] >= f[x] THEN c ELSE x
      OBVIOUS
    <3>3. f[c] \in Nat /\ f[x] \in Nat /\ e \in s \cup {x} /\ f[e] >= f[x] /\ f[e] >= f[c] /\ f[e] \in Nat
      BY <3>2
    <3>4. \A d \in s \cup {x} : f[e] >= f[d]
      BY <3>1, <3>3
    <3> QED
      BY <3>3, <3>4
  <2> QED
    BY <2>1, <2>2
<1>3. S \in T
  <2> HIDE DEF T
  <2> QED
    BY <1>1, <1>2, SetInduction
<1> QED
  BY <1>3

\* The size of a union of sets that have no member in common.
Disjoint(L, F) == \A c, d \in L : c # d => F[c] \cap F[d] = {}
UnionOf(F, s) == UNION {F[c] : c \in s}

LEMMA FamilySize ==
    ASSUME NEW L, IsFiniteSet(L), NEW F, Disjoint(L, F), NEW k \in Nat,
           \A c \in L : IsFiniteSet(F[c]) /\ Cardinality(F[c]) <= k
    PROVE  /\ IsFiniteSet(UnionOf(F, L)) /\ Cardinality(UnionOf(F, L)) <= Cardinality(L) * k
           /\ (\A c \in L : Cardinality(F[c]) = k) => Cardinality(UnionOf(F, L)) = Cardinality(L) * k
<1> DEFINE Sized(s) == /\ IsFiniteSet(UnionOf(F, s)) /\ Cardinality(UnionOf(F, s)) <= Cardinality(s) * k
                       /\ (\A c \in s : Cardinality(F[c]) = k)
                             => Cardinality(UnionOf(F, s)) = Cardinality(s) * k
           T == {s \in SUBSET L : Sized(s)}
<1>1. {} \in T
  <2>1. UnionOf(F, {}) = {}
    BY DEF UnionOf
  <2>2. IsFiniteSet({}) /\ Cardinality({}) = 0 /\ 0 * k = 0 /\ 0 <= 0
    BY FS_EmptySet
  <2>3. Sized({})
    BY <2>1, <2>2
  <2> HIDE DEF Sized
  <2> QED
    BY <2>3
<1>2. ASSUME NEW s \in SUBSET L, NEW x \in L, s \in T, x \notin s PROVE s \cup {x} \in T
  <2>1. PICK u, m, n, z : /\ u = UnionOf(F, s) /\ m = Cardinality(s)
                          /\ n = Cardinality(u) /\ z = Cardinality(F[x])
    OBVIOUS
  <2>2. IsFiniteSet(u) /\ n <= m * k /\ ((\A c \in s : Cardinality(F[c]) = k) => n = m * k)
    BY <1>2, <2>1
  <2>3. IsFiniteSet(s) /\ m \in Nat /\ n \in Nat /\ z \in Nat /\ z <= k
    <3>1. IsFiniteSet(s)
      BY FS_Subset
    <3> QED
      BY <2>1, <2>2, <3>1, FS_CardinalityType
  <2>4. Cardinality(s \cup {x}) = m + 1
    BY <1>2, <2>1, <2>3, FS_AddElement
  <2>5. UnionOf(F, s \cup {x}) = u \cup F[x]
    BY <2>1 DEF UnionOf
  <2>6. u \cap F[x] = {}
    BY <1>2, <2>1 DEF UnionOf, Disjoint
  <2>7. IsFiniteSet(u \cup F[x]) /\ Cardinality(u \cup F[x]) = n + z
    <3>1. Cardinality(u \cap F[x]) = 0
      BY <2>6, FS_EmptySet
    <3>2. IsFiniteSet(F[x])
      OBVIOUS
    <3>3. IsFiniteSet(u \cup F[x])
          /\ Cardinality(u \cup F[x]) = Cardinality(u) + Cardinality(F[x]) - Cardinality(u \cap F[x])
      BY <2>2, <3>2, FS_Union
    <3> QED
      BY <2>1, <2>3, <3>1, <3>3
  <2>8. (m + 1) * k = m * k + k /\ m * k \in Nat
    BY <2>3
  <2>9. n + z <= (m + 1) * k
    BY <2>2, <2>3, <2>8
  <2>10. ASSUME \A c \in s \cup {x} : Cardinality(F[c]) = k PROVE n + z = (m + 1) * k
    BY <2>1, <2>2, <2>3, <2>8, <2>10
  <2>11. Sized(s \cup {x})
    BY <2>4, <2>5, <2>7, <2>9, <2>10
  <2> HIDE DEF Sized
  <2> QED
    BY <2>11
<1>3. L \in T
  <2> HIDE DEF T
  <2> QED
    BY <1>1, <1>2, SetInduction
<1> QED
  BY <1>3

-----------------------------------------------------------------------------
(* What allocate computes: the fold, one target after the other.           *)

\* The targets with an id below n.
IdsBelow(T, n) == {t \in T : t < n}

\* The function that allocate folds with, for the subsets of T.
Served(it, s, L, cap) == IF s = {} THEN << >> ELSE Place(it[s \ {Max(s)}], Max(s), L, cap)

Folds(T, L, cap, it) == it = [s \in SUBSET T |-> Served(it, s, L, cap)]

LEMMA MaxIs ==
    ASSUME NEW s, s \subseteq Nat, NEW n \in s, \A m \in s : m <= n
    PROVE  Max(s) = n
<1>1. \A y \in s : n >= y
  OBVIOUS
<1>2. Max(s) \in s /\ \A y \in s : Max(s) >= y
  BY <1>1 DEF Max
<1>3. Max(s) \in Nat /\ n \in Nat /\ Max(s) <= n /\ Max(s) >= n
  BY <1>2
<1> QED
  BY <1>3

LEMMA IdsBelowZero == ASSUME NEW T, T \subseteq Nat PROVE IdsBelow(T, 0) = {}
<1>1. \A t \in T : t \in Nat /\ ~(t < 0)
  OBVIOUS
<1> QED
  BY <1>1 DEF IdsBelow

LEMMA IdsBelowStep ==
    ASSUME NEW T, T \subseteq Nat, NEW n \in Nat
    PROVE  /\ IdsBelow(T, n) \subseteq Nat /\ IdsBelow(T, n) \subseteq T /\ n \notin IdsBelow(T, n)
           /\ \A m \in IdsBelow(T, n + 1) : m <= n
           /\ n \in T => IdsBelow(T, n + 1) = IdsBelow(T, n) \cup {n}
           /\ n \notin T => IdsBelow(T, n + 1) = IdsBelow(T, n)
<1>1. \A t \in T : t \in Nat /\ (t < n + 1 <=> t < n \/ t = n) /\ (t < n + 1 => t <= n) /\ ~(n < n)
  OBVIOUS
<1>2. IdsBelow(T, n) \subseteq Nat /\ IdsBelow(T, n) \subseteq T /\ n \notin IdsBelow(T, n)
  BY <1>1 DEF IdsBelow
<1>3. \A m \in IdsBelow(T, n + 1) : m <= n
  BY <1>1 DEF IdsBelow
<1>4. /\ n \in T => \A x : x \in IdsBelow(T, n + 1) <=> x \in IdsBelow(T, n) \cup {n}
      /\ n \notin T => \A x : x \in IdsBelow(T, n + 1) <=> x \in IdsBelow(T, n)
  BY <1>1 DEF IdsBelow
<1> QED
  BY <1>2, <1>3, <1>4

LEMMA FoldsAt ==
    ASSUME NEW T, NEW L, NEW cap, NEW it, Folds(T, L, cap, it)
    PROVE  \A s \in SUBSET T : it[s] = Served(it, s, L, cap)
BY DEF Folds

LEMMA FoldsFrom ==
    ASSUME NEW T, NEW L, NEW cap, NEW it, it = [s \in SUBSET T |-> it[s]],
           \A s \in SUBSET T : it[s] = Served(it, s, L, cap)
    PROVE  Folds(T, L, cap, it)
BY DEF Folds

LEMMA FoldExists ==
    ASSUME NEW T, T \subseteq Nat, IsFiniteSet(T), NEW L, NEW cap
    PROVE  \E it : Folds(T, L, cap, it)
<1> DEFINE I == {n \in Nat : \E it : Folds(IdsBelow(T, n), L, cap, it)}
<1>1. 0 \in I
  <2>1. IdsBelow(T, 0) = {}
    BY IdsBelowZero
  <2>2. PICK it : it = [s \in SUBSET {} |-> << >>]
    OBVIOUS
  <2>3. \A s \in SUBSET {} : it[s] = Served(it, s, L, cap)
    BY <2>2 DEF Served
  <2>4. it = [s \in SUBSET {} |-> it[s]]
    BY <2>2
  <2>5. Folds({}, L, cap, it)
    BY <2>3, <2>4, FoldsFrom
  <2> QED
    BY <2>1, <2>5
<1>2. ASSUME NEW n \in Nat, n \in I PROVE n + 1 \in I
  <2>1. PICK B, C : B = IdsBelow(T, n) /\ C = IdsBelow(T, n + 1)
    OBVIOUS
  <2>2. PICK it : Folds(B, L, cap, it)
    BY <1>2, <2>1
  <2>3. PICK g : g = [s \in SUBSET C |-> IF n \in s THEN Place(it[s \ {n}], n, L, cap) ELSE it[s]]
    OBVIOUS
  <2>4. g = [s \in SUBSET C |-> g[s]]
    BY <2>3
  <2>5. \A s \in SUBSET C : g[s] = IF n \in s THEN Place(it[s \ {n}], n, L, cap) ELSE it[s]
    BY <2>3
  <2>6. \A s \in SUBSET C : /\ s \ {n} \in SUBSET B
                            /\ n \notin s => s \in SUBSET B
                            /\ n \in s => \A m \in s : m \in Nat /\ m <= n
    BY <2>1 DEF IdsBelow
  <2>7. ASSUME NEW s \in SUBSET C
        PROVE  g[s] = Served(g, s, L, cap)
    <3>1. CASE n \in s
      <4>1. s \subseteq Nat
        BY <2>1 DEF IdsBelow
      <4>2. Max(s) = n
        BY <2>6, <3>1, <4>1, MaxIs
      <4>3. s \ {n} \in SUBSET C /\ n \notin s \ {n}
        OBVIOUS
      <4>4. g[s \ {n}] = it[s \ {n}]
        BY <2>5, <4>3
      <4>5. g[s] = Place(it[s \ {n}], n, L, cap)
        BY <2>5, <3>1
      <4> QED
        BY <3>1, <4>2, <4>4, <4>5 DEF Served
    <3>2. CASE n \notin s
      <4>1. PICK r : r = s \ {Max(s)}
        OBVIOUS
      <4>2. r \in SUBSET C /\ n \notin r /\ s \in SUBSET B
        BY <2>6, <3>2, <4>1
      <4>3. g[r] = it[r] /\ g[s] = it[s]
        BY <2>5, <3>2, <4>2
      <4>4. it[s] = Served(it, s, L, cap)
        BY <2>2, <4>2, FoldsAt
      <4> QED
        BY <4>1, <4>3, <4>4 DEF Served
    <3> QED
      BY <3>1, <3>2
  <2>8. Folds(C, L, cap, g)
    BY <2>4, <2>7, FoldsFrom
  <2> QED
    BY <2>1, <2>8
<1>3. PICK b \in Nat : \A t \in T : t < b
  BY Bounded
<1>4. IdsBelow(T, b) = T
  BY <1>3 DEF IdsBelow
<1>5. b \in I
  <2> HIDE DEF I
  <2>1. Nat \subseteq I
    BY <1>1, <1>2, Induction
  <2> QED
    BY <2>1
<1> QED
  BY <1>4, <1>5

\* allocate serves the targets one after the other: P[n] is the placement of
\* those with an id below n.
Serves(T, L, cap, P) ==
    /\ P[0] = << >>
    /\ \A n \in Nat : P[n + 1] = IF n \in T THEN Place(P[n], n, L, cap) ELSE P[n]
    /\ \E b \in Nat : (\A t \in T : t < b) /\ P[b] = allocate(T, L, cap)

LEMMA AllocateServes ==
    ASSUME NEW T, T \subseteq Nat, IsFiniteSet(T), NEW L, NEW cap
    PROVE  \E P : Serves(T, L, cap, P)
<1>1. PICK it : it = (CHOOSE f : Folds(T, L, cap, f))
  OBVIOUS
<1>2. \A s \in SUBSET T : it[s] = Served(it, s, L, cap)
  <2>1. Folds(T, L, cap, it)
    BY <1>1, FoldExists
  <2> QED
    BY <2>1 DEF Folds
<1>3. allocate(T, L, cap) = it[T]
  BY <1>1 DEF allocate, MapThenFoldSet, Folds, Served
<1>4. PICK P : P = [n \in Nat |-> it[IdsBelow(T, n)]]
  OBVIOUS
<1>5. P[0] = << >>
  <2>1. IdsBelow(T, 0) = {} /\ {} \in SUBSET T
    BY IdsBelowZero
  <2>2. it[{}] = Served(it, {}, L, cap)
    BY <1>2, <2>1
  <2> QED
    BY <1>4, <2>1, <2>2 DEF Served
<1>6. ASSUME NEW n \in Nat PROVE P[n + 1] = IF n \in T THEN Place(P[n], n, L, cap) ELSE P[n]
  <2>1. PICK B, C : B = IdsBelow(T, n) /\ C = IdsBelow(T, n + 1)
    OBVIOUS
  <2>2. P[n] = it[B] /\ P[n + 1] = it[C]
    BY <1>4, <2>1
  <2>5. /\ n \in T => IdsBelow(T, n + 1) = IdsBelow(T, n) \cup {n}
        /\ n \notin T => IdsBelow(T, n + 1) = IdsBelow(T, n)
    BY IdsBelowStep
  <2>6. C = IF n \in T THEN B \cup {n} ELSE B
    BY <2>1, <2>5
  <2>7. /\ IdsBelow(T, n) \subseteq Nat /\ IdsBelow(T, n) \subseteq T /\ n \notin IdsBelow(T, n)
        /\ \A m \in IdsBelow(T, n + 1) : m <= n
    BY IdsBelowStep
  <2>8. B \subseteq Nat /\ B \subseteq T /\ n \notin B /\ \A m \in C : m <= n
    BY <2>1, <2>7
  <2>3. CASE n \in T
    <3>1. n \in C /\ C \subseteq Nat /\ C \in SUBSET T /\ \A m \in C : m <= n
      <4>1. C = B \cup {n}
        BY <2>3, <2>6
      <4> QED
        BY <2>3, <2>8, <4>1
    <3>2. Max(C) = n
      BY <3>1, MaxIs
    <3>3. C \ {n} = B
      <4>1. C = B \cup {n} /\ n \notin B
        BY <2>3, <2>6, <2>8
      <4> QED
        BY <4>1
    <3>4. it[C] = Served(it, C, L, cap)
      <4>1. C \in SUBSET T
        BY <3>1
      <4> QED
        BY <1>2, <4>1
    <3>5. C # {}
      BY <3>1
    <3>6. it[C] = Place(it[B], n, L, cap)
      BY <3>2, <3>3, <3>4, <3>5 DEF Served
    <3> QED
      BY <2>2, <2>3, <3>6
  <2>4. CASE n \notin T
    <3>1. B = C
      BY <2>4, <2>6
    <3> QED
      BY <2>2, <2>4, <3>1
  <2> QED
    BY <2>3, <2>4
<1>7. PICK b \in Nat : \A t \in T : t < b
  BY Bounded
<1>8. P[b] = allocate(T, L, cap)
  <2>1. IdsBelow(T, b) = T
    BY <1>7 DEF IdsBelow
  <2> QED
    BY <1>3, <1>4, <2>1
<1> QED
  BY <1>5, <1>6, <1>7, <1>8 DEF Serves

\* The targets that the placement p gives to collector c.
Held(p, c) == {t \in DOMAIN p : p[t] = c}

\* What holds once the targets with an id below n are served.
Placed(T, L, cap, n, p) ==
    /\ DOMAIN p \subseteq IdsBelow(T, n)
    /\ \A t \in DOMAIN p : p[t] \in L
    /\ \A c \in L : IsFiniteSet(Held(p, c)) /\ Cardinality(Held(p, c)) <= cap
    /\ \A t \in IdsBelow(T, n), d \in L :
          \/ t \in DOMAIN p /\ score[t, p[t]] >= score[t, d]
          \/ Cardinality({u \in Held(p, d) : u < t}) = cap

\* Every weight is a number.
Scores(T, L) == \A t \in T, c \in L : score[t, c] \in Nat

LEMMA PreferredIs ==
    ASSUME NEW T, NEW L, IsFiniteSet(L), Scores(T, L), NEW t \in T, NEW room, room \subseteq L, room # {}
    PROVE  Preferred(t, room) \in room /\ \A d \in room : score[t, Preferred(t, room)] >= score[t, d]
<1>1. PICK f : f = [c \in room |-> score[t, c]]
  OBVIOUS
<1>2. \A c \in room : f[c] = score[t, c] /\ f[c] \in Nat
  BY <1>1 DEF Scores
<1>3. IsFiniteSet(room)
  BY FS_Subset
<1>4. \E c \in room : \A d \in room : f[c] >= f[d]
  BY <1>2, <1>3, BestExists
<1>5. \E c \in room : \A d \in room : score[t, c] >= score[t, d]
  BY <1>2, <1>4
<1> QED
  BY <1>5 DEF Preferred

\* Collector d holds its limit, all of it targets with an id below n.
FullOf(p, d, cap, n) == Cardinality(Held(p, d)) = cap /\ {u \in Held(p, d) : u < n} = Held(p, d)

LEMMA NoRoom ==
    ASSUME NEW T, T \subseteq Nat, NEW L, NEW cap \in Nat, NEW n \in Nat, NEW p, Placed(T, L, cap, n, p),
           NEW d \in L, d \notin WithRoom(p, L, cap)
    PROVE  FullOf(p, d, cap, n)
<1>1. IsFiniteSet(Held(p, d)) /\ Cardinality(Held(p, d)) <= cap
  BY DEF Placed
<1>2. Cardinality(Held(p, d)) \in Nat
  BY <1>1, FS_CardinalityType
<1>3. ~(Cardinality(Held(p, d)) < cap)
  BY DEF WithRoom, Held
<1>4. Cardinality(Held(p, d)) = cap
  BY <1>1, <1>2, <1>3
<1>5. \A u \in Held(p, d) : u < n
  BY DEF Held, Placed, IdsBelow
<1> QED
  BY <1>4, <1>5 DEF FullOf

LEMMA SkipKeeps ==
    ASSUME NEW T, T \subseteq Nat, NEW L, NEW cap \in Nat, NEW n \in T, NEW p, Placed(T, L, cap, n, p),
           WithRoom(p, L, cap) = {}
    PROVE  Placed(T, L, cap, n + 1, p)
<1>1. n \in Nat /\ IdsBelow(T, n + 1) = IdsBelow(T, n) \cup {n}
  BY IdsBelowStep
<1>2. ASSUME NEW t \in IdsBelow(T, n + 1), NEW d \in L
      PROVE  \/ t \in DOMAIN p /\ score[t, p[t]] >= score[t, d]
             \/ Cardinality({u \in Held(p, d) : u < t}) = cap
  <2>1. CASE t = n
    <3>1. FullOf(p, d, cap, n)
      <4>1. n \in Nat /\ d \notin WithRoom(p, L, cap)
        BY <1>1
      <4> QED
        BY <4>1, NoRoom
    <3> QED
      BY <2>1, <3>1 DEF FullOf
  <2>2. CASE t \in IdsBelow(T, n)
    BY <2>2 DEF Placed
  <2> QED
    BY <1>1, <2>1, <2>2
<1>3. DOMAIN p \subseteq IdsBelow(T, n + 1)
  BY <1>1 DEF Placed
<1> QED
  BY <1>2, <1>3 DEF Placed

LEMMA AssignKeeps ==
    ASSUME NEW T, T \subseteq Nat, NEW L, IsFiniteSet(L), Scores(T, L), NEW cap \in Nat, NEW n \in T,
           NEW p, Placed(T, L, cap, n, p), WithRoom(p, L, cap) # {}
    PROVE  Placed(T, L, cap, n + 1, Place(p, n, L, cap))
<1>0. PICK room, a, q : /\ room = WithRoom(p, L, cap)
                        /\ a = Preferred(n, room)
                        /\ q = [u \in DOMAIN p \cup {n} |-> IF u = n THEN a ELSE p[u]]
  OBVIOUS
<1>1. n \in Nat /\ IdsBelow(T, n + 1) = IdsBelow(T, n) \cup {n} /\ n \notin IdsBelow(T, n)
  BY IdsBelowStep
<1>2. room \subseteq L
  BY <1>0 DEF WithRoom
<1>3. a \in room /\ a \in L /\ \A d \in room : score[n, a] >= score[n, d]
  <2>1. room # {}
    BY <1>0
  <2> QED
    BY <1>0, <1>2, <2>1, PreferredIs
<1>4. DOMAIN q = DOMAIN p \cup {n} /\ q[n] = a /\ \A u \in DOMAIN p : u # n => q[u] = p[u]
  BY <1>0
<1>5. DOMAIN p \subseteq IdsBelow(T, n) /\ n \notin DOMAIN p
  BY <1>1 DEF Placed
<1>6. \A u \in DOMAIN p : q[u] = p[u] /\ p[u] \in L
  BY <1>4, <1>5 DEF Placed
<1>7. Held(q, a) = Held(p, a) \cup {n} /\ n \notin Held(p, a)
  BY <1>4, <1>5, <1>6 DEF Held
<1>8. \A d : d # a => Held(q, d) = Held(p, d)
  BY <1>4, <1>5, <1>6 DEF Held
<1>9. ASSUME NEW c \in L PROVE IsFiniteSet(Held(q, c)) /\ Cardinality(Held(q, c)) <= cap
  <2>1. IsFiniteSet(Held(p, c)) /\ Cardinality(Held(p, c)) <= cap
    BY DEF Placed
  <2>2. CASE c = a
    <3>1. Cardinality(Held(p, c)) < cap
      BY <1>0, <1>3, <2>2 DEF WithRoom, Held
    <3>2. Cardinality(Held(p, c)) \in Nat
      BY <2>1, FS_CardinalityType
    <3>3. IsFiniteSet(Held(p, c) \cup {n}) /\ Cardinality(Held(p, c) \cup {n}) = Cardinality(Held(p, c)) + 1
      BY <1>7, <2>1, <2>2, FS_AddElement
    <3>4. Cardinality(Held(p, c)) + 1 <= cap
      BY <3>1, <3>2
    <3> QED
      BY <1>7, <2>2, <3>3, <3>4
  <2>3. CASE c # a
    BY <1>8, <2>1, <2>3
  <2> QED
    BY <2>2, <2>3
<1>10. ASSUME NEW t \in IdsBelow(T, n + 1), NEW d \in L
       PROVE  \/ t \in DOMAIN q /\ score[t, q[t]] >= score[t, d]
              \/ Cardinality({u \in Held(q, d) : u < t}) = cap
  <2>1. CASE t = n
    <3>1. CASE d \in room
      BY <1>3, <1>4, <2>1, <3>1
    <3>2. CASE d \notin room
      <4>1. FullOf(p, d, cap, n)
        <5>1. n \in Nat /\ d \notin WithRoom(p, L, cap)
          BY <1>0, <1>1, <3>2
        <5> QED
          BY <5>1, NoRoom
      <4>2. Held(q, d) = Held(p, d)
        BY <1>3, <1>8, <3>2
      <4> QED
        BY <2>1, <4>1, <4>2 DEF FullOf
    <3> QED
      BY <3>1, <3>2
  <2>2. CASE t \in IdsBelow(T, n)
    <3>1. t \in Nat /\ ~(n < t)
      BY <1>1, <2>2 DEF IdsBelow
    <3>2. {u \in Held(q, d) : u < t} = {u \in Held(p, d) : u < t}
      <4>1. CASE d = a
        BY <1>7, <3>1, <4>1
      <4>2. CASE d # a
        BY <1>8, <4>2
      <4> QED
        BY <4>1, <4>2
    <3>3. \/ t \in DOMAIN p /\ score[t, p[t]] >= score[t, d]
          \/ Cardinality({u \in Held(p, d) : u < t}) = cap
      BY <2>2 DEF Placed
    <3> QED
      BY <1>4, <1>6, <3>2, <3>3
  <2> QED
    BY <1>1, <2>1, <2>2
<1>11. DOMAIN q \subseteq IdsBelow(T, n + 1) /\ \A t \in DOMAIN q : q[t] \in L
  BY <1>1, <1>3, <1>4, <1>5, <1>6
<1>12. Placed(T, L, cap, n + 1, q)
  BY <1>9, <1>10, <1>11 DEF Placed
<1>13. Place(p, n, L, cap) = q
  BY <1>0 DEF Place
<1> QED
  BY <1>12, <1>13

LEMMA PlaceKeeps ==
    ASSUME NEW T, T \subseteq Nat, NEW L, IsFiniteSet(L), Scores(T, L), NEW cap \in Nat, NEW n \in T,
           NEW p, Placed(T, L, cap, n, p)
    PROVE  Placed(T, L, cap, n + 1, Place(p, n, L, cap))
<1>1. CASE WithRoom(p, L, cap) = {}
  <2>1. Place(p, n, L, cap) = p
    BY <1>1 DEF Place
  <2> QED
    BY <1>1, <2>1, SkipKeeps
<1>2. CASE WithRoom(p, L, cap) # {}
  BY <1>2, AssignKeeps
<1> QED
  BY <1>1, <1>2

LEMMA AllocatePlaces ==
    ASSUME NEW T, T \subseteq Nat, IsFiniteSet(T), NEW L, IsFiniteSet(L), Scores(T, L), NEW cap \in Nat
    PROVE  \E b \in Nat : IdsBelow(T, b) = T /\ Placed(T, L, cap, b, allocate(T, L, cap))
<1>1. PICK P : Serves(T, L, cap, P)
  BY AllocateServes
<1> DEFINE I == {n \in Nat : Placed(T, L, cap, n, P[n])}
<1>2. 0 \in I
  <2>1. P[0] = << >> /\ IdsBelow(T, 0) = {}
    BY <1>1, IdsBelowZero DEF Serves
  <2>2. PICK p : p = P[0]
    OBVIOUS
  <2>3. DOMAIN p = {}
    BY <2>1, <2>2
  <2>4. \A c : Held(p, c) = {}
    BY <2>3 DEF Held
  <2>5. \A c \in L : IsFiniteSet(Held(p, c)) /\ Cardinality(Held(p, c)) <= cap
    BY <2>4, FS_EmptySet
  <2>6. Placed(T, L, cap, 0, p)
    BY <2>1, <2>3, <2>5 DEF Placed
  <2> QED
    BY <2>2, <2>6
<1>3. ASSUME NEW n \in Nat, n \in I PROVE n + 1 \in I
  <2>1. Placed(T, L, cap, n, P[n])
    BY <1>3
  <2>2. CASE n \in T
    <3>1. P[n + 1] = Place(P[n], n, L, cap)
      BY <1>1, <2>2 DEF Serves
    <3>2. Placed(T, L, cap, n + 1, Place(P[n], n, L, cap))
      BY <2>1, <2>2, PlaceKeeps
    <3> QED
      BY <3>1, <3>2
  <2>3. CASE n \notin T
    <3>1. P[n + 1] = P[n]
      BY <1>1, <2>3 DEF Serves
    <3>2. IdsBelow(T, n + 1) = IdsBelow(T, n)
      BY <2>3, IdsBelowStep
    <3>3. Placed(T, L, cap, n + 1, P[n])
      BY <2>1, <3>2 DEF Placed
    <3> QED
      BY <3>1, <3>3
  <2> QED
    BY <2>2, <2>3
<1>4. \A n \in Nat : n \in I
  <2> HIDE DEF I
  <2>1. Nat \subseteq I
    BY <1>2, <1>3, Induction
  <2> QED
    BY <2>1
<1>5. PICK b \in Nat : (\A t \in T : t < b) /\ P[b] = allocate(T, L, cap)
  BY <1>1 DEF Serves
<1>6. Placed(T, L, cap, b, P[b])
  BY <1>4
<1>7. IdsBelow(T, b) = T
  BY <1>5 DEF IdsBelow
<1> QED
  BY <1>5, <1>6, <1>7

-----------------------------------------------------------------------------
(* The limit, and the fleet.                                               *)

LEMMA ProductOrder ==
    ASSUME NEW a \in Nat, NEW b \in Nat, NEW d \in Nat, a <= b
    PROVE  a * d \in Nat /\ b * d \in Nat /\ a * d <= b * d /\ d * a = a * d /\ d * b = b * d
<1>1. a * d <= b * d
  BY ProductGrows
<1> QED
  BY <1>1

\* The limit is at most max_targets_per_shard and the fair share, rounded up, and
\* it is the first where it does not make room for the fleet.
LimitIs(cap, n, d, m) ==
    /\ cap \in Nat /\ cap <= m /\ cap * d < n + d
    /\ cap = m \/ n <= cap * d

LEMMA EffectiveCap ==
    ASSUME NEW n \in Nat, NEW d \in Nat \ {0}, NEW m \in Nat
    PROVE  LimitIs(effective_cap(n, d, m), n, d, m)
<1>1. PICK k, e : k = n + d - 1 /\ e = k \div d
  OBVIOUS
<1>2. k \in Nat /\ k + 1 = n + d
  BY <1>1
<1>3. e \in Nat /\ e * d <= k /\ k < e * d + d
  BY <1>1, <1>2, Division
<1>4. e * d \in Nat /\ d \in Nat /\ ~(d <= 0)
  BY <1>3
<1>5. e * d < n + d /\ n <= e * d
  BY <1>2, <1>3, <1>4
<1>6. effective_cap(n, d, m) = IF m <= e THEN m ELSE e
  BY <1>1, <1>4 DEF effective_cap, CeilDiv
<1>7. CASE m <= e
  <2>1. m * d \in Nat /\ m * d <= e * d
    BY <1>3, <1>4, <1>7, ProductOrder
  <2>2. m * d < n + d
    BY <1>4, <1>5, <2>1
  <2> QED
    BY <1>6, <1>7, <2>2 DEF LimitIs
<1>8. CASE ~(m <= e)
  <2>1. effective_cap(n, d, m) = e /\ e <= m
    BY <1>3, <1>6, <1>8
  <2> QED
    BY <1>3, <1>5, <2>1 DEF LimitIs
<1> QED
  BY <1>7, <1>8

\* The weights of a target are distinct, and the fleet is part of the universe.
FleetInv ==
    /\ targets \subseteq MCTargets
    /\ live \subseteq MCCollectors
    /\ maxPerShard \in Nat
    /\ \A t \in MCTargets, c \in MCCollectors : score[t, c] \in Nat
    /\ \A t \in MCTargets : \A c, d \in MCCollectors : c # d => score[t, c] # score[t, d]

LEMMA InitFleet == AllocInit => FleetInv
<1> SUFFICES ASSUME AllocInit PROVE FleetInv
  OBVIOUS
<1>1. targets \subseteq MCTargets /\ live \subseteq MCCollectors /\ maxPerShard \in Nat
  BY FleetAssumption DEF AllocInit
<1>2. PICK rank \in [MCTargets -> Rankings] :
        score = [tc \in MCTargets \X MCCollectors |-> rank[tc[1]][tc[2]]]
  BY DEF AllocInit
<1>3. \A t \in MCTargets, c \in MCCollectors : score[t, c] = rank[t][c]
  BY <1>2
<1>4. \A t \in MCTargets : rank[t] \in Rankings
  BY <1>2
<1>5. \A r \in Rankings : /\ \A c \in MCCollectors : r[c] \in Nat
                          /\ \A c, d \in MCCollectors : c # d => r[c] # r[d]
  <2>1. N \in Nat
    BY FleetAssumption, FS_CardinalityType DEF N
  <2> QED
    BY <2>1 DEF Rankings
<1>6. ASSUME NEW t \in MCTargets, NEW c \in MCCollectors PROVE score[t, c] \in Nat
  <2>1. rank[t][c] \in Nat
    BY <1>4, <1>5
  <2> QED
    BY <1>3, <2>1
<1>7. ASSUME NEW t \in MCTargets, NEW c \in MCCollectors, NEW d \in MCCollectors, c # d
      PROVE  score[t, c] # score[t, d]
  <2>1. rank[t][c] # rank[t][d]
    BY <1>4, <1>5, <1>7
  <2>2. score[t, c] = rank[t][c] /\ score[t, d] = rank[t][d]
    BY <1>3
  <2> QED
    BY <2>1, <2>2
<1> QED
  BY <1>1, <1>6, <1>7 DEF FleetInv

LEMMA NextFleet == FleetInv /\ [AllocNext]_allocVars => FleetInv'
<1> SUFFICES ASSUME FleetInv, [AllocNext]_allocVars PROVE FleetInv'
  OBVIOUS
<1>1. UNCHANGED <<score, maxPerShard>> /\ targets' \subseteq MCTargets /\ live' \subseteq MCCollectors
  BY DEF AllocNext, JoinFleet, LeaveFleet, Onboard, Deboard, allocVars, FleetInv
<1> QED
  BY <1>1 DEF FleetInv

\* What allocate makes of the fleet.
LEMMA FleetFacts ==
    ASSUME FleetInv
    PROVE  /\ targets \subseteq Nat /\ IsFiniteSet(targets) /\ IsFiniteSet(live)
           /\ Scores(targets, live) /\ Cardinality(targets) \in Nat /\ Cardinality(live) \in Nat
           /\ live # {} => Cardinality(live) \in Nat \ {0}
<1>1. targets \subseteq Nat /\ IsFiniteSet(targets) /\ IsFiniteSet(live)
  BY FleetAssumption, FS_Subset DEF FleetInv
<1>2. Scores(targets, live)
  BY DEF FleetInv, Scores
<1>3. Cardinality(targets) \in Nat /\ Cardinality(live) \in Nat
  BY <1>1, FS_CardinalityType
<1>4. live # {} => Cardinality(live) # 0
  BY <1>1, FS_EmptySet
<1> QED
  BY <1>1, <1>2, <1>3, <1>4

LEMMA CapFacts ==
    ASSUME FleetInv
    PROVE  /\ Cap \in Nat
           /\ live # {} => LimitIs(Cap, Cardinality(targets), Cardinality(live), maxPerShard)
<1>1. PICK n, d : n = Cardinality(targets) /\ d = Cardinality(live)
  OBVIOUS
<1>2. n \in Nat /\ d \in Nat /\ maxPerShard \in Nat
  BY <1>1, FleetFacts DEF FleetInv
<1>3. Cap = effective_cap(n, d, maxPerShard)
  BY <1>1 DEF Cap
<1>4. ASSUME d # 0 PROVE LimitIs(Cap, n, d, maxPerShard)
  <2>1. d \in Nat \ {0}
    BY <1>2, <1>4
  <2> QED
    BY <1>2, <1>3, <2>1, EffectiveCap
<1>5. CASE d = 0
  <2>1. Cap = maxPerShard
    BY <1>3, <1>5 DEF effective_cap
  <2>2. live = {}
    BY <1>1, <1>5, FleetFacts
  <2> QED
    BY <1>2, <2>1, <2>2
<1>6. CASE d # 0
  <2>1. LimitIs(Cap, n, d, maxPerShard)
    BY <1>4, <1>6
  <2>2. Cap \in Nat
    BY <2>1 DEF LimitIs
  <2> QED
    BY <1>1, <2>1, <2>2
<1> QED
  BY <1>5, <1>6

LEMMA SlicesPlaced ==
    ASSUME FleetInv
    PROVE  \E p : /\ \A c : MySlice(c) = Held(p, c)
                  /\ DOMAIN p \subseteq targets
                  /\ \A t \in DOMAIN p : p[t] \in live
                  /\ \A c \in live : IsFiniteSet(Held(p, c)) /\ Cardinality(Held(p, c)) <= Cap
                  /\ \A t \in targets, d \in live :
                        \/ t \in DOMAIN p /\ score[t, p[t]] >= score[t, d]
                        \/ Cardinality({u \in Held(p, d) : u < t}) = Cap
<1>1. PICK cap, p : cap = Cap /\ p = allocate(targets, live, cap)
  OBVIOUS
<1>2. cap \in Nat
  BY <1>1, CapFacts
<1>3. targets \subseteq Nat /\ IsFiniteSet(targets) /\ IsFiniteSet(live) /\ Scores(targets, live)
  BY FleetFacts
<1>4. PICK b \in Nat : IdsBelow(targets, b) = targets /\ Placed(targets, live, cap, b, p)
  <2>1. \E b \in Nat : /\ IdsBelow(targets, b) = targets
                        /\ Placed(targets, live, cap, b, allocate(targets, live, cap))
    BY <1>2, <1>3, AllocatePlaces
  <2> QED
    BY <1>1, <2>1
<1>5. DOMAIN p \subseteq targets
  BY <1>4 DEF Placed
<1>6. \A c : MySlice(c) = Held(p, c)
  BY <1>1, <1>5 DEF MySlice, Slice, Held
<1> QED
  BY <1>1, <1>4, <1>5, <1>6 DEF Placed

-----------------------------------------------------------------------------
(* The properties of the slices.                                           *)

LEMMA WithinCap == FleetInv => SliceWithinCap
<1> SUFFICES ASSUME FleetInv, NEW c \in live
             PROVE  /\ Cardinality(MySlice(c)) <= maxPerShard
                    /\ Cardinality(MySlice(c)) * Cardinality(live) < Cardinality(targets) + Cardinality(live)
  BY DEF SliceWithinCap
<1>1. PICK k, d, n, m : k = Cardinality(MySlice(c)) /\ d = Cardinality(live)
                        /\ n = Cardinality(targets) /\ m = maxPerShard
  OBVIOUS
<1>2. d \in Nat /\ n \in Nat /\ m \in Nat
  BY <1>1, FleetFacts DEF FleetInv
<1>3. IsFiniteSet(MySlice(c)) /\ k <= Cap
  BY <1>1, SlicesPlaced
<1>4. k \in Nat
  BY <1>1, <1>3, FS_CardinalityType
<1>5. Cap \in Nat /\ Cap <= m /\ Cap * d < n + d
  BY <1>1, CapFacts DEF LimitIs
<1>6. k * d \in Nat /\ Cap * d \in Nat /\ k * d <= Cap * d
  BY <1>2, <1>3, <1>4, <1>5, ProductOrder
<1>7. k <= m /\ k * d < n + d
  BY <1>2, <1>3, <1>4, <1>5, <1>6
<1> QED
  BY <1>1, <1>7

LEMMA SkipsOnlyFull == FleetInv => OnlyFullCollectorsAreSkipped
<1> SUFFICES ASSUME FleetInv, NEW t \in targets, NEW d \in live,
                    NEW owners, owners = {c \in live : t \in MySlice(c)}
             PROVE  \/ d \in owners
                    \/ \E c \in owners : score[t, c] > score[t, d]
                    \/ Cardinality({u \in MySlice(d) : u < t}) = Cap
  BY DEF OnlyFullCollectorsAreSkipped
<1>1. PICK p : /\ \A c : MySlice(c) = Held(p, c)
               /\ \A u \in DOMAIN p : p[u] \in live
               /\ \A u \in targets, e \in live :
                     \/ u \in DOMAIN p /\ score[u, p[u]] >= score[u, e]
                     \/ Cardinality({v \in Held(p, e) : v < u}) = Cap
  BY SlicesPlaced
<1>2. CASE Cardinality({u \in Held(p, d) : u < t}) = Cap
  BY <1>1, <1>2
<1>3. CASE t \in DOMAIN p /\ score[t, p[t]] >= score[t, d]
  <2>1. PICK c : c = p[t]
    OBVIOUS
  <2>2. c \in live /\ c \in owners
    BY <1>1, <1>3, <2>1 DEF Held
  <2>3. score[t, c] \in Nat /\ score[t, d] \in Nat /\ (c # d => score[t, c] # score[t, d])
    BY <2>2 DEF FleetInv
  <2>4. score[t, c] >= score[t, d]
    BY <1>3, <2>1
  <2>5. c = d \/ score[t, c] > score[t, d]
    <3>1. PICK x, y : x = score[t, c] /\ y = score[t, d]
      OBVIOUS
    <3>2. x \in Nat /\ y \in Nat /\ x >= y /\ (c # d => x # y)
      BY <2>3, <2>4, <3>1
    <3>3. c = d \/ x > y
      BY <3>2
    <3> QED
      BY <3>1, <3>3
  <2> QED
    BY <2>2, <2>5
<1> QED
  BY <1>1, <1>2, <1>3

LEMMA CoverFleet == FleetInv => SlicesCoverFleet
<1> SUFFICES ASSUME FleetInv, live # {},
                    NEW covered, covered = UNION {MySlice(c) : c \in live},
                    NEW capacity, capacity = Cardinality(live) * maxPerShard
             PROVE  Cardinality(covered) =
                       IF capacity >= Cardinality(targets) THEN Cardinality(targets) ELSE capacity
  BY DEF SlicesCoverFleet
<1>1. PICK n, d, m, k : n = Cardinality(targets) /\ d = Cardinality(live) /\ m = maxPerShard /\ k = Cap
  OBVIOUS
<1>2. n \in Nat /\ d \in Nat /\ m \in Nat /\ k \in Nat
  BY <1>1, FleetFacts, CapFacts DEF FleetInv
<1>3. k <= m /\ (k = m \/ n <= k * d)
  BY <1>1, CapFacts DEF LimitIs
<1>4. k * d \in Nat /\ m * d \in Nat /\ k * d <= m * d /\ d * k = k * d /\ d * m = m * d
  BY <1>2, <1>3, ProductOrder
<1>5. capacity = m * d
  BY <1>1, <1>4
<1>6. PICK p : /\ \A c : MySlice(c) = Held(p, c)
               /\ DOMAIN p \subseteq targets
               /\ \A t \in DOMAIN p : p[t] \in live
               /\ \A c \in live : IsFiniteSet(Held(p, c)) /\ Cardinality(Held(p, c)) <= k
               /\ \A t \in targets, e \in live :
                     \/ t \in DOMAIN p /\ score[t, p[t]] >= score[t, e]
                     \/ Cardinality({u \in Held(p, e) : u < t}) = k
  BY <1>1, SlicesPlaced
<1>7. PICK F : F = [c \in live |-> Held(p, c)]
  OBVIOUS
<1>8. \A c \in live : F[c] = Held(p, c) /\ F[c] = MySlice(c)
  BY <1>6, <1>7
<1>9. covered = UnionOf(F, live)
  BY <1>8 DEF UnionOf
<1>10. covered = DOMAIN p
  <2>1. \A t \in DOMAIN p : p[t] \in live /\ t \in F[p[t]]
    BY <1>6, <1>8 DEF Held
  <2>2. \A c \in live : F[c] \subseteq DOMAIN p
    BY <1>8 DEF Held
  <2> QED
    BY <1>9, <2>1, <2>2 DEF UnionOf
<1>11. Disjoint(live, F)
  BY <1>8 DEF Disjoint, Held
<1>12. /\ IsFiniteSet(covered) /\ Cardinality(covered) <= d * k
       /\ (\A c \in live : Cardinality(F[c]) = k) => Cardinality(covered) = d * k
  <2>1. IsFiniteSet(live)
    BY FleetFacts
  <2>2. \A c \in live : IsFiniteSet(F[c]) /\ Cardinality(F[c]) <= k
    BY <1>6, <1>8
  <2>3. /\ IsFiniteSet(UnionOf(F, live)) /\ Cardinality(UnionOf(F, live)) <= Cardinality(live) * k
        /\ (\A c \in live : Cardinality(F[c]) = k) => Cardinality(UnionOf(F, live)) = Cardinality(live) * k
    BY <1>2, <1>11, <2>1, <2>2, FamilySize
  <2> QED
    BY <1>1, <1>9, <2>3
<1>13. CASE covered = targets
  <2>1. n <= m * d
    <3>1. n <= k * d
      BY <1>1, <1>4, <1>12, <1>13
    <3> QED
      BY <1>2, <1>4, <3>1
  <2> QED
    BY <1>1, <1>2, <1>4, <1>5, <1>13, <2>1
<1>14. CASE covered # targets
  <2>1. PICK t \in targets : t \notin DOMAIN p
    BY <1>6, <1>10, <1>14
  <2>2. ASSUME NEW c \in live PROVE Cardinality(F[c]) = k
    <3>1. PICK s : s = {u \in Held(p, c) : u < t}
      OBVIOUS
    <3>2. Cardinality(s) = k /\ s \subseteq Held(p, c)
      BY <1>6, <2>1, <3>1
    <3>3. IsFiniteSet(Held(p, c)) /\ Cardinality(Held(p, c)) <= k
      BY <1>6
    <3>4. Cardinality(s) <= Cardinality(Held(p, c)) /\ Cardinality(Held(p, c)) \in Nat
      BY <3>2, <3>3, FS_Subset, FS_CardinalityType
    <3> QED
      BY <1>2, <1>8, <3>2, <3>3, <3>4
  <2>3. Cardinality(covered) = d * k
    BY <1>12, <2>2
  <2>4. Cardinality(covered) < n
    <3>1. covered \subseteq targets /\ covered # targets /\ IsFiniteSet(targets)
      BY <1>6, <1>10, <1>14, FleetFacts
    <3>2. Cardinality(covered) <= n /\ Cardinality(covered) \in Nat
      BY <1>1, <3>1, FS_Subset, FS_CardinalityType
    <3>3. Cardinality(covered) # n
      BY <1>1, <3>1, FS_Subset
    <3> QED
      BY <1>2, <3>2, <3>3
  <2>5. k * d < n
    BY <1>4, <2>3, <2>4
  <2>6. k = m
    BY <1>2, <1>3, <1>4, <2>5
  <2>7. capacity = k * d /\ ~(capacity >= n) /\ Cardinality(covered) = capacity
    BY <1>2, <1>4, <1>5, <2>3, <2>5, <2>6
  <2> QED
    BY <1>1, <2>7
<1> QED
  BY <1>13, <1>14

\* The weights of a target stay distinct and the fleet within its universe, however
\* collectors join and leave and targets are onboarded and deboarded (the inputs
\* of allocate, shard_alloc.py).
THEOREM FleetInvariance == AllocSpec => []FleetInv
BY InitFleet, NextFleet, PTL DEF AllocSpec

\* For every fleet, every ranking of the collectors and every limit, allocate gives
\* no collector more than max_targets_per_shard, nor more than the fair share
\* rounded up (effective_cap, allocate in shard_alloc.py).
THEOREM SlicesFit == AllocSpec => []SliceWithinCap
BY FleetInvariance, WithinCap, PTL

\* For every fleet the slices together hold every target when the collectors have
\* room for all of them, and otherwise exactly as many as there is room for: the
\* rounding of the limit and the spill of full collectors lose none (allocate).
THEOREM FleetCovered == AllocSpec => []SlicesCoverFleet
BY FleetInvariance, CoverFleet, PTL

\* For every fleet, a target is on the collector it scores highest on, or every
\* collector it scores higher on is filled by targets of smaller id: the result
\* depends on nothing but the ids and the weights (allocate, score).
THEOREM OnlyFullSkipped == AllocSpec => []OnlyFullCollectorsAreSkipped
BY FleetInvariance, SkipsOnlyFull, PTL

-----------------------------------------------------------------------------
(* Sorted sequences.                                                       *)

\* An increasing sequence repeats nothing.
LEMMA IncreasingSize ==
    ASSUME NEW s \in Seq(Nat), Increasing(s)
    PROVE  Cardinality(ToSet(s)) = Len(s)
<1>1. PICK n : n = Len(s)
  OBVIOUS
<1>2. n \in Nat /\ s \in [1 .. n -> Nat] /\ DOMAIN s = 1 .. n
  BY <1>1
<1>3. \A i \in 1 .. n : s[i] \in ToSet(s)
  BY <1>2 DEF ToSet
<1>4. s \in [1 .. n -> ToSet(s)]
  BY <1>2, <1>3
<1>5. \A i, j \in 1 .. n : s[i] = s[j] => i = j
  <2>1. \A i, j \in 1 .. n : i < j => s[i] < s[j]
    BY <1>1 DEF Increasing
  <2>2. \A i, j \in 1 .. n : s[i] \in Nat /\ s[j] \in Nat /\ (i = j \/ i < j \/ j < i)
    BY <1>2
  <2> QED
    BY <2>1, <2>2
<1>6. \A x \in ToSet(s) : \E i \in 1 .. n : s[i] = x
  BY <1>2 DEF ToSet
<1>7. s \in Bijection(1 .. n, ToSet(s))
  BY <1>4, <1>5, <1>6 DEF Bijection, Injection, Surjection, IsInjective
<1>8. ExistsBijection(1 .. n, ToSet(s))
  BY <1>7 DEF ExistsBijection
<1> QED
  BY <1>1, <1>2, <1>8, FS_CountingElements

\* s is ts in increasing order.
Sorted(s, ts) == s \in Seq(Nat) /\ Increasing(s) /\ ToSet(s) = ts

LEMMA OneNumber == ASSUME NEW n \in Nat PROVE Sorted(<<n>>, {n})
<1>1. PICK s : s = <<n>>
  OBVIOUS
<1>2. s \in Seq(Nat) /\ Len(s) = 1 /\ s[1] = n /\ DOMAIN s = {1}
  BY <1>1
<1>3. Increasing(s)
  BY <1>2 DEF Increasing
<1>4. ToSet(s) = {n}
  BY <1>2 DEF ToSet
<1> QED
  BY <1>1, <1>2, <1>3, <1>4 DEF Sorted

LEMMA NoNumber == Sorted(<< >>, {})
<1>1. PICK s : s = << >>
  OBVIOUS
<1>2. s \in Seq(Nat) /\ Len(s) = 0 /\ DOMAIN s = {}
  BY <1>1
<1>3. Increasing(s)
  BY <1>2 DEF Increasing
<1>4. ToSet(s) = {}
  BY <1>2 DEF ToSet
<1> QED
  BY <1>1, <1>2, <1>3, <1>4 DEF Sorted

\* Every finite set of numbers can be sorted, so InTimeOrder does it.
LEMMA SortedExists ==
    ASSUME NEW ts, ts \subseteq Nat, IsFiniteSet(ts)
    PROVE  \E s : Sorted(s, ts)
<1> DEFINE I == {n \in Nat : \E s : Sorted(s, IdsBelow(ts, n))}
<1>1. 0 \in I
  <2>1. IdsBelow(ts, 0) = {}
    BY IdsBelowZero
  <2> QED
    BY <2>1, NoNumber
<1>2. ASSUME NEW n \in Nat, n \in I PROVE n + 1 \in I
  <2>1. PICK s : Sorted(s, IdsBelow(ts, n))
    BY <1>2
  <2>2. CASE n \notin ts
    <3>1. IdsBelow(ts, n + 1) = IdsBelow(ts, n)
      BY <2>2, IdsBelowStep
    <3> QED
      BY <2>1, <3>1
  <2>3. CASE n \in ts
    <3>1. IdsBelow(ts, n + 1) = IdsBelow(ts, n) \cup {n}
      BY <2>3, IdsBelowStep
    <3>2. PICK e, u : e = <<n>> /\ u = Cat(s, e)
      OBVIOUS
    <3>3. e \in Seq(Nat) /\ Increasing(e) /\ ToSet(e) = {n}
      BY <3>2, OneNumber DEF Sorted
    <3>4. s \in Seq(Nat) /\ Increasing(s) /\ ToSet(s) = IdsBelow(ts, n)
      BY <2>1 DEF Sorted
    <3>5. MadeOf(Nat, s, e, u)
      BY <3>2, <3>3, <3>4, CatMadeOf
    <3>6. Before(ToSet(s), ToSet(e))
      BY <3>3, <3>4 DEF Before, IdsBelow
    <3>7. Increasing(u)
      BY <3>2, <3>3, <3>4, <3>6, IncreasingCat
    <3>8. Sorted(u, IdsBelow(ts, n + 1))
      BY <3>1, <3>3, <3>4, <3>5, <3>7 DEF Sorted, MadeOf
    <3> QED
      BY <3>8
  <2> QED
    BY <2>2, <2>3
<1>3. PICK b \in Nat : \A t \in ts : t < b
  BY Bounded
<1>4. IdsBelow(ts, b) = ts
  BY <1>3 DEF IdsBelow
<1>5. b \in I
  <2> HIDE DEF I
  <2>1. Nat \subseteq I
    BY <1>1, <1>2, Induction
  <2> QED
    BY <2>1
<1> QED
  BY <1>4, <1>5

LEMMA InTimeOrderSorted ==
    ASSUME NEW ts, ts \subseteq Nat, IsFiniteSet(ts)
    PROVE  Sorted(InTimeOrder(ts), ts)
<1>1. PICK u : Sorted(u, ts)
  BY SortedExists
<1>2. PICK n : n = Cardinality(ts)
  OBVIOUS
<1>3. n \in Nat /\ Len(u) = n
  <2>1. Cardinality(ToSet(u)) = Len(u)
    BY <1>1, IncreasingSize DEF Sorted
  <2> QED
    BY <1>1, <1>2, <2>1 DEF Sorted
<1>4. u \in [1 .. n -> ts] /\ \A i, j \in DOMAIN u : i < j => u[i] < u[j]
  <2>1. u \in Seq(Nat) /\ DOMAIN u = 1 .. n /\ ToSet(u) = ts /\ Increasing(u)
    BY <1>1, <1>3 DEF Sorted
  <2>2. \A i \in 1 .. n : u[i] \in ts
    BY <2>1 DEF ToSet
  <2> QED
    BY <1>3, <2>1, <2>2 DEF Increasing
<1>5. PICK s : s = InTimeOrder(ts)
  OBVIOUS
<1>6. s \in [1 .. n -> ts] /\ \A i, j \in DOMAIN s : i < j => s[i] < s[j]
  BY <1>2, <1>4, <1>5 DEF InTimeOrder
<1>7. s \in Seq(Nat) /\ Len(s) = n /\ DOMAIN s = 1 .. n
  <2>1. DOMAIN s = 1 .. n /\ s = [i \in 1 .. n |-> s[i]] /\ \A i \in 1 .. n : s[i] \in Nat
    BY <1>6
  <2> QED
    BY <1>3, <2>1, FunctionIsSeq
<1>8. Increasing(s)
  BY <1>6, <1>7 DEF Increasing
<1>9. ToSet(s) = ts
  <2>1. ToSet(s) \subseteq ts
    BY <1>6, <1>7 DEF ToSet
  <2>2. Cardinality(ToSet(s)) = Cardinality(ts)
    BY <1>2, <1>7, <1>8, IncreasingSize
  <2> QED
    BY <2>1, <2>2, FS_Subset
<1> QED
  BY <1>5, <1>7, <1>8, <1>9 DEF Sorted

\* Increasing parts, each before the next, are increasing one after the other.
LEMMA FlattenIncreasing ==
    ASSUME NEW S, NEW bb \in Seq(Seq(S)),
           \A i \in 1 .. Len(bb) : Increasing(bb[i]),
           \A i, j \in 1 .. Len(bb) : i < j => Before(ToSet(bb[i]), ToSet(bb[j]))
    PROVE  Increasing(FlattenSeq(bb))
<1>1. CASE bb = << >>
  <2>1. FlattenSeq(bb) = << >>
    BY <1>1, FlattenEmpty
  <2> QED
    BY <2>1, NoNumber DEF Sorted
<1>2. CASE bb # << >>
  <2>1. PICK n : n = Len(bb)
    OBVIOUS
  <2>2. n \in Nat /\ n # 0
    BY <1>2, <2>1
  <2>3. PICK f : Sums(S, bb, f, n) /\ FlattenSeq(bb) = f[n]
    BY <1>2, <2>1, FlattenIsSum
  <2> DEFINE Q(k) == /\ Increasing(f[k])
                     /\ \A x \in ToSet(f[k]) : \E i \in 1 .. k : x \in ToSet(bb[i])
             I == {k \in Nat : k \in 1 .. n => Q(k)}
  <2>4. 0 \in I
    OBVIOUS
  <2>5. ASSUME NEW k \in Nat, k \in I, k + 1 \in 1 .. n PROVE Q(k + 1)
    <3>1. f[k + 1] = IF k = 0 THEN bb[1] ELSE Cat(f[k], bb[k + 1])
      BY <2>2, <2>3, <2>5, SumsStep
    <3>2. bb[k + 1] \in Seq(S) /\ Increasing(bb[k + 1])
      BY <2>1, <2>5
    <3>3. CASE k = 0
      <4>1. f[k + 1] = bb[1] /\ k + 1 = 1 /\ 1 \in 1 .. 1
        BY <3>1, <3>3
      <4> QED
        BY <3>2, <4>1
    <3>4. CASE k # 0
      <4>1. k \in 1 .. n
        BY <2>2, <2>5, <3>4
      <4>2. f[k] \in Seq(S) /\ Q(k)
        BY <2>3, <2>5, <4>1 DEF Sums
      <4>3. Before(ToSet(f[k]), ToSet(bb[k + 1]))
        <5>1. ASSUME NEW i \in 1 .. k PROVE i \in 1 .. Len(bb) /\ k + 1 \in 1 .. Len(bb) /\ i < k + 1
          BY <2>1, <2>2, <2>5
        <5>2. \A i \in 1 .. k : Before(ToSet(bb[i]), ToSet(bb[k + 1]))
          BY <5>1
        <5> QED
          BY <4>2, <5>2 DEF Before
      <4>4. f[k + 1] = Cat(f[k], bb[k + 1])
        BY <3>1, <3>4
      <4>5. Increasing(f[k + 1])
        BY <3>2, <4>2, <4>3, <4>4, IncreasingCat
      <4>6. MadeOf(S, f[k], bb[k + 1], f[k + 1])
        BY <3>2, <4>2, <4>4, CatMadeOf
      <4>7. \A i \in 1 .. k : i \in 1 .. k + 1
        OBVIOUS
      <4>8. k + 1 \in 1 .. k + 1
        OBVIOUS
      <4>9. ToSet(f[k + 1]) = ToSet(f[k]) \cup ToSet(bb[k + 1])
        BY <4>6 DEF MadeOf
      <4> QED
        BY <4>2, <4>5, <4>7, <4>8, <4>9
    <3> QED
      BY <3>3, <3>4
  <2>6. ASSUME NEW k \in Nat, k \in I PROVE k + 1 \in I
    <3>1. k + 1 \in 1 .. n => Q(k + 1)
      BY <2>5, <2>6
    <3> HIDE DEF Q
    <3> QED
      BY <3>1
  <2>7. n \in I
    <3> HIDE DEF I
    <3>1. Nat \subseteq I
      BY <2>4, <2>6, Induction
    <3> QED
      BY <2>2, <3>1
  <2>8. n \in 1 .. n
    BY <2>2
  <2> QED
    BY <2>3, <2>7, <2>8
<1> QED
  BY <1>1, <1>2

LEMMA HeadTail ==
    ASSUME NEW S, NEW ss \in Seq(S), ss # << >>
    PROVE  ss[1] \in S /\ Tail(ss) \in Seq(S) /\ ss = Cat(<<ss[1]>>, Tail(ss))
<1>1. PICK m, r, one : m = Len(ss) - 1 /\ r = Tail(ss) /\ one = <<ss[1]>>
  OBVIOUS
<1>2. /\ m \in Nat /\ Len(ss) = 1 + m /\ ss[1] \in S
      /\ r \in Seq(S) /\ Len(r) = m /\ \A i \in 1 .. m : r[i] = ss[i + 1]
  BY <1>1
<1>3. one \in Seq(S) /\ Len(one) = 1 /\ one[1] = ss[1]
  BY <1>1, <1>2
<1>4. IsCat(S, one, r, ss, 1, m)
  <2>1. \A i \in 1 .. m : 1 + i = i + 1
    OBVIOUS
  <2> QED
    BY <1>2, <1>3, <2>1 DEF IsCat
<1>5. IsCat(S, one, r, Cat(one, r), 1, m)
  <2>1. IsCat(S, one, r, Cat(one, r), Len(one), Len(r))
    BY <1>2, <1>3, CatAt
  <2> QED
    BY <1>2, <1>3, <2>1
<1>6. ss = Cat(one, r)
  BY <1>4, <1>5, IsCatUnique
<1> QED
  BY <1>1, <1>2, <1>6

\* A first sequence with h in front puts h in front of the whole.
LEMMA FlattenFront ==
    ASSUME NEW S, NEW h \in Seq(S), NEW ss \in Seq(Seq(S)), NEW bb \in Seq(Seq(S)),
           bb # << >>, Len(ss) = Len(bb), ss[1] = Cat(h, bb[1]),
           \A i \in 1 .. Len(bb) : i # 1 => ss[i] = bb[i]
    PROVE  FlattenSeq(ss) = Cat(h, FlattenSeq(bb))
<1>1. ss # << >>
  OBVIOUS
<1>2. PICK r : r = Tail(bb)
  OBVIOUS
<1>3. Tail(ss) = r
  <2>1. /\ r \in Seq(Seq(S)) /\ Len(r) = Len(bb) - 1 /\ \A i \in 1 .. Len(r) : r[i] = bb[i + 1]
        /\ Tail(ss) \in Seq(Seq(S)) /\ Len(Tail(ss)) = Len(bb) - 1
        /\ \A i \in 1 .. Len(r) : Tail(ss)[i] = ss[i + 1]
    BY <1>1, <1>2
  <2>2. \A i \in 1 .. Len(r) : i + 1 \in 1 .. Len(bb) /\ i + 1 # 1
    <3>1. Len(bb) \in Nat /\ Len(r) = Len(bb) - 1
      BY <2>1
    <3> QED
      BY <3>1
  <2>3. \A i \in 1 .. Len(r) : Tail(ss)[i] = r[i]
    BY <2>1, <2>2
  <2> QED
    BY <2>1, <2>3, SeqEqual
<1>4. bb[1] \in Seq(S) /\ r \in Seq(Seq(S)) /\ bb = Cat(<<bb[1]>>, r)
  BY <1>2, HeadTail
<1>5. ss[1] \in Seq(S) /\ ss = Cat(<<ss[1]>>, r)
  BY <1>1, <1>3, HeadTail
<1>6. PICK a, b, c : a = bb[1] /\ b = FlattenSeq(r) /\ c = Cat(h, a)
  OBVIOUS
<1>7. a \in Seq(S) /\ b \in Seq(S) /\ c \in Seq(S)
  BY <1>4, <1>5, <1>6, FlattenType
<1>8. FlattenSeq(bb) = Cat(a, b)
  <2>1. <<a>> \in Seq(Seq(S))
    BY <1>7
  <2>2. FlattenSeq(Cat(<<a>>, r)) = Cat(FlattenSeq(<<a>>), b)
    BY <1>4, <1>6, <2>1, FlattenConcat
  <2>3. FlattenSeq(<<a>>) = a
    BY <1>7, FlattenOne
  <2> QED
    BY <1>4, <1>6, <2>2, <2>3
<1>9. FlattenSeq(ss) = Cat(c, b)
  <2>1. <<c>> \in Seq(Seq(S))
    BY <1>7
  <2>2. FlattenSeq(Cat(<<c>>, r)) = Cat(FlattenSeq(<<c>>), b)
    BY <1>4, <1>6, <2>1, FlattenConcat
  <2>3. FlattenSeq(<<c>>) = c
    BY <1>7, FlattenOne
  <2> QED
    BY <1>5, <1>6, <2>2, <2>3
<1>10. Cat(Cat(h, a), b) = Cat(h, Cat(a, b))
  BY <1>7, Associative
<1> QED
  BY <1>6, <1>8, <1>9, <1>10

-----------------------------------------------------------------------------
(* The windows of an export.                                               *)

\* The windows follow one another and leave no time of the range out.
Tiles(w) ==
    /\ w \in Seq(Nat \X Nat)
    /\ \A i \in 1 .. Len(w) : Start <= w[i][1] /\ w[i][2] <= Stop
    /\ \A i, j \in 1 .. Len(w) : i < j => w[i][2] <= w[j][1]
    /\ \A t \in Nat : Start <= t /\ t < Stop =>
          \E i \in 1 .. Len(w) : w[i][1] <= t /\ t < w[i][2]

\* The windows of size c.
CutEnd(e) == IF Start + e < Stop THEN Start + e ELSE Stop
Cuts(c, n) == [i \in 1 .. n |-> <<Start + (i - 1) * c, CutEnd(i * c)>>]

\* The division rounds up.
LEMMA CutsEnough ==
    ASSUME NEW c \in Nat \ {0}, NEW n, n = (IF Start < Stop THEN (Stop - Start + c - 1) \div c ELSE 0)
    PROVE  n \in Nat /\ (Start < Stop => Stop - Start <= n * c)
<1>1. Start \in Nat /\ Stop \in Nat /\ c \in Nat
  BY ExportAssumption
<1>2. CASE Start < Stop
  <2>1. PICK k : k = Stop - Start + c - 1
    OBVIOUS
  <2>2. k \in Nat /\ n = k \div c
    BY <1>1, <1>2, <2>1
  <2>3. n \in Nat /\ k < n * c + c
    BY <2>2, Division
  <2>4. n * c \in Nat
    BY <2>3
  <2>5. Stop - Start <= n * c
    BY <1>1, <2>1, <2>3, <2>4
  <2> QED
    BY <2>3, <2>5
<1>3. CASE ~(Start < Stop)
  BY <1>3
<1> QED
  BY <1>2, <1>3

LEMMA CutsTile ==
    ASSUME NEW c \in Nat \ {0}, NEW n \in Nat, Start < Stop => Stop - Start <= n * c
    PROVE  Tiles(Cuts(c, n))
<1>1. Start \in Nat /\ Stop \in Nat /\ c \in Nat
  BY ExportAssumption
<1>2. n \in Nat /\ (Start < Stop => Stop - Start <= n * c)
  OBVIOUS
<1>0. PICK w : w = Cuts(c, n)
  OBVIOUS
<1>3. ASSUME NEW e \in Nat
      PROVE  CutEnd(e) \in Nat /\ CutEnd(e) <= Stop /\ CutEnd(e) <= Start + e
  BY <1>1 DEF CutEnd
<1>4. ASSUME NEW i \in 1 .. n
      PROVE  /\ (i - 1) * c \in Nat /\ i * c \in Nat
             /\ w[i] \in Nat \X Nat /\ w[i][1] = Start + (i - 1) * c /\ w[i][2] = CutEnd(i * c)
             /\ Start <= w[i][1] /\ w[i][2] <= Stop
  <2>1. w[i] = <<Start + (i - 1) * c, CutEnd(i * c)>>
    BY <1>0 DEF Cuts
  <2>2. i \in Nat /\ i - 1 \in Nat
    BY <1>2
  <2>3. (i - 1) * c \in Nat /\ i * c \in Nat
    BY <1>1, <2>2
  <2>4. PICK d, e : d = (i - 1) * c /\ e = i * c
    OBVIOUS
  <2>5. d \in Nat /\ e \in Nat /\ w[i] = <<Start + d, CutEnd(e)>>
    BY <2>1, <2>3, <2>4
  <2>6. Start + d \in Nat /\ Start <= Start + d
    BY <1>1, <2>5
  <2>7. w[i] \in Nat \X Nat /\ w[i][1] = Start + d /\ w[i][2] = CutEnd(e) /\ CutEnd(e) <= Stop
    BY <1>3, <2>5, <2>6
  <2> QED
    BY <2>3, <2>4, <2>6, <2>7
<1>5. w \in Seq(Nat \X Nat) /\ Len(w) = n
  <2>1. \A i \in 1 .. n : w[i] \in Nat \X Nat
    BY <1>4
  <2>2. w = [i \in 1 .. n |-> w[i]] /\ n \in Nat
    BY <1>0, <1>2 DEF Cuts
  <2>3. PICK S : S = Nat \X Nat
    OBVIOUS
  <2>4. w \in Seq(S) /\ Len(w) = n
    <3>1. \A i \in 1 .. n : w[i] \in S
      BY <2>1, <2>3
    <3>2. n \in Nat /\ w = [i \in 1 .. n |-> w[i]]
      BY <2>2
    <3> QED
      BY <3>1, <3>2, FunctionIsSeq
  <2> QED
    BY <2>3, <2>4
<1>6. ASSUME NEW i \in 1 .. n, NEW j \in 1 .. n, i < j PROVE w[i][2] <= w[j][1]
  <2>1. i \in Nat /\ j - 1 \in Nat /\ i <= j - 1
    BY <1>2, <1>6
  <2>2. i * c \in Nat /\ i * c <= (j - 1) * c /\ (j - 1) * c \in Nat
    BY <1>1, <2>1, ProductOrder
  <2>3. w[i][2] = CutEnd(i * c) /\ w[j][1] = Start + (j - 1) * c
    BY <1>4
  <2>4. PICK d, e, h : d = (j - 1) * c /\ e = i * c /\ h = CutEnd(e)
    OBVIOUS
  <2>5. d \in Nat /\ e \in Nat /\ e <= d
    BY <2>2, <2>4
  <2>6. h \in Nat /\ h <= Start + e
    BY <1>3, <2>4, <2>5
  <2>7. h <= Start + d
    BY <1>1, <2>5, <2>6
  <2> QED
    BY <2>3, <2>4, <2>7
<1>7. ASSUME NEW t \in Nat, Start <= t, t < Stop
      PROVE  \E i \in 1 .. n : w[i][1] <= t /\ t < w[i][2]
  <2>1. PICK a, d, e : a = t - Start /\ d = a \div c /\ e = d * c
    OBVIOUS
  <2>2. a \in Nat /\ t = Start + a
    BY <1>1, <1>7, <2>1
  <2>3. d \in Nat /\ e <= a /\ a < e + c
    BY <2>1, <2>2, Division
  <2>4. e \in Nat /\ (d + 1) * c = e + c
    BY <1>1, <2>1, <2>3
  <2>5. d < n
    <3>1. SUFFICES ASSUME n <= d PROVE FALSE
      BY <1>2, <2>3
    <3>2. n * c \in Nat /\ n * c <= e
      BY <1>1, <1>2, <2>1, <2>3, <3>1, ProductOrder
    <3>3. Stop - Start <= n * c
      BY <1>1, <1>2, <1>7
    <3> QED
      BY <1>1, <1>7, <2>2, <2>3, <2>4, <3>2, <3>3
  <2>6. PICK i : i = d + 1
    OBVIOUS
  <2>7. i \in 1 .. n /\ i - 1 = d
    BY <1>2, <2>3, <2>5, <2>6
  <2>8. w[i][1] = Start + e
    BY <1>4, <2>1, <2>7
  <2>9. w[i][2] = IF Start + (e + c) < Stop THEN Start + (e + c) ELSE Stop
    <3>1. w[i][2] = CutEnd(i * c)
      BY <1>4, <2>7
    <3>2. i * c = e + c
      BY <2>4, <2>6
    <3> QED
      BY <3>1, <3>2 DEF CutEnd
  <2>10. w[i][1] <= t /\ t < w[i][2]
    BY <1>1, <1>7, <2>2, <2>3, <2>4, <2>8, <2>9
  <2> QED
    BY <2>7, <2>10
<1>8. Tiles(w)
  BY <1>4, <1>5, <1>6, <1>7 DEF Tiles
<1> QED
  BY <1>0, <1>8

LEMMA WindowsTile == ASSUME chunk \in Nat PROVE Tiles(windows)
<1>1. CASE chunk = 0
  <2>1. PICK w : w = << <<Start, Stop>> >>
    OBVIOUS
  <2>2. windows = w
    BY <1>1, <2>1 DEF windows
  <2>3. w \in Seq(Nat \X Nat) /\ Len(w) = 1 /\ w[1][1] = Start /\ w[1][2] = Stop /\ Start \in Nat /\ Stop \in Nat
    BY <2>1, ExportAssumption
  <2>4. \A i \in 1 .. Len(w) : i = 1
    BY <2>3
  <2>5. 1 \in 1 .. Len(w) /\ ~(1 < 1)
    BY <2>3
  <2>6. Tiles(w)
    BY <2>3, <2>4, <2>5 DEF Tiles
  <2> QED
    BY <2>2, <2>6
<1>2. CASE chunk # 0
  <2>1. PICK n : n = (IF Start < Stop THEN (Stop - Start + chunk - 1) \div chunk ELSE 0)
    OBVIOUS
  <2>2. windows = Cuts(chunk, n)
    BY <1>2, <2>1 DEF windows, Cuts, CutEnd
  <2>3. chunk \in Nat \ {0}
    BY <1>2
  <2> QED
    BY <2>1, <2>2, <2>3, CutsEnough, CutsTile
<1> QED
  BY <1>1, <1>2

-----------------------------------------------------------------------------
(* What a chunk file holds.                                                *)

\* The header is written with the first record.
HeaderLine(ts) == IF ts = {} THEN << >> ELSE <<Header>>

\* f is h followed by the rows b.
FileParts(f, ts, h, b) ==
    /\ Sorted(b, ts) /\ h = HeaderLine(ts) /\ h \in Seq(Int) /\ b \in Seq(Int)
    /\ f = Cat(h, b) /\ f \in Seq(Int) /\ Body(f) = b

LEMMA SortedEmpty == ASSUME NEW b, Sorted(b, {}) PROVE b = << >>
<1>1. b \in Seq(Nat) /\ ToSet(b) = {}
  BY DEF Sorted
<1>2. Len(b) = 0
  <2> SUFFICES ASSUME Len(b) # 0 PROVE FALSE
    OBVIOUS
  <2>1. 1 \in DOMAIN b
    BY <1>1
  <2> QED
    BY <1>1, <2>1 DEF ToSet
<1> QED
  BY <1>1, <1>2

LEMMA ConsTail ==
    ASSUME NEW S, NEW x \in S, NEW b \in Seq(S)
    PROVE  /\ Cat(<<x>>, b) \in Seq(S) /\ Cat(<<x>>, b) # << >>
           /\ Tail(Cat(<<x>>, b)) = b /\ Head(Cat(<<x>>, b)) = x
<1>1. PICK one, u, m : one = <<x>> /\ u = Cat(one, b) /\ m = Len(b)
  OBVIOUS
<1>2. one \in Seq(S) /\ Len(one) = 1 /\ one[1] = x /\ m \in Nat
  BY <1>1
<1>3. IsCat(S, one, b, u, 1, m)
  <2>1. IsCat(S, one, b, Cat(one, b), Len(one), Len(b))
    BY <1>2, CatAt
  <2> QED
    BY <1>1, <1>2, <2>1
<1>4. u \in Seq(S) /\ Len(u) = 1 + m /\ u[1] = x /\ \A i \in 1 .. m : u[1 + i] = b[i]
  BY <1>2, <1>3 DEF IsCat
<1>5. u # << >> /\ Head(u) = x
  BY <1>2, <1>4
<1>6. Tail(u) \in Seq(S) /\ Len(Tail(u)) = m /\ \A i \in 1 .. m : Tail(u)[i] = u[i + 1]
  BY <1>2, <1>4, <1>5
<1>7. \A i \in 1 .. m : Tail(u)[i] = b[i]
  <2>1. \A i \in 1 .. m : 1 + i = i + 1
    OBVIOUS
  <2> QED
    BY <1>4, <1>6, <2>1
<1>8. Tail(u) = b
  BY <1>1, <1>6, <1>7, SeqEqual
<1> QED
  BY <1>1, <1>4, <1>5, <1>8

LEMMA FileIs ==
    ASSUME NEW ts, ts \subseteq Nat, IsFiniteSet(ts)
    PROVE  FileParts(stream_window_once(ts), ts, HeaderLine(ts), InTimeOrder(ts))
<1>1. PICK f, h, b : f = stream_window_once(ts) /\ h = HeaderLine(ts) /\ b = InTimeOrder(ts)
  OBVIOUS
<1>2. Sorted(b, ts)
  BY <1>1, InTimeOrderSorted
<1>3. b \in Seq(Int)
  BY <1>2 DEF Sorted
<1>4. CASE ts = {}
  <2>1. b = << >> /\ h = << >> /\ f = << >>
    BY <1>1, <1>2, <1>4, SortedEmpty DEF HeaderLine, stream_window_once
  <2>2. Cat(<< >>, << >>) = << >> /\ << >> \in Seq(Int) /\ Body(<< >>) = << >>
    BY DEF Cat, Body
  <2> QED
    BY <1>1, <1>2, <2>1, <2>2 DEF FileParts
<1>5. CASE ts # {}
  <2>1. h = <<Header>> /\ f = Cat(<<Header>>, b)
    BY <1>1, <1>5 DEF HeaderLine, stream_window_once, Cat
  <2>2. Header \in Int
    BY DEF Header
  <2>3. f \in Seq(Int) /\ f # << >> /\ Tail(f) = b
    BY <1>3, <2>1, <2>2, ConsTail
  <2>4. Body(f) = b
    BY <2>3 DEF Body
  <2>5. h \in Seq(Int)
    BY <2>1, <2>2
  <2> QED
    BY <1>1, <1>2, <1>3, <2>1, <2>3, <2>4, <2>5 DEF FileParts
<1> QED
  BY <1>4, <1>5

-----------------------------------------------------------------------------
(* The join of the chunk files.                                            *)

\* f holds rows of the window w: all that were there when the export began, and
\* possibly others that the collectors wrote since.
ChunkOf(f, w) ==
    \E ts \in SUBSET bucket :
       /\ f = stream_window_once(ts)
       /\ \A t \in ts : w[1] <= t /\ t < w[2]
       /\ \A t \in atStart : w[1] <= t /\ t < w[2] => t \in ts

ChunksOK ==
    /\ Len(chunks) <= Len(windows)
    /\ chunks \in Seq(Seq(Int))
    /\ \A i \in 1 .. Len(chunks) : ChunkOf(chunks[i], windows[i])

LEMMA Stored == ASSUME bucket \subseteq Times, NEW ts, ts \subseteq bucket
                PROVE  ts \subseteq Nat /\ IsFiniteSet(ts)
<1>1. Start \in Nat /\ Stop \in Nat
  BY ExportAssumption
<1>2. IsFiniteSet(Times) /\ Times \subseteq Nat
  BY <1>1, FS_Interval DEF Times
<1> QED
  BY <1>2, FS_Subset

\* T[i] is the rows of the i-th window, bb[i] the file without its header, h the
\* header of the first; the join is h and then the bodies.
LEMMA JoinedExact ==
    ASSUME bucket \subseteq Times, atStart \subseteq bucket, chunk \in Nat, ChunksOK,
           Len(chunks) = Len(windows), chunks # << >>
    PROVE  ExactFile(concat_chunk_files(chunks))
<1>1. PICK n, w : n = Len(chunks) /\ w = windows
  OBVIOUS
<1>2. n \in Nat /\ n # 0 /\ 1 \in 1 .. n /\ DOMAIN chunks = 1 .. n /\ Len(w) = n
  BY <1>1 DEF ChunksOK
<1>3. /\ \A i \in 1 .. n : w[i] \in Nat \X Nat /\ Start <= w[i][1] /\ w[i][2] <= Stop
      /\ \A i, j \in 1 .. n : i < j => w[i][2] <= w[j][1]
      /\ \A t \in Nat : Start <= t /\ t < Stop =>
            \E i \in 1 .. n : w[i][1] <= t /\ t < w[i][2]
  BY <1>1, <1>2, WindowsTile DEF Tiles
<1> DEFINE IsOf(i, ts) == /\ chunks[i] = stream_window_once(ts)
                          /\ \A t \in ts : w[i][1] <= t /\ t < w[i][2]
                          /\ \A t \in atStart : w[i][1] <= t /\ t < w[i][2] => t \in ts
<1>4. PICK T : T = [i \in 1 .. n |-> CHOOSE ts \in SUBSET bucket : IsOf(i, ts)]
  OBVIOUS
<1>5. ASSUME NEW i \in 1 .. n PROVE T[i] \in SUBSET bucket /\ IsOf(i, T[i])
  <2>1. \E ts \in SUBSET bucket : IsOf(i, ts)
    BY <1>1 DEF ChunksOK, ChunkOf
  <2> HIDE DEF IsOf
  <2> QED
    BY <1>4, <2>1
<1>6. PICK bb, h : bb = [i \in 1 .. n |-> InTimeOrder(T[i])] /\ h = HeaderLine(T[1])
  OBVIOUS
<1>7. ASSUME NEW i \in 1 .. n PROVE FileParts(chunks[i], T[i], HeaderLine(T[i]), bb[i])
  <2>1. T[i] \subseteq Nat /\ IsFiniteSet(T[i])
    BY <1>5, Stored
  <2>2. FileParts(stream_window_once(T[i]), T[i], HeaderLine(T[i]), InTimeOrder(T[i]))
    BY <2>1, FileIs
  <2> QED
    BY <1>5, <1>6, <2>2
<1>8. \A i \in 1 .. n : /\ bb[i] \in Seq(Nat) /\ bb[i] \in Seq(Int)
                        /\ Increasing(bb[i]) /\ ToSet(bb[i]) = T[i] /\ Body(chunks[i]) = bb[i]
  BY <1>7 DEF FileParts, Sorted
<1>9. bb \in Seq(Seq(Nat)) /\ bb \in Seq(Seq(Int)) /\ Len(bb) = n /\ bb # << >>
  <2>1. bb = [i \in 1 .. n |-> bb[i]]
    BY <1>6
  <2>2. PICK S, R : S = Seq(Nat) /\ R = Seq(Int)
    OBVIOUS
  <2>3. \A i \in 1 .. n : bb[i] \in S
    BY <1>8, <2>2
  <2>4. \A i \in 1 .. n : bb[i] \in R
    BY <1>8, <2>2
  <2>5. bb \in Seq(S) /\ Len(bb) = n
    BY <1>2, <2>1, <2>3, FunctionIsSeq
  <2>6. bb \in Seq(R)
    BY <1>2, <2>1, <2>4, FunctionIsSeq
  <2>7. bb # << >>
    BY <1>2, <2>5
  <2> QED
    BY <2>2, <2>5, <2>6, <2>7
<1>10. PICK ss, F, o : /\ ss = [i \in DOMAIN chunks |-> IF i = 1 THEN chunks[i] ELSE Body(chunks[i])]
                       /\ F = FlattenSeq(bb) /\ o = concat_chunk_files(chunks)
  OBVIOUS
<1>11. o = FlattenSeq(ss)
  BY <1>10 DEF concat_chunk_files
<1>12. chunks[1] = Cat(h, bb[1]) /\ chunks[1] \in Seq(Int) /\ h \in Seq(Int)
  BY <1>2, <1>6, <1>7 DEF FileParts
<1>13. ss[1] = Cat(h, bb[1]) /\ \A i \in 1 .. n : i # 1 => ss[i] = bb[i]
  BY <1>2, <1>8, <1>10, <1>12
<1>14. ss \in Seq(Seq(Int)) /\ Len(ss) = n
  <2>1. ss = [i \in 1 .. n |-> ss[i]]
    BY <1>2, <1>10
  <2>2. PICK R : R = Seq(Int)
    OBVIOUS
  <2>3. \A i \in 1 .. n : ss[i] \in R
    BY <1>8, <1>12, <1>13, <2>2
  <2>4. ss \in Seq(R) /\ Len(ss) = n
    BY <1>2, <2>1, <2>3, FunctionIsSeq
  <2> QED
    BY <2>2, <2>4
<1>15. o = Cat(h, F)
  <2>1. FlattenSeq(ss) = Cat(h, FlattenSeq(bb))
    <3>1. /\ h \in Seq(Int) /\ ss \in Seq(Seq(Int)) /\ bb \in Seq(Seq(Int)) /\ bb # << >>
          /\ ss[1] = Cat(h, bb[1])
      BY <1>9, <1>12, <1>13, <1>14
    <3>2. Len(ss) = Len(bb)
      BY <1>9, <1>14
    <3>3. \A i \in 1 .. Len(bb) : i # 1 => ss[i] = bb[i]
      BY <1>9, <1>13
    <3> QED
      BY <3>1, <3>2, <3>3, FlattenFront
  <2> QED
    BY <1>10, <1>11, <2>1
<1>16. F \in Seq(Nat) /\ F \in Seq(Int)
  BY <1>9, <1>10, FlattenType
<1>17. Increasing(F)
  <2>1. \A i, j \in 1 .. n : i < j => Before(ToSet(bb[i]), ToSet(bb[j]))
    <3> SUFFICES ASSUME NEW i \in 1 .. n, NEW j \in 1 .. n, i < j,
                        NEW x \in T[i], NEW y \in T[j]
                 PROVE  x < y
      BY <1>8 DEF Before
    <3>1. x < w[i][2] /\ w[j][1] <= y
      BY <1>5
    <3>2. w[i] \in Nat \X Nat /\ w[j] \in Nat \X Nat /\ w[i][2] <= w[j][1]
      BY <1>3
    <3>3. x \in Nat /\ y \in Nat
      BY <1>5, Stored
    <3> QED
      BY <3>1, <3>2, <3>3
  <2>2. \A i \in 1 .. Len(bb) : Increasing(bb[i])
    BY <1>8, <1>9
  <2>3. \A i, j \in 1 .. Len(bb) : i < j => Before(ToSet(bb[i]), ToSet(bb[j]))
    BY <1>9, <2>1
  <2> QED
    BY <1>9, <1>10, <2>2, <2>3, FlattenIncreasing
<1>18. \A x : x \in ToSet(F) <=> \E i \in 1 .. n : x \in T[i]
  <2>1. ToSet(F) = Members(bb, Len(bb))
    BY <1>9, <1>10, FlattenMembers
  <2>2. ToSet(F) = UNION {ToSet(bb[i]) : i \in 1 .. n}
    BY <1>9, <2>1 DEF Members
  <2> QED
    BY <1>8, <2>2
<1>19. Len(F) = Cardinality(ToSet(F))
  BY <1>16, <1>17, IncreasingSize
<1>20. {t \in atStart : t < Stop} \subseteq ToSet(F)
  <2> SUFFICES ASSUME NEW t \in atStart, t < Stop PROVE t \in ToSet(F)
    OBVIOUS
  <2>1. t \in Nat /\ Start <= t
    BY ExportAssumption DEF Times
  <2>2. PICK i \in 1 .. n : w[i][1] <= t /\ t < w[i][2]
    BY <1>3, <2>1
  <2>3. t \in T[i]
    BY <1>5, <2>2
  <2> QED
    BY <1>18, <2>3
<1>21. ToSet(F) \subseteq bucket \cap (Start .. Stop - 1)
  <2> SUFFICES ASSUME NEW t \in ToSet(F) PROVE t \in bucket /\ t \in Start .. Stop - 1
    OBVIOUS
  <2>1. PICK i \in 1 .. n : t \in T[i]
    BY <1>18
  <2>2. t \in bucket /\ w[i][1] <= t /\ t < w[i][2]
    BY <1>5, <2>1
  <2>3. t \in Nat /\ Start \in Nat /\ Stop \in Nat
    BY <2>2, ExportAssumption DEF Times
  <2>4. w[i] \in Nat \X Nat /\ Start <= w[i][1] /\ w[i][2] <= Stop
    BY <1>3
  <2>5. Start <= t /\ t < Stop
    BY <2>2, <2>3, <2>4
  <2> QED
    BY <2>2, <2>3, <2>5
<1>22. CASE T[1] = {}
  <2>1. h = << >>
    BY <1>6, <1>22 DEF HeaderLine
  <2>2. o = F
    BY <1>15, <1>16, <2>1 DEF Cat
  <2>3. build_export_query(windows[1]) \cap atStart = {}
    <3>1. \A t \in atStart : ~(w[1][1] <= t /\ t < w[1][2])
      BY <1>2, <1>5, <1>22
    <3> QED
      BY <1>1, <3>1 DEF build_export_query
  <2>4. ExactFile(o)
    BY <1>19, <1>20, <1>21, <2>2, <2>3 DEF ExactFile
  <2> QED
    BY <1>10, <2>4
<1>23. CASE T[1] # {}
  <2>1. h = <<Header>>
    BY <1>6, <1>23 DEF HeaderLine
  <2>2. Header \in Int
    BY DEF Header
  <2>3. Tail(o) = F /\ Head(o) = Header
    BY <1>15, <1>16, <2>1, <2>2, ConsTail
  <2>4. o = <<Header>> \o F
    BY <1>15, <2>1 DEF Cat
  <2>5. ExactFile(o)
    BY <1>19, <1>20, <1>21, <2>3, <2>4 DEF ExactFile
  <2> QED
    BY <1>10, <2>5
<1> QED
  BY <1>22, <1>23

-----------------------------------------------------------------------------
(* The export.                                                             *)

\* Why the output is exact: every chunk file holds its own window's rows, the
\* chunks are all there once they are joined, and the staging file is the join.
BulkInv ==
    /\ bucket \subseteq Times /\ atStart \subseteq bucket /\ chunk \in ChunkSizes
    /\ ChunksOK
    /\ step \in {"check", "count"} => chunks = << >>
    /\ step \in {"concat", "rename"} => Len(chunks) = Len(windows)
    /\ step = "window" /\ Single /\ chunks # << >> => chunks = <<part>>
    /\ step = "rename" /\ chunks # << >> => part = concat_chunk_files(chunks)
    /\ OutputExact

LEMMA NoChunks == ASSUME chunk \in Nat, chunks = << >> PROVE ChunksOK
<1>1. Len(windows) \in Nat
  BY WindowsTile DEF Tiles
<1>2. Len(chunks) = 0 /\ chunks \in Seq(Seq(Int))
  OBVIOUS
<1> QED
  BY <1>1, <1>2 DEF ChunksOK

LEMMA NoChunksLeft ==
    ASSUME chunk \in Nat, UNCHANGED chunk, chunks' = << >> PROVE ChunksOK'
<1>1. windows' = windows
  BY DEF windows
<1>2. Len(windows) \in Nat
  BY WindowsTile DEF Tiles
<1>3. Len(chunks') = 0 /\ chunks' \in Seq(Seq(Int))
  OBVIOUS
<1> QED
  BY <1>1, <1>2, <1>3 DEF ChunksOK

LEMMA JoinOne ==
    ASSUME NEW f \in Seq(Int) PROVE concat_chunk_files(<<f>>) = f
<1>1. [i \in DOMAIN <<f>> |-> IF i = 1 THEN <<f>>[i] ELSE Body(<<f>>[i])] = <<f>>
  <2>1. PICK s, u : s = <<f>> /\ u = [i \in DOMAIN s |-> IF i = 1 THEN s[i] ELSE Body(s[i])]
    OBVIOUS
  <2>2. s \in Seq(Seq(Int)) /\ DOMAIN s = 1 .. 1 /\ Len(s) = 1 /\ s[1] = f /\ 1 \in Nat
    BY <2>1
  <2>3. u = [i \in 1 .. 1 |-> u[i]]
    BY <2>1, <2>2
  <2>4. \A i \in 1 .. 1 : u[i] = s[i]
    BY <2>1, <2>2
  <2>5. \A i \in 1 .. 1 : u[i] \in Seq(Int)
    BY <2>2, <2>4
  <2>6. u \in Seq(Seq(Int)) /\ Len(u) = 1
    <3>1. PICK R : R = Seq(Int)
      OBVIOUS
    <3>2. u \in Seq(R) /\ Len(u) = 1
      BY <2>2, <2>3, <2>5, <3>1, FunctionIsSeq
    <3> QED
      BY <3>1, <3>2
  <2>7. u = s
    BY <2>2, <2>4, <2>6, SeqEqual
  <2> QED
    BY <2>1, <2>7
<1> QED
  BY <1>1, FlattenOne DEF concat_chunk_files

LEMMA NothingWritten == ASSUME chunks = << >> PROVE total_written = 0
<1>1. [i \in DOMAIN chunks |-> Body(chunks[i])] = << >>
  OBVIOUS
<1>2. Len(<< >>) = 0
  OBVIOUS
<1> QED
  BY <1>1, <1>2, FlattenEmpty DEF total_written

\* Rows written by the collectors disturb neither the chunks nor the output.
LEMMA ChunksKept ==
    ASSUME ChunksOK, bucket \subseteq bucket', UNCHANGED <<atStart, chunk, chunks>>
    PROVE  ChunksOK'
<1>1. windows' = windows
  BY DEF windows
<1>2. ASSUME NEW i \in 1 .. Len(chunks) PROVE ChunkOf(chunks[i], windows[i])'
  <2>1. ChunkOf(chunks[i], windows[i])
    BY DEF ChunksOK
  <2>2. PICK f, w : f = chunks[i] /\ w = windows[i]
    OBVIOUS
  <2>3. f = chunks[i]' /\ w = windows[i]'
    BY <1>1, <2>2
  <2>4. \E ts \in SUBSET bucket' :
           /\ f = stream_window_once(ts)
           /\ \A t \in ts : w[1] <= t /\ t < w[2]
           /\ \A t \in atStart' : w[1] <= t /\ t < w[2] => t \in ts
    BY <2>1, <2>2 DEF ChunkOf
  <2> QED
    BY <2>3, <2>4 DEF ChunkOf
<1> QED
  BY <1>1, <1>2 DEF ChunksOK

LEMMA OutputKept ==
    ASSUME OutputExact, bucket \subseteq bucket', atStart \subseteq bucket,
           UNCHANGED <<atStart, chunk, output>>
    PROVE  OutputExact'
<1>1. windows' = windows
  BY DEF windows
<1>2. CASE output = Previous
  BY <1>2 DEF OutputExact, Previous
<1>3. CASE ExactFile(output)
  <2>1. (build_export_query(windows[1]) \cap atStart)' = build_export_query(windows[1]) \cap atStart
    BY <1>1 DEF build_export_query
  <2>2. PICK o : o = output
    OBVIOUS
  <2>3. ExactFile(o)'
    <3>1. PICK rows \in {o, Tail(o)} :
             /\ o \in {rows, <<Header>> \o rows}
             /\ Len(rows) = Cardinality(ToSet(rows))
             /\ {t \in atStart : t < Stop} \subseteq ToSet(rows)
             /\ ToSet(rows) \subseteq bucket \cap (Start .. Stop - 1)
             /\ build_export_query(windows[1]) \cap atStart # {} => Head(o) = Header
      BY <1>3, <2>2 DEF ExactFile
    <3>2. ToSet(rows) \subseteq bucket' \cap (Start .. Stop - 1)
      BY <3>1
    <3> QED
      BY <2>1, <3>1, <3>2 DEF ExactFile
  <2> QED
    BY <2>2, <2>3 DEF OutputExact
<1> QED
  BY <1>2, <1>3 DEF OutputExact

LEMMA ExportInitInv == ExportInit => BulkInv
<1> SUFFICES ASSUME ExportInit PROVE BulkInv
  OBVIOUS
<1>1. chunk \in Nat /\ chunks = << >> /\ step = "check" /\ output = Previous
  BY ExportAssumption DEF ExportInit
<1>2. ChunksOK
  BY <1>1, NoChunks
<1> QED
  BY <1>1, <1>2 DEF ExportInit, BulkInv, OutputExact

\* A step that only ends the export, or only moves it on before any window.
LEMMA QuietStep ==
    ASSUME BulkInv, bucket \subseteq bucket', bucket' \subseteq Times,
           UNCHANGED <<atStart, chunk, output>>, chunks' = << >>, step' \notin {"concat", "rename"}
    PROVE  BulkInv'
<1>1. chunk' \in Nat /\ chunk' \in ChunkSizes
  BY ExportAssumption DEF BulkInv
<1>2. ChunksOK'
  BY <1>1, NoChunksLeft
<1>3. OutputExact'
  BY OutputKept DEF BulkInv
<1> QED
  BY <1>1, <1>2, <1>3 DEF BulkInv

LEMMA ExportNextInv == BulkInv /\ [ExportNext]_exportVars => BulkInv'
<1> SUFFICES ASSUME BulkInv, [ExportNext]_exportVars PROVE BulkInv'
  OBVIOUS
<1>0. /\ bucket \subseteq Times /\ atStart \subseteq bucket /\ chunk \in ChunkSizes /\ chunk \in Nat
      /\ ChunksOK /\ OutputExact
  BY ExportAssumption DEF BulkInv
<1>1. ASSUME UNCHANGED <<bucket, atStart, chunk, chunks>>
      PROVE  windows' = windows /\ Single' = Single /\ ChunksOK'
             /\ concat_chunk_files(chunks)' = concat_chunk_files(chunks)
  <2>1. windows' = windows
    BY <1>1 DEF windows
  <2> QED
    BY <1>0, <1>1, <2>1, ChunksKept DEF Single
<1>2. CASE bucket_exists
  <2>1. chunks = << >>
    BY <1>2 DEF bucket_exists, BulkInv
  <2> QED
    BY <1>0, <1>2, <2>1, QuietStep DEF bucket_exists
<1>3. CASE preflight
  <2>1. chunks = << >>
    BY <1>3 DEF preflight, BulkInv
  <2> QED
    BY <1>0, <1>3, <2>1, QuietStep DEF preflight, Exits
<1>4. CASE WindowDone
  <2>1. PICK f : f = stream_window_once(Current) /\ chunks' = Append(chunks, f) /\ Writes(f)
    BY <1>4 DEF WindowDone
  <2>2. /\ step = "window" /\ step' = "window" /\ Len(chunks) < Len(windows)
        /\ UNCHANGED <<bucket, atStart, chunk, output>>
    BY <1>4 DEF WindowDone
  <2>3. windows' = windows /\ Single' = Single
    BY <2>2 DEF windows, Single
  <2>4. PICK n, w : n = Len(chunks) /\ w = windows
    OBVIOUS
  <2>5. n \in Nat /\ Len(w) \in Nat /\ n < Len(w) /\ n + 1 <= Len(w) /\ chunks \in Seq(Seq(Int))
    <3>1. Len(w) \in Nat
      BY <1>0, <2>4, WindowsTile DEF Tiles
    <3> QED
      BY <1>0, <2>2, <2>4, <3>1 DEF ChunksOK
  <2>6. PICK ts : ts = Current
    OBVIOUS
  <2>7. ts = {t \in bucket : w[n + 1][1] <= t /\ t < w[n + 1][2]}
    BY <2>4, <2>6 DEF Current, build_export_query
  <2>8. ChunkOf(f, w[n + 1])
    BY <1>0, <2>1, <2>6, <2>7 DEF ChunkOf
  <2>9. f \in Seq(Int)
    <3>1. ts \subseteq Nat /\ IsFiniteSet(ts)
      BY <1>0, <2>7, Stored
    <3> QED
      BY <2>1, <2>6, <3>1, FileIs DEF FileParts
  <2>10. /\ chunks' \in Seq(Seq(Int)) /\ Len(chunks') = n + 1 /\ chunks'[n + 1] = f
         /\ \A i \in 1 .. n : chunks'[i] = chunks[i]
    BY <2>1, <2>4, <2>5, <2>9
  <2>11. ChunksOK'
    <3>1. ASSUME NEW i \in 1 .. n + 1 PROVE ChunkOf(chunks'[i], w[i])
      <4>1. CASE i = n + 1
        BY <2>8, <2>10, <4>1
      <4>2. CASE i # n + 1
        <5>1. i \in 1 .. n
          BY <2>5, <4>2
        <5> QED
          BY <1>0, <2>4, <2>10, <5>1 DEF ChunksOK
      <4> QED
        BY <4>1, <4>2
    <3>2. ASSUME NEW i \in 1 .. n + 1 PROVE ChunkOf(chunks[i], windows[i])'
      BY <2>2, <2>3, <2>4, <3>1, <3>2 DEF ChunkOf
    <3> QED
      BY <2>3, <2>4, <2>5, <2>10, <3>2 DEF ChunksOK
  <2>12. OutputExact'
    BY <1>0, <2>2, OutputKept
  <2>13. Single => chunks' = <<part'>>
    <3> SUFFICES ASSUME Single PROVE chunks' = <<part'>>
      OBVIOUS
    <3>1. Len(w) = 1
      BY <2>4 DEF Single
    <3>2. n = 0
      BY <2>5, <3>1
    <3>3. chunks = << >>
      <4>1. chunks # << >> => Len(chunks) # 0
        BY <1>0 DEF ChunksOK
      <4> QED
        BY <2>4, <3>2, <4>1
    <3> QED
      BY <2>1, <3>3 DEF Writes
  <2> QED
    BY <1>0, <2>2, <2>3, <2>11, <2>12, <2>13 DEF BulkInv
<1>5. CASE WindowFails
  <2>1. /\ step = "window" /\ step' = "window" /\ Len(chunks) < Len(windows)
        /\ UNCHANGED <<bucket, atStart, chunk, chunks, output>>
    BY <1>5 DEF WindowFails
  <2>2. ~(Single /\ chunks # << >>)
    <3>1. Len(chunks) \in Nat /\ (chunks # << >> => Len(chunks) # 0)
      BY <1>0 DEF ChunksOK
    <3>2. PICK m, k : m = Len(windows) /\ k = Len(chunks)
      OBVIOUS
    <3>3. k \in Nat /\ k < m
      BY <2>1, <3>1, <3>2
    <3>4. Single => k = 0
      <4>1. Single => m = 1
        BY <3>2 DEF Single
      <4> QED
        BY <3>3, <4>1
    <3> QED
      BY <3>1, <3>2, <3>4
  <2>3. OutputExact'
    BY <1>0, <2>1, OutputKept
  <2> QED
    BY <1>0, <1>1, <2>1, <2>2, <2>3 DEF BulkInv
<1>6. CASE ExportFails
  BY <1>0, <1>6, QuietStep DEF ExportFails, Exits
<1>7. CASE WindowsDone
  <2>1. /\ step = "window" /\ step' = (IF Single THEN "rename" ELSE "concat") /\ Len(chunks) = Len(windows)
        /\ UNCHANGED <<bucket, atStart, chunk, chunks, part, output>>
    BY <1>7 DEF WindowsDone
  <2>2. step' = "rename" /\ chunks # << >> => part = concat_chunk_files(chunks)
    <3> SUFFICES ASSUME step' = "rename", chunks # << >> PROVE part = concat_chunk_files(chunks)
      OBVIOUS
    <3>1. chunks = <<part>>
      BY <2>1 DEF BulkInv
    <3>2. part \in Seq(Int)
      <4>1. chunks \in Seq(Seq(Int)) /\ Len(chunks) = 1 /\ chunks[1] = part
        BY <1>0, <3>1 DEF ChunksOK
      <4> QED
        BY <4>1
    <3> QED
      BY <3>1, <3>2, JoinOne
  <2>3. OutputExact'
    BY <1>0, <2>1, OutputKept
  <2> QED
    BY <1>0, <1>1, <2>1, <2>2, <2>3 DEF BulkInv
<1>8. CASE Concat
  <2>1. /\ step = "concat" /\ step' = "rename" /\ part' = concat_chunk_files(chunks)
        /\ UNCHANGED <<bucket, atStart, chunk, chunks, output>>
    BY <1>8 DEF Concat
  <2>2. OutputExact' /\ Len(chunks) = Len(windows)
    BY <1>0, <2>1, OutputKept DEF BulkInv
  <2> QED
    BY <1>0, <1>1, <2>1, <2>2 DEF BulkInv
<1>9. CASE Rename
  <2>1. /\ step = "rename" /\ step' = "ended" /\ chunks' = << >> /\ UNCHANGED <<bucket, atStart, chunk>>
        /\ output' = IF total_written = 0 THEN output ELSE part
    BY <1>9 DEF Rename, Exits
  <2>2. CASE output' = output
    BY <1>0, <2>1, <2>2, QuietStep
  <2>3. CASE output' # output
    <3>1. chunks # << >> /\ output' = part
      BY <2>1, <2>3, NothingWritten
    <3>2. part = concat_chunk_files(chunks) /\ Len(chunks) = Len(windows)
      BY <2>1, <3>1 DEF BulkInv
    <3>3. ExactFile(output')
      BY <1>0, <3>1, <3>2, JoinedExact
    <3>4. windows' = windows
      BY <2>1 DEF windows
    <3>5. OutputExact'
      BY <2>1, <3>3, <3>4 DEF OutputExact, ExactFile, build_export_query
    <3>6. ChunksOK'
      BY <1>0, <2>1, NoChunksLeft
    <3> QED
      BY <1>0, <2>1, <3>5, <3>6 DEF BulkInv
  <2> QED
    BY <2>2, <2>3
<1>10. CASE Interrupt
  BY <1>0, <1>10, QuietStep DEF Interrupt, Exits
<1>11. ASSUME NEW t \in Times, InfluxWrite(t) PROVE BulkInv'
  <2>1. /\ bucket' = bucket \cup {t} /\ UNCHANGED <<atStart, chunk, step, chunks, part, output>>
    BY <1>11 DEF InfluxWrite
  <2>2. windows' = windows /\ Single' = Single /\ concat_chunk_files(chunks)' = concat_chunk_files(chunks)
    BY <2>1 DEF windows, Single
  <2>3. ChunksOK' /\ OutputExact'
    BY <1>0, <2>1, ChunksKept, OutputKept
  <2> QED
    BY <1>0, <2>1, <2>2, <2>3 DEF BulkInv
<1>12. CASE UNCHANGED exportVars
  <2>1. UNCHANGED <<bucket, atStart, chunk, step, chunks, part, output>>
    BY <1>12 DEF exportVars
  <2>2. OutputExact'
    BY <1>0, <2>1, OutputKept
  <2> QED
    BY <1>0, <1>1, <2>1, <2>2 DEF BulkInv
<1> QED
  BY <1>2, <1>3, <1>4, <1>5, <1>6, <1>7, <1>8, <1>9, <1>10, <1>11, <1>12 DEF ExportNext, ExportStep

\* Whatever the range, the chunk size and the number of retries, whatever the
\* collectors write meanwhile and wherever the export fails or is interrupted, its
\* output is the previous file or a whole new one (export_metrics_to_csv).
THEOREM ExportExact == ExportSpec => []OutputExact
<1>1. BulkInv => OutputExact
  BY DEF BulkInv
<1> QED
  BY <1>1, ExportInitInv, ExportNextInv, PTL DEF ExportSpec
=============================================================================
