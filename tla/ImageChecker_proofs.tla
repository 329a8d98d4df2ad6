------------------------ MODULE ImageChecker_proofs ------------------------
(***************************************************************************)
(* Theorems about project 3.                                               *)
(*                                                                         *)
(* Of lab3a: what it prints is what is on the disk.  Its lines are counted *)
(* by one-to-one correspondences with what they are printed for (Lists),   *)
(* built up along the sequences that the program puts together.            *)
(*                                                                         *)
(* Of lab3b: of whatever summary it reads, its errors about blocks are     *)
(* those that the lines contain, in whatever order they come.              *)
(*                                                                         *)
(* Of both together: the errors, about blocks, inodes and parents, are     *)
(* those of the disk.                                                      *)
(***************************************************************************)
EXTENDS ImageChecker, FiniteSetTheorems, TLAPS

-----------------------------------------------------------------------------
(*                        LAB3A: THE SUMMARY                               *)

(* Induction, over sets of numbers.                                        *)

LEMMA LeastNumber ==
    ASSUME NEW S \in SUBSET Nat, S # {}
    PROVE  \E m \in S : \A k \in S : m <= k
<1> DEFINE T == {0 .. k : k \in S}
<1>1. T \subseteq FiniteSubsetsOf(Nat)
  <2> SUFFICES ASSUME NEW k \in S PROVE 0 .. k \in SUBSET Nat /\ IsFiniteSet(0 .. k)
    BY DEF FiniteSubsetsOf
  <2> QED
    BY FS_Interval
<1>2. T # {}
  OBVIOUS
<1>3. \E x \in T : \A y \in T : ~ (<<y, x>> \in StrictSubsetOrdering(Nat))
  <2> HIDE DEF T
  <2> QED
    BY <1>1, <1>2, FS_StrictSubsetOrderingWellFounded, WFMin
<1>4. PICK m \in S : \A k \in S : ~ (<<0 .. k, 0 .. m>> \in StrictSubsetOrdering(Nat))
  BY <1>3
<1>5. ASSUME NEW k \in S, k < m PROVE FALSE
  <2>1. 0 .. k \subseteq 0 .. m /\ 0 .. k # 0 .. m /\ 0 .. m \subseteq Nat
    <3>1. m \in 0 .. m /\ m \notin 0 .. k
      BY <1>5
    <3> QED
      BY <3>1, <1>5
  <2> QED
    BY <2>1, <1>4 DEF StrictSubsetOrdering
<1> QED
  BY <1>5

LEMMA Induct ==
    ASSUME NEW a \in Nat, NEW b \in Nat, NEW S, a \in S, \A n \in a + 1 .. b : n - 1 \in S => n \in S
    PROVE  a .. b \subseteq S
<1> DEFINE T == {n \in a .. b : n \notin S}
<1> SUFFICES ASSUME T # {} PROVE FALSE
  OBVIOUS
<1>1. PICK m \in T : \A k \in T : m <= k
  <2>1. T \in SUBSET Nat
    OBVIOUS
  <2> HIDE DEF T
  <2> QED
    BY <2>1, LeastNumber
<1>2. m # a /\ m \in a + 1 .. b /\ m - 1 \in a .. b /\ m - 1 \notin T
  BY <1>1
<1> QED
  BY <1>1, <1>2

-----------------------------------------------------------------------------
(* A sequence lists f over S: it has the value of f for every member of S, *)
(* each once, in some order.                                               *)

Numbers(g, s, S, f) ==
    /\ g \in [1 .. Len(s) -> S]
    /\ \A m, n \in 1 .. Len(s) : g[m] = g[n] => m = n
    /\ \A x \in S : \E n \in 1 .. Len(s) : g[n] = x
    /\ \A n \in 1 .. Len(s) : s[n] = f[g[n]]

Lists(s, S, f) == s \in Seq({f[x] : x \in S}) /\ \E g : Numbers(g, s, S, f)

LEMMA SeqFromFcn ==
    ASSUME NEW N \in Nat, NEW s, NEW T, s \in [1 .. N -> T]
    PROVE  s \in Seq(T) /\ Len(s) = N
OBVIOUS

LEMMA ListsEmpty == ASSUME NEW f PROVE Lists(<<>>, {}, f)
<1> DEFINE g == [n \in 1 .. 0 |-> 0]
<1>1. Numbers(g, <<>>, {}, f)
  BY DEF Numbers
<1> QED
  BY <1>1 DEF Lists

(* Another sequence of the same values.                                    *)
LEMMA ListsImage ==
    ASSUME NEW s, NEW S, NEW f, Lists(s, S, f), NEW t, NEW e,
           t = [n \in 1 .. Len(s) |-> t[n]],
           \A n \in 1 .. Len(s), x \in S : s[n] = f[x] => t[n] = e[x]
    PROVE  Lists(t, S, e) /\ Len(t) = Len(s)
<1>1. PICK g : Numbers(g, s, S, f)
  BY DEF Lists
<1>2. Len(s) \in Nat
  BY DEF Lists
<1>3. \A n \in 1 .. Len(s) : g[n] \in S /\ t[n] = e[g[n]]
  BY <1>1 DEF Numbers
<1>4. t \in Seq({e[x] : x \in S}) /\ Len(t) = Len(s)
  <2>1. t \in [1 .. Len(s) -> {e[x] : x \in S}]
    BY <1>3
  <2> QED
    BY <1>2, <2>1, SeqFromFcn
<1>5. Numbers(g, t, S, e)
  BY <1>1, <1>3, <1>4 DEF Numbers
<1> QED
  BY <1>4, <1>5 DEF Lists

(* The same sequence, over another set.                                    *)
Carries(b, S, f, T, e) ==
    /\ b \in [S -> T]
    /\ \A x, y \in S : b[x] = b[y] => x = y
    /\ \A y \in T : \E x \in S : b[x] = y
    /\ \A x \in S : f[x] = e[b[x]]

LEMMA ListsRebase ==
    ASSUME NEW s, NEW S, NEW f, Lists(s, S, f), NEW T, NEW e, NEW b, Carries(b, S, f, T, e)
    PROVE  Lists(s, T, e)
<1>1. PICK g : Numbers(g, s, S, f)
  BY DEF Lists
<1> DEFINE h == [n \in 1 .. Len(s) |-> b[g[n]]]
<1>2. Numbers(h, s, T, e)
  BY <1>1 DEF Numbers, Carries
<1>3. {f[x] : x \in S} \subseteq {e[y] : y \in T}
  BY DEF Carries
<1>4. s \in Seq({e[y] : y \in T})
  BY <1>3 DEF Lists
<1> QED
  BY <1>2, <1>4 DEF Lists

LEMMA ListsConcat ==
    ASSUME NEW s, NEW S, NEW t, NEW T, NEW f, Lists(s, S, f), Lists(t, T, f), S \cap T = {}
    PROVE  Lists(s \o t, S \cup T, f)
<1> DEFINE V == {f[x] : x \in S \cup T}
<1>1. PICK g : Numbers(g, s, S, f)
  BY DEF Lists
<1>2. PICK h : Numbers(h, t, T, f)
  BY DEF Lists
<1>3. s \in Seq(V) /\ t \in Seq(V)
  <2>1. {f[x] : x \in S} \subseteq V /\ {f[x] : x \in T} \subseteq V
    OBVIOUS
  <2> QED
    BY <2>1 DEF Lists
<1>4. /\ s \o t \in Seq(V) /\ Len(s) \in Nat /\ Len(t) \in Nat /\ Len(s \o t) = Len(s) + Len(t)
      /\ \A i \in 1 .. Len(s) + Len(t) : (s \o t)[i] = IF i <= Len(s) THEN s[i] ELSE t[i - Len(s)]
  <2> HIDE DEF V
  <2> QED
    BY <1>3
<1> DEFINE k == [n \in 1 .. Len(s) + Len(t) |-> IF n <= Len(s) THEN g[n] ELSE h[n - Len(s)]]
<1> HIDE DEF V
<1>5. k \in [1 .. Len(s) + Len(t) -> S \cup T]
  BY <1>1, <1>2, <1>4 DEF Numbers
<1>6. ASSUME NEW m \in 1 .. Len(s) + Len(t), NEW n \in 1 .. Len(s) + Len(t), k[m] = k[n]
      PROVE  m = n
  <2>1. ASSUME NEW i \in 1 .. Len(s) + Len(t)
        PROVE  IF i <= Len(s) THEN i \in 1 .. Len(s) /\ k[i] = g[i] /\ k[i] \in S
               ELSE i - Len(s) \in 1 .. Len(t) /\ k[i] = h[i - Len(s)] /\ k[i] \in T
    <3>1. i <= Len(s) => i \in 1 .. Len(s) /\ g[i] \in S
      BY <1>1, <1>4 DEF Numbers
    <3>2. ~(i <= Len(s)) => i - Len(s) \in 1 .. Len(t)
      BY <1>4
    <3>3. ~(i <= Len(s)) => h[i - Len(s)] \in T
      BY <1>2, <3>2 DEF Numbers
    <3> QED
      BY <3>1, <3>2, <3>3
  <2> HIDE DEF k
  <2>2. CASE m <= Len(s)
    <3>1. n <= Len(s)
      BY <1>6, <2>1, <2>2
    <3> QED
      BY <1>1, <1>6, <2>1, <2>2, <3>1 DEF Numbers
  <2>3. CASE ~(m <= Len(s))
    <3>1. ~(n <= Len(s))
      BY <1>6, <2>1, <2>3
    <3>2. m - Len(s) = n - Len(s)
      BY <1>2, <1>6, <2>1, <2>3, <3>1 DEF Numbers
    <3> QED
      BY <1>4, <3>2
  <2> QED
    BY <2>2, <2>3
<1>7. ASSUME NEW x \in S \cup T PROVE \E n \in 1 .. Len(s) + Len(t) : k[n] = x
  <2>1. CASE x \in S
    <3>1. PICK n \in 1 .. Len(s) : g[n] = x
      BY <1>1, <2>1 DEF Numbers
    <3> QED
      BY <1>4, <3>1
  <2>2. CASE x \in T
    <3>1. PICK n \in 1 .. Len(t) : h[n] = x
      BY <1>2, <2>2 DEF Numbers
    <3>2. n + Len(s) \in 1 .. Len(s) + Len(t) /\ ~(n + Len(s) <= Len(s)) /\ n + Len(s) - Len(s) = n
      BY <1>4
    <3>3. k[n + Len(s)] = x
      BY <3>1, <3>2
    <3> QED
      BY <3>2, <3>3
  <2> QED
    BY <2>1, <2>2
<1>8. \A n \in 1 .. Len(s) + Len(t) : (s \o t)[n] = f[k[n]]
  BY <1>1, <1>2, <1>4 DEF Numbers
<1>9. Numbers(k, s \o t, S \cup T, f)
  <2> HIDE DEF k
  <2> QED
    BY <1>4, <1>5, <1>6, <1>7, <1>8 DEF Numbers
<1> QED
  BY <1>4, <1>9 DEF Lists, V

-----------------------------------------------------------------------------
(* FlattenSeq: the function by which it is defined exists.                 *)

Flattens(f, ss, n) == f = [i \in 1 .. n |-> IF i = 1 THEN ss[i] ELSE f[i - 1] \o ss[i]]

LEMMA FlattensExists ==
    ASSUME NEW ss, NEW n \in Nat \ {0}
    PROVE  \E f : Flattens(f, ss, n)
<1> DEFINE S == {k \in Nat : \E f : Flattens(f, ss, k)}
<1>1. 1 \in S
  <2> DEFINE f == [i \in 1 .. 1 |-> ss[i]]
  <2>1. Flattens(f, ss, 1)
    BY DEF Flattens
  <2> QED
    BY <2>1
<1>2. ASSUME NEW k \in 2 .. n, k - 1 \in S PROVE k \in S
  <2>1. PICK f : Flattens(f, ss, k - 1)
    BY <1>2
  <2> DEFINE h == [i \in 1 .. k |-> IF i = k THEN f[k - 1] \o ss[k] ELSE f[i]]
  <2>2. ASSUME NEW i \in 1 .. k
        PROVE  h[i] = IF i = 1 THEN ss[i] ELSE h[i - 1] \o ss[i]
    <3>1. CASE i = k
      <4>1. h[i - 1] = f[k - 1] /\ i # 1
        BY <3>1, <1>2
      <4> QED
        BY <3>1, <4>1
    <3>2. CASE i # k
      <4>1. i \in 1 .. k - 1 /\ h[i] = f[i]
        BY <3>2, <1>2
      <4>2. f[i] = IF i = 1 THEN ss[i] ELSE f[i - 1] \o ss[i]
        BY <2>1, <4>1 DEF Flattens
      <4>3. i # 1 => i - 1 \in 1 .. k /\ i - 1 # k /\ h[i - 1] = f[i - 1]
        BY <4>1, <1>2
      <4> QED
        BY <4>1, <4>2, <4>3
    <3> QED
      BY <3>1, <3>2
  <2>3. Flattens(h, ss, k)
    <3>1. h = [i \in 1 .. k |-> h[i]]
      OBVIOUS
    <3> HIDE DEF h
    <3> QED
      BY <2>2, <3>1 DEF Flattens
  <2> QED
    BY <1>2, <2>3
<1>3. 1 .. n \subseteq S
  <2> HIDE DEF S
  <2> QED
    BY <1>1, <1>2, Induct
<1> QED
  BY <1>3

LEMMA FlattenDef ==
    ASSUME NEW ss, Len(ss) \in Nat \ {0}
    PROVE  \E f : Flattens(f, ss, Len(ss)) /\ FlattenSeq(ss) = f[Len(ss)]
<1> DEFINE f == CHOOSE f : Flattens(f, ss, Len(ss))
<1>1. Flattens(f, ss, Len(ss))
  BY FlattensExists
<1>2. FlattenSeq(ss) = f[Len(ss)]
  BY DEF FlattenSeq, Flattens
<1> QED
  BY <1>1, <1>2

(* A concatenation of listings of disjoint sets.                           *)
LEMMA ListsFlatten ==
    ASSUME NEW n \in Nat, NEW ss, ss = [i \in 1 .. n |-> ss[i]], NEW T, NEW f,
           \A i \in 1 .. n : Lists(ss[i], T[i], f),
           \A i, j \in 1 .. n : i # j => T[i] \cap T[j] = {}
    PROVE  Lists(FlattenSeq(ss), UNION {T[i] : i \in 1 .. n}, f)
<1>1. Len(ss) = n
  <2>1. ss \in [1 .. n -> {ss[i] : i \in 1 .. n}]
    OBVIOUS
  <2> QED
    BY <2>1, SeqFromFcn
<1>2. CASE n = 0
  <2>1. ss = <<>>
    BY <1>2
  <2>2. FlattenSeq(ss) = <<>>
    BY <1>1, <1>2, <2>1 DEF FlattenSeq
  <2>3. UNION {T[i] : i \in 1 .. n} = {}
    BY <1>2
  <2> QED
    BY <2>2, <2>3, ListsEmpty
<1>3. CASE n # 0
  <2>1. PICK h : Flattens(h, ss, n) /\ FlattenSeq(ss) = h[n]
    BY <1>1, <1>3, FlattenDef
  <2> DEFINE S == {k \in Nat : Lists(h[k], UNION {T[i] : i \in 1 .. k}, f)}
  <2>2. 1 \in S
    <3>1. h[1] = ss[1] /\ 1 \in 1 .. n
      BY <1>3, <2>1 DEF Flattens
    <3>2. UNION {T[i] : i \in 1 .. 1} = T[1]
      OBVIOUS
    <3> QED
      BY <3>1, <3>2
  <2>3. ASSUME NEW k \in 2 .. n, k - 1 \in S PROVE k \in S
    <3>1. h[k] = h[k - 1] \o ss[k] /\ k \in 1 .. n
      <4>1. k \in 1 .. n /\ k # 1
        OBVIOUS
      <4> QED
        BY <2>1, <4>1 DEF Flattens
    <3> DEFINE U == UNION {T[i] : i \in 1 .. k - 1}
    <3>2. UNION {T[i] : i \in 1 .. k} = U \cup T[k]
      <4>1. 1 .. k = (1 .. k - 1) \cup {k}
        OBVIOUS
      <4> QED
        BY <4>1
    <3>3. U \cap T[k] = {}
      <4>1. \A i \in 1 .. k - 1 : i \in 1 .. n /\ i # k
        OBVIOUS
      <4> QED
        BY <3>1, <4>1
    <3>4. Lists(h[k - 1], U, f)
      BY <2>3
    <3> HIDE DEF U
    <3>5. Lists(h[k - 1] \o ss[k], U \cup T[k], f)
      BY <3>1, <3>3, <3>4, ListsConcat
    <3>6. Lists(h[k], UNION {T[i] : i \in 1 .. k}, f)
      <4>1. h[k - 1] \o ss[k] = h[k] /\ U \cup T[k] = UNION {T[i] : i \in 1 .. k}
        BY <3>1, <3>2
      <4> QED
        BY <3>5, <4>1, Zenon
    <3> QED
      BY <3>6
  <2>4. 1 .. n \subseteq S
    <3> HIDE DEF S
    <3>1. \A k \in 1 + 1 .. n : k - 1 \in S => k \in S
      BY <2>3
    <3> QED
      BY <2>2, <3>1, Induct
  <2>5. n \in S
    <3> HIDE DEF S
    <3> QED
      BY <1>3, <2>4
  <2> QED
    BY <2>1, <2>5
<1> QED
  BY <1>2, <1>3

-----------------------------------------------------------------------------
(* Ascending and Picked.                                                   *)

LEMMA AscendingLists ==
    ASSUME NEW S \in SUBSET Nat, IsFiniteSet(S), NEW f, \A n \in S : f[n] = n
    PROVE  Lists(Ascending(S), S, f)
<1> DEFINE N == Cardinality(S)
           rank(n) == Cardinality(S \cap 0 .. n)
           r == [n \in S |-> rank(n)]
<1>1. N \in Nat
  BY FS_CardinalityType
<1>2. ASSUME NEW n \in S
      PROVE  IsFiniteSet(S \cap 0 .. n) /\ rank(n) \in 1 .. N
  <2>1. S \cap 0 .. n \subseteq S /\ n \in S \cap 0 .. n
    OBVIOUS
  <2>2. IsFiniteSet(S \cap 0 .. n) /\ rank(n) <= N /\ rank(n) \in Nat
    BY <2>1, FS_Subset, FS_CardinalityType
  <2>3. rank(n) # 0
    BY <2>1, <2>2, FS_EmptySet
  <2> QED
    BY <1>1, <2>2, <2>3
<1>3. ASSUME NEW m \in S, NEW n \in S, m < n PROVE rank(m) < rank(n)
  <2>1. S \cap 0 .. m \subseteq S \cap 0 .. n /\ S \cap 0 .. m # S \cap 0 .. n
    <3>1. n \in S \cap 0 .. n /\ n \notin S \cap 0 .. m
      BY <1>3
    <3> QED
      BY <3>1, <1>3
  <2>2. rank(m) <= rank(n) /\ rank(m) # rank(n)
    BY <1>2, <2>1, FS_Subset
  <2> QED
    BY <1>2, <2>2
<1>4. \A m, n \in S : rank(m) = rank(n) => m = n
  <2> SUFFICES ASSUME NEW m \in S, NEW n \in S, rank(m) = rank(n), m # n PROVE FALSE
    OBVIOUS
  <2>1. m < n \/ n < m
    OBVIOUS
  <2>2. rank(m) \in Nat /\ rank(n) \in Nat
    BY <1>2
  <2>3. rank(m) < rank(n) \/ rank(n) < rank(m)
    BY <1>3, <2>1
  <2> HIDE DEF rank
  <2> QED
    BY <2>2, <2>3
<1>5. \A k \in 1 .. N : \E n \in S : rank(n) = k
  <2>1. r \in [S -> 1 .. N] /\ r \in Injection(S, 1 .. N)
    <3>1. r \in [S -> 1 .. N]
      BY <1>2
    <3>2. IsInjective(r)
      BY <1>4 DEF IsInjective
    <3> QED
      BY <3>1, <3>2 DEF Injection
  <2>2. IsFiniteSet(1 .. N) /\ Cardinality(1 .. N) = N
    BY <1>1, FS_Interval
  <2>3. r \in Surjection(S, 1 .. N)
    <3> HIDE DEF r
    <3> QED
      BY <2>1, <2>2, FS_Injection
  <2> QED
    BY <2>3 DEF Surjection
<1> DEFINE s == Ascending(S)
<1>6. ASSUME NEW k \in 1 .. N PROVE s[k] \in S /\ rank(s[k]) = k
  <2>1. s[k] = CHOOSE n \in S : rank(n) = k
    BY DEF Ascending
  <2> QED
    BY <1>5, <2>1
<1>7. s \in [1 .. N -> {f[n] : n \in S}]
  <2> DEFINE e(k) == CHOOSE n \in S : rank(n) = k
  <2>1. s = [k \in 1 .. N |-> s[k]]
    <3>1. s = [k \in 1 .. N |-> e(k)]
      BY DEF Ascending
    <3> HIDE DEF s, e, N
    <3> QED
      BY <3>1
  <2>2. \A k \in 1 .. N : s[k] \in {f[n] : n \in S}
    BY <1>6
  <2> HIDE DEF s, N
  <2> QED
    BY <2>1, <2>2
<1>8. s \in Seq({f[n] : n \in S}) /\ Len(s) = N
  <2> HIDE DEF s, N
  <2> QED
    BY <1>1, <1>7, SeqFromFcn
<1> DEFINE g == [k \in 1 .. N |-> s[k]]
<1>9. Numbers(g, s, S, f)
  <2> HIDE DEF s, N, rank
  <2>1. g \in [1 .. Len(s) -> S]
    BY <1>6, <1>8
  <2>2. \A j, k \in 1 .. Len(s) : g[j] = g[k] => j = k
    BY <1>6, <1>8
  <2>onto. \A n \in S : \E k \in 1 .. Len(s) : g[k] = n
    <3> SUFFICES ASSUME NEW n \in S PROVE \E k \in 1 .. Len(s) : g[k] = n
      OBVIOUS
    <3>1. rank(n) \in 1 .. N
      BY <1>2
    <3>2. s[rank(n)] \in S /\ rank(s[rank(n)]) = rank(n)
      BY <1>6, <3>1
    <3>3. s[rank(n)] = n
      BY <1>4, <3>2
    <3> QED
      BY <1>8, <3>1, <3>3
  <2>4. \A k \in 1 .. Len(s) : s[k] = f[g[k]]
    BY <1>6, <1>8
  <2> QED
    BY <2>1, <2>2, <2>onto, <2>4 DEF Numbers
<1> QED
  BY <1>8, <1>9 DEF Lists

LEMMA OneTo ==
    ASSUME NEW n \in Nat
    PROVE  IsFiniteSet(1 .. n) /\ Cardinality(1 .. n) = n
BY FS_Interval

LEMMA ListsFacts ==
    ASSUME NEW s, NEW S, NEW f, Lists(s, S, f)
    PROVE  /\ IsFiniteSet(S) /\ Cardinality(S) = Len(s) /\ Len(s) \in Nat
           /\ DOMAIN s = 1 .. Len(s)
           /\ ToSet(s) = {f[x] : x \in S}
           /\ \A n \in 1 .. Len(s) : \E x \in S : s[n] = f[x]
           /\ \A x \in S : \E n \in 1 .. Len(s) : s[n] = f[x]
<1>1. PICK g : Numbers(g, s, S, f)
  BY DEF Lists
<1>2. Len(s) \in Nat /\ DOMAIN s = 1 .. Len(s)
  BY DEF Lists
<1>3. IsFiniteSet(S) /\ Cardinality(S) = Len(s)
  <2>1. ExistsBijection(1 .. Len(s), S)
    <3>1. g \in Bijection(1 .. Len(s), S)
      BY <1>1 DEF Numbers, Bijection, Injection, Surjection, IsInjective
    <3> QED
      BY <3>1 DEF ExistsBijection
  <2>2. IsFiniteSet(1 .. Len(s)) /\ Cardinality(1 .. Len(s)) = Len(s)
    BY <1>2, OneTo
  <2> QED
    BY <2>1, <2>2, FS_Bijection
<1>4. /\ \A n \in 1 .. Len(s) : \E x \in S : s[n] = f[x]
      /\ \A x \in S : \E n \in 1 .. Len(s) : s[n] = f[x]
  BY <1>1 DEF Numbers
<1>5. ToSet(s) = {f[x] : x \in S}
  BY <1>2, <1>4 DEF ToSet
<1> QED
  BY <1>2, <1>3, <1>4, <1>5

LEMMA PickedLists ==
    ASSUME NEW lines, NEW S \in SUBSET Nat, IsFiniteSet(S), NEW f, \A n \in S : f[n] = lines[n]
    PROVE  Lists(Picked(lines, S), S, f)
<1> DEFINE at == Ascending(S)
           id == [n \in S |-> n]
           t == Picked(lines, S)
<1>1. Lists(at, S, id)
  BY AscendingLists
<1>2. DOMAIN at = 1 .. Len(at)
  BY <1>1, ListsFacts
<1>3. t = [n \in 1 .. Len(at) |-> lines[at[n]]]
  BY <1>2 DEF Picked
<1>4. t = [n \in 1 .. Len(at) |-> t[n]]
  <2> DEFINE e(n) == lines[at[n]]
  <2>1. t = [n \in 1 .. Len(at) |-> e(n)]
    BY <1>3
  <2> HIDE DEF t, e, at
  <2> QED
    BY <2>1
<1>5. ASSUME NEW n \in 1 .. Len(at), NEW x \in S, at[n] = id[x] PROVE t[n] = f[x]
  <2>1. t[n] = lines[at[n]] /\ at[n] = x
    BY <1>3, <1>5
  <2> QED
    BY <2>1
<1> QED
  <2> HIDE DEF t, at, id
  <2> QED
    BY <1>1, <1>4, <1>5, ListsImage DEF t

(* The members of a listing that are picked by their positions.            *)
LEMMA SubList ==
    ASSUME NEW s, NEW S, NEW f, Lists(s, S, f),
           NEW A \in SUBSET (1 .. Len(s)), NEW W \in SUBSET S,
           \A n \in 1 .. Len(s), x \in S : s[n] = f[x] => (n \in A <=> x \in W)
    PROVE  Lists(Picked(s, A), W, f) /\ Cardinality(A) = Cardinality(W)
<1>1. PICK g : Numbers(g, s, S, f)
  BY DEF Lists
<1>2. A \in SUBSET Nat /\ IsFiniteSet(A)
  <2>1. Len(s) \in Nat
    BY DEF Lists
  <2>2. IsFiniteSet(1 .. Len(s)) /\ 1 .. Len(s) \subseteq Nat
    BY <2>1, OneTo
  <2>3. IsFiniteSet(A)
    BY <2>2, FS_Subset
  <2> QED
    BY <2>2, <2>3
<1> DEFINE e == [n \in A |-> s[n]]
           b == [n \in A |-> g[n]]
<1>3. Lists(Picked(s, A), A, e)
  BY <1>2, PickedLists
<1>4. Carries(b, A, e, W, f)
  BY <1>1 DEF Numbers, Carries
<1>5. Lists(Picked(s, A), W, f)
  <2> HIDE DEF b, e
  <2> QED
    BY <1>3, <1>4, ListsRebase
<1> QED
  BY <1>3, <1>5, ListsFacts

(* A sequence lists its own positions; the values of a concatenation.      *)
LEMMA ListsPositions ==
    ASSUME NEW N \in Nat, NEW s, s = [n \in 1 .. N |-> s[n]], NEW f, \A n \in 1 .. N : s[n] = f[n]
    PROVE  Lists(s, 1 .. N, f)
<1> DEFINE g == [n \in 1 .. N |-> n]
<1>1. s \in [1 .. N -> {f[n] : n \in 1 .. N}]
  OBVIOUS
<1>2. s \in Seq({f[n] : n \in 1 .. N}) /\ Len(s) = N
  BY <1>1, SeqFromFcn
<1>3. Numbers(g, s, 1 .. N, f)
  BY <1>2 DEF Numbers
<1> QED
  BY <1>2, <1>3 DEF Lists

LEMMA ListsItself ==
    ASSUME NEW V, NEW s \in Seq(V)
    PROVE  Lists(s, 1 .. Len(s), s)
<1>1. Len(s) \in Nat /\ s = [n \in 1 .. Len(s) |-> s[n]]
  OBVIOUS
<1> QED
  BY <1>1, ListsPositions

Has(s, v) == \E m \in 1 .. Len(s) : s[m] = v

LEMMA FlattenValues ==
    ASSUME NEW n \in Nat, NEW ss, ss = [i \in 1 .. n |-> ss[i]], NEW V,
           \A i \in 1 .. n : ss[i] \in Seq(V)
    PROVE  /\ FlattenSeq(ss) \in Seq(V)
           /\ \A i \in 1 .. n : \A k \in 1 .. Len(ss[i]) : Has(FlattenSeq(ss), ss[i][k])
<1> DEFINE T == [i \in 1 .. n |-> {i} \X (1 .. Len(ss[i]))]
           U == UNION {T[i] : i \in 1 .. n}
           f == [x \in U |-> ss[x[1]][x[2]]]
           t == FlattenSeq(ss)
<1>1. ASSUME NEW i \in 1 .. n PROVE Lists(ss[i], T[i], f)
  <2> DEFINE b == [k \in 1 .. Len(ss[i]) |-> <<i, k>>]
             q == ss[i]
  <2>1. Lists(q, 1 .. Len(q), q)
    BY ListsItself
  <2>2. Carries(b, 1 .. Len(q), q, T[i], f)
    <3>1. T[i] \subseteq U
      OBVIOUS
    <3>2. \A k \in 1 .. Len(q) : b[k] = <<i, k>> /\ b[k] \in T[i] /\ f[b[k]] = q[k]
      BY <3>1
    <3>3. \A y \in T[i] : \E k \in 1 .. Len(q) : y = <<i, k>>
      OBVIOUS
    <3>4. b = [k \in 1 .. Len(q) |-> b[k]]
      OBVIOUS
    <3> HIDE DEF b, q, f, U, T
    <3> QED
      BY <3>2, <3>3, <3>4 DEF Carries
  <2> HIDE DEF b, q, f, T
  <2>3. Lists(q, T[i], f)
    BY <2>1, <2>2, ListsRebase
  <2> QED
    BY <2>3 DEF q
<1>2. \A i, j \in 1 .. n : i # j => T[i] \cap T[j] = {}
  OBVIOUS
<1>3. Lists(t, U, f)
  <2> HIDE DEF f, T
  <2> QED
    BY <1>1, <1>2, ListsFlatten
<1>4. \A x \in U : x[1] \in 1 .. n /\ x[2] \in 1 .. Len(ss[x[1]]) /\ f[x] = ss[x[1]][x[2]]
  OBVIOUS
<1>5. \A i \in 1 .. n : \A k \in 1 .. Len(ss[i]) : <<i, k>> \in U /\ f[<<i, k>>] = ss[i][k]
  <2> SUFFICES ASSUME NEW i \in 1 .. n, NEW k \in 1 .. Len(ss[i])
               PROVE  <<i, k>> \in U /\ f[<<i, k>>] = ss[i][k]
    OBVIOUS
  <2>1. <<i, k>> \in T[i]
    OBVIOUS
  <2>2. <<i, k>> \in U
    BY <2>1
  <2> QED
    BY <2>2
<1> HIDE DEF U, f, T, t
<1>6. t \in Seq(V)
  <2>1. {f[x] : x \in U} \subseteq V
    BY <1>4
  <2> QED
    BY <1>3, <2>1 DEF Lists
<1> QED
  <2>1. \A x \in U : \E m \in 1 .. Len(t) : t[m] = f[x]
    BY <1>3, ListsFacts
  <2>2. \A x \in U : Has(t, f[x])
    BY <2>1 DEF Has
  <2>3. \A i \in 1 .. n : \A k \in 1 .. Len(ss[i]) : Has(t, ss[i][k])
    BY <1>5, <2>2
  <2> QED
    BY <1>6, <2>3 DEF t

-----------------------------------------------------------------------------
(* Sums of values that are the same apart from one.                        *)

First(s) == CHOOSE x \in s : TRUE
Sums(h, w, S) == h = [s \in SUBSET S |-> IF s = {} THEN 0 ELSE w[First(s)] + h[s \ {First(s)}]]

(* The sum over a set on which w is c, apart from one point.               *)
Apart(w, a, c, s) == c * Cardinality(s \ {a}) + (IF a \in s THEN w[a] ELSE 0)
But(w, a, c, S) == [s \in SUBSET S |-> Apart(w, a, c, s)]

Flat(w, a, c, S) ==
    IsFiniteSet(S) /\ a \in S /\ c \in Int /\ w[a] \in Int /\ \A x \in S \ {a} : w[x] = c

Splits(w, a, c, S, s) ==
    /\ Apart(w, a, c, s) \in Int
    /\ s = {} => Apart(w, a, c, s) = 0
    /\ s # {} => /\ First(s) \in s /\ s \ {First(s)} \in SUBSET S
                 /\ Apart(w, a, c, s) = w[First(s)] + Apart(w, a, c, s \ {First(s)})

LEMMA ApartStep ==
    ASSUME NEW S, NEW w, NEW a, NEW c, Flat(w, a, c, S), NEW s \in SUBSET S
    PROVE  Splits(w, a, c, S, s)
<1>0. IsFiniteSet(S) /\ a \in S /\ c \in Int /\ w[a] \in Int /\ \A x \in S \ {a} : w[x] = c
  BY DEF Flat
<1>1. IsFiniteSet(s) /\ IsFiniteSet(s \ {a})
  BY <1>0, FS_Subset, FS_RemoveElement
<1>2. Cardinality(s \ {a}) \in Nat
  BY <1>1, FS_CardinalityType
<1> DEFINE n == Cardinality(s \ {a})
<1>3. c * n \in Int
  <2> HIDE DEF n
  <2> QED
    BY <1>2, <1>0 DEF n
<1>4. Apart(w, a, c, s) \in Int
  BY <1>3, <1>0 DEF Apart
<1>5. ASSUME s = {} PROVE Apart(w, a, c, s) = 0
  <2>1. s \ {a} = {} /\ Cardinality({}) = 0 /\ a \notin s
    BY <1>5, FS_EmptySet
  <2>2. Cardinality(s \ {a}) = 0
    BY <2>1
  <2>3. c * 0 = 0
    BY <1>0
  <2> QED
    BY <2>1, <2>2, <2>3 DEF Apart
<1>6. ASSUME s # {}
      PROVE  /\ First(s) \in s /\ s \ {First(s)} \in SUBSET S
             /\ Apart(w, a, c, s) = w[First(s)] + Apart(w, a, c, s \ {First(s)})
  <2> DEFINE x == First(s)
  <2>1. x \in s
    BY <1>6 DEF First
  <2> HIDE DEF x
  <2>2. CASE x = a
    <3>1. (s \ {x}) \ {a} = s \ {a} /\ a \in s /\ a \notin s \ {x}
      BY <2>1, <2>2
    <3>2. Apart(w, a, c, s) = c * n + w[a] /\ Apart(w, a, c, s \ {x}) = c * n + 0
      BY <3>1 DEF Apart
    <3> HIDE DEF n
    <3>3. Apart(w, a, c, s) = w[x] + Apart(w, a, c, s \ {x})
      BY <1>3, <1>0, <2>2, <3>2
    <3> QED
      BY <2>1, <3>3 DEF x
  <2>3. CASE x # a
    <3> DEFINE t == s \ {a}
               m == Cardinality(t \ {x})
               v == IF a \in s THEN w[a] ELSE 0
    <3>1. (s \ {x}) \ {a} = t \ {x} /\ (a \in s <=> a \in s \ {x}) /\ x \in t /\ w[x] = c
      BY <2>1, <2>3, <1>0
    <3>2. m = n - 1 /\ m \in Nat
      <4>1. IsFiniteSet(t) /\ x \in t
        BY <1>1, <3>1
      <4> HIDE DEF t
      <4>2. IsFiniteSet(t \ {x}) /\ Cardinality(t \ {x}) = Cardinality(t) - 1
        BY <4>1, FS_RemoveElement
      <4>3. Cardinality(t \ {x}) \in Nat
        BY <4>2, FS_CardinalityType
      <4> QED
        BY <4>2, <4>3 DEF t
    <3>3. v \in Int
      BY <1>0
    <3>7. Apart(w, a, c, s) = c * n + v
      BY DEF Apart
    <3>8. Apart(w, a, c, s \ {x}) = c * m + v
      <4>1. Apart(w, a, c, s \ {x}) = c * Cardinality((s \ {x}) \ {a})
                                         + (IF a \in s \ {x} THEN w[a] ELSE 0)
        BY DEF Apart
      <4>2. v = IF a \in s \ {x} THEN w[a] ELSE 0
        BY <3>1
      <4> HIDE DEF v, t
      <4>3. Cardinality((s \ {x}) \ {a}) = m
        BY <3>1
      <4> HIDE DEF m
      <4> QED
        BY <4>1, <4>2, <4>3
    <3> HIDE DEF n, m, v
    <3>4. c * n = c + c * m
      BY <1>2, <1>0, <3>2 DEF n
    <3>5. c * m \in Int
      BY <1>0, <3>2
    <3>6. Apart(w, a, c, s) = w[x] + Apart(w, a, c, s \ {x})
      BY <1>3, <1>0, <3>1, <3>3, <3>4, <3>5, <3>7, <3>8
    <3> QED
      BY <2>1, <3>6 DEF x
  <2> QED
    BY <2>2, <2>3
<1> QED
  BY <1>4, <1>5, <1>6 DEF Splits

LEMMA SumsExists ==
    ASSUME NEW S, NEW w, NEW a, NEW c, Flat(w, a, c, S)
    PROVE  Sums(But(w, a, c, S), w, S)
<1> DEFINE h == But(w, a, c, S)
<1>1. ASSUME NEW s \in SUBSET S
      PROVE  h[s] = IF s = {} THEN 0 ELSE w[First(s)] + h[s \ {First(s)}]
  <2>1. /\ s = {} => Apart(w, a, c, s) = 0
        /\ s # {} => /\ First(s) \in s /\ s \ {First(s)} \in SUBSET S
                     /\ Apart(w, a, c, s) = w[First(s)] + Apart(w, a, c, s \ {First(s)})
    <3>1. Splits(w, a, c, S, s)
      BY ApartStep
    <3> QED
      BY <3>1 DEF Splits
  <2>2. \A t \in SUBSET S : h[t] = Apart(w, a, c, t)
    BY DEF But
  <2> HIDE DEF h
  <2> QED
    BY <2>1, <2>2
<1>2. h = [s \in SUBSET S |-> h[s]]
  BY DEF But
<1> HIDE DEF h
<1>3. h = [s \in SUBSET S |-> IF s = {} THEN 0 ELSE w[First(s)] + h[s \ {First(s)}]]
  BY <1>1, <1>2
<1> QED
  BY <1>3 DEF Sums, h

LEMMA SumsIs ==
    ASSUME NEW S, NEW w, NEW a, NEW c, Flat(w, a, c, S), NEW h, Sums(h, w, S)
    PROVE  h[S] = c * Cardinality(S \ {a}) + w[a]
<1> DEFINE N == Cardinality(S)
           Q == {n \in Nat : \A s \in SUBSET S : Cardinality(s) = n => h[s] = Apart(w, a, c, s)}
<1>1. \A s \in SUBSET S : IsFiniteSet(s) /\ Cardinality(s) \in Nat
  <2>1. \A s \in SUBSET S : IsFiniteSet(s)
    BY FS_Subset DEF Flat
  <2> QED
    BY <2>1, FS_CardinalityType
<1>2. \A s \in SUBSET S : h[s] = IF s = {} THEN 0 ELSE w[First(s)] + h[s \ {First(s)}]
  BY DEF Sums
<1>3. 0 \in Q
  <2> SUFFICES ASSUME NEW s \in SUBSET S, Cardinality(s) = 0 PROVE h[s] = Apart(w, a, c, s)
    OBVIOUS
  <2>1. s = {}
    BY <1>1, FS_EmptySet
  <2>2. Apart(w, a, c, s) = 0
    <3>1. Splits(w, a, c, S, s)
      BY ApartStep
    <3> QED
      BY <2>1, <3>1 DEF Splits
  <2> QED
    BY <1>2, <2>1, <2>2
<1>4. ASSUME NEW n \in 0 + 1 .. N, n - 1 \in Q PROVE n \in Q
  <2> SUFFICES ASSUME NEW s \in SUBSET S, Cardinality(s) = n PROVE h[s] = Apart(w, a, c, s)
    BY <1>4
  <2>1. s # {}
    BY FS_EmptySet
  <2> DEFINE x == First(s)
             t == s \ {First(s)}
  <2>2. x \in s /\ t \in SUBSET S /\ Apart(w, a, c, s) = w[x] + Apart(w, a, c, t)
    <3>1. Splits(w, a, c, S, s)
      BY ApartStep
    <3> QED
      BY <2>1, <3>1 DEF Splits
  <2>3. Cardinality(t) = n - 1
    BY <1>1, <2>2, FS_RemoveElement
  <2>4. h[s] = w[x] + h[t]
    BY <1>2, <2>1
  <2> HIDE DEF x, t
  <2>5. h[t] = Apart(w, a, c, t)
    BY <1>4, <2>2, <2>3
  <2> QED
    BY <2>2, <2>4, <2>5
<1>5. N \in Nat
  BY <1>1
<1>6. N \in Q
  <2> HIDE DEF Q, N
  <2>1. 0 .. N \subseteq Q
    BY <1>3, <1>4, <1>5, Induct
  <2> QED
    BY <1>5, <2>1
<1>7. h[S] = Apart(w, a, c, S)
  BY <1>6
<1> QED
  BY <1>7 DEF Apart, Flat

(* MapThenSumSet of an operator with these values.                         *)
Total(w, S) == (CHOOSE h : Sums(h, w, S))[S]

LEMMA TotalIs ==
    ASSUME NEW S, NEW w, NEW a, NEW c, Flat(w, a, c, S)
    PROVE  Total(w, S) = c * Cardinality(S \ {a}) + w[a]
<1> DEFINE G == CHOOSE h : Sums(h, w, S)
<1>1. Sums(G, w, S)
  BY SumsExists
<1> HIDE DEF G
<1>2. G[S] = c * Cardinality(S \ {a}) + w[a]
  BY <1>1, SumsIs
<1> QED
  BY <1>2 DEF G, Total

-----------------------------------------------------------------------------
(* The image on disk.                                                      *)

LEMMA Quotient ==
    ASSUME NEW a \in Nat, NEW b \in Nat \ {0}
    PROVE  a \div b \in Nat /\ (a \div b) * b <= a /\ a < (a \div b + 1) * b
OBVIOUS

Image == disk \in Disks

LEMMA ImageNumbers ==
    ASSUME Image
    PROVE  /\ disk.magic \in BOOLEAN
           /\ disk.blocks \in Nat \ {0} /\ disk.inodes \in Nat \ {0}
           /\ disk.per_group \in Nat \ {0} /\ disk.inodes_per_group \in Nat \ {0}
           /\ disk.first_ino \in Nat
           /\ NumGroups \in Nat \ {0} /\ NumGroups <= Len(disk.group)
           /\ (NumGroups - 1) * disk.per_group < disk.blocks
           /\ disk.blocks <= NumGroups * disk.per_group
<1>1. /\ disk.magic \in BOOLEAN
      /\ disk.blocks \in Nat \ {0} /\ disk.inodes \in Nat \ {0}
      /\ disk.per_group \in Nat \ {0} /\ disk.inodes_per_group \in Nat \ {0}
      /\ disk.first_ino \in Nat
      /\ Groups(disk) <= Len(disk.group)
  BY DiskAssumption DEF Image
<1> DEFINE q == (disk.blocks - 1) \div disk.per_group
<1>2. q \in Nat /\ q * disk.per_group <= disk.blocks - 1 /\ disk.blocks - 1 < (q + 1) * disk.per_group
  <2> DEFINE a == disk.blocks - 1
             b == disk.per_group
  <2>1. a \in Nat /\ b \in Nat \ {0}
    BY <1>1
  <2> HIDE DEF a, b
  <2>2. a \div b \in Nat /\ (a \div b) * b <= a /\ a < (a \div b + 1) * b
    BY <2>1, Quotient
  <2> QED
    BY <2>2 DEF a, b
<1>3. NumGroups = q + 1
  BY <1>1 DEF NumGroups, Groups
<1> HIDE DEF q
<1> QED
  BY <1>1, <1>2, <1>3 DEF NumGroups

GroupFields ==
    [free_blocks : Nat, free_inodes : Nat, block_bitmap : DOMAIN disk.clear,
     inode_bitmap : DOMAIN disk.clear, inode_table : DOMAIN disk.table]
InodeFields == [type : STRING, links : Nat, ptr : [Slot -> Int]]
EntryFields == [inode : Int, rec_len : Nat \ {0}, name : Seq(STRING)]

LEMMA ImageBlocks ==
    ASSUME Image
    PROVE  /\ disk.group \in Seq(GroupFields)
           /\ \A b \in DOMAIN disk.clear : disk.clear[b] \subseteq Nat
           /\ \A b \in DOMAIN disk.table :
                  disk.table[b] \in [0 .. disk.inodes_per_group - 1 -> InodeFields]
           /\ \A b : EntriesAt(b) \in Seq(EntryFields)
           /\ \A b : PointersAt(b) \in [0 .. PerBlock - 1 -> Int]
<1>1. /\ disk.group \in Seq(GroupFields)
      /\ \A b \in DOMAIN disk.clear : disk.clear[b] \subseteq Nat
      /\ \A b \in DOMAIN disk.table :
             disk.table[b] \in [0 .. disk.inodes_per_group - 1 -> InodeFields]
  BY DiskAssumption DEF Image, GroupFields, InodeFields
<1>2. \A b : EntriesAt(b) \in Seq(EntryFields)
  <2>1. \A b \in DOMAIN disk.entries : disk.entries[b] \in Seq(EntryFields)
    BY DiskAssumption DEF Image, EntryFields
  <2> QED
    BY <2>1 DEF EntriesAt
<1>3. \A b : PointersAt(b) \in [0 .. PerBlock - 1 -> Int]
  <2>1. \A b \in DOMAIN disk.pointers : disk.pointers[b] \in [0 .. PerBlock - 1 -> Int]
    BY DiskAssumption DEF Image
  <2>2. Zeros \in [0 .. PerBlock - 1 -> Int]
    BY DEF Zeros
  <2> QED
    BY <2>1, <2>2 DEF PointersAt
<1> QED
  BY <1>1, <1>2, <1>3

-----------------------------------------------------------------------------
(* The groups and the free lists.                                          *)

GroupsRead == img.group = SubSeq(disk.group, 1, NumGroups)

LEMMA GroupRead ==
    ASSUME Image, GroupsRead
    PROVE  /\ Len(img.group) = NumGroups /\ DOMAIN img.group = 1 .. NumGroups
           /\ \A g \in 1 .. NumGroups : img.group[g] = disk.group[g] /\ disk.group[g] \in GroupFields
<1>1. /\ disk.group \in Seq(GroupFields) /\ NumGroups \in Nat \ {0}
      /\ NumGroups <= Len(disk.group)
  BY ImageNumbers, ImageBlocks
<1> QED
  BY <1>1 DEF GroupsRead

LEMMA Shifted ==
    ASSUME NEW S \in SUBSET Nat, IsFiniteSet(S)
    PROVE  /\ {1 + p : p \in S} \in SUBSET Nat /\ IsFiniteSet({1 + p : p \in S})
           /\ Cardinality({1 + p : p \in S}) = Cardinality(S)
<1> DEFINE T == {1 + p : p \in S}
           b == [p \in S |-> 1 + p]
<1>1. ExistsBijection(S, T)
  <2>1. b \in Bijection(S, T)
    BY DEF Bijection, Injection, Surjection, IsInjective
  <2> QED
    BY <2>1 DEF ExistsBijection
<1>2. IsFiniteSet(T) /\ Cardinality(T) = Cardinality(S)
  <2> HIDE DEF T
  <2> QED
    BY <1>1, FS_Bijection
<1> QED
  BY <1>2

(* The bits that are read of a bitmap whose count is right.                *)
LEMMA BitmapRead ==
    ASSUME NEW clear \in SUBSET Nat, NEW per_group \in Nat \ {0}, NEW frees, NEW id,
           frees = Cardinality({p \in clear : p < per_group}),
           \A n \in {1 + p : p \in {p \in clear : p < per_group}} : id[n] = n
    PROVE  Lists(ScanBitmap(<<>>, clear, 0, per_group, frees),
                 {1 + p : p \in {p \in clear : p < per_group}}, id)
<1> DEFINE bits == {p \in clear : p < per_group}
           below(p) == {q \in clear : q <= p}
           upto(p) == Len(<<>>) + Cardinality({q \in clear : q <= p})
           read == {p \in clear : p < 8 * per_group /\ (p = 0 \/ upto(p - 1) < frees)}
<1>0. \A q \in clear : q \in Nat
  OBVIOUS
<1>1. ASSUME NEW n \in Nat
      PROVE  IsFiniteSet(below(n)) /\ Cardinality(below(n)) \in Nat /\ upto(n) = Cardinality(below(n))
  <2>1. IsFiniteSet(0 .. n)
    BY FS_Interval
  <2>1a. below(n) \subseteq 0 .. n
    <3> SUFFICES ASSUME NEW q \in clear, q <= n PROVE q \in 0 .. n
      OBVIOUS
    <3> QED
      BY <1>0
  <2>2. IsFiniteSet(below(n))
    BY <2>1, <2>1a, FS_Subset
  <2>3. Cardinality(below(n)) \in Nat
    BY <2>2, FS_CardinalityType
  <2>4. upto(n) = 0 + Cardinality(below(n))
    OBVIOUS
  <2> QED
    BY <2>2, <2>3, <2>4
<1>2. IsFiniteSet(bits) /\ frees \in Nat /\ bits \in SUBSET Nat /\ frees = Cardinality(bits)
  <2>1. IsFiniteSet(below(per_group))
    BY <1>1
  <2>1a. bits \subseteq below(per_group)
    <3> SUFFICES ASSUME NEW q \in clear, q < per_group PROVE q <= per_group
      OBVIOUS
    <3>1. q \in Int /\ per_group \in Int
      BY <1>0
    <3> QED
      BY <3>1
  <2>2. IsFiniteSet(bits)
    BY <2>1, <2>1a, FS_Subset
  <2> QED
    BY <2>2, FS_CardinalityType
<1>3. ASSUME NEW p \in clear PROVE p \in read <=> p \in bits
  <2>1. CASE p \in bits
    <3>1. ASSUME p # 0 PROVE upto(p - 1) < frees
      <4>1. below(p - 1) \subseteq bits /\ p \in bits /\ p \notin below(p - 1) /\ p - 1 \in Nat
        <5>1. p \in Nat /\ p < per_group /\ p - 1 \in Nat
          BY <1>0, <2>1, <3>1
        <5>2. \A q \in below(p - 1) : q \in bits
          BY <1>0, <5>1
        <5>3. p \notin below(p - 1)
          BY <5>1
        <5> QED
          BY <2>1, <5>1, <5>2, <5>3
      <4>2. Cardinality(below(p - 1)) <= Cardinality(bits)
            /\ (Cardinality(bits) = Cardinality(below(p - 1)) => bits = below(p - 1))
        <5> HIDE DEF bits, below
        <5> QED
          BY <1>2, <4>1, FS_Subset
      <4>3. Cardinality(bits) # Cardinality(below(p - 1))
        BY <4>1, <4>2
      <4> HIDE DEF bits, below, upto
      <4> QED
        BY <1>1, <1>2, <4>1, <4>2, <4>3
    <3>2. p < 8 * per_group
      BY <1>0, <2>1
    <3> QED
      BY <2>1, <3>1, <3>2
  <2>2. CASE p \notin bits
    <3>1. p >= per_group /\ p # 0 /\ p - 1 \in Nat
      <4>1. ~(p < per_group)
        BY <2>2
      <4>2. p \in Nat /\ per_group \in Nat \ {0}
        BY <1>0
      <4> QED
        BY <4>1, <4>2
    <3>2. bits \subseteq below(p - 1)
      <4> SUFFICES ASSUME NEW q \in clear, q < per_group PROVE q <= p - 1
        OBVIOUS
      <4> QED
        BY <1>0, <3>1
    <3>3. Cardinality(bits) <= Cardinality(below(p - 1))
      <4> HIDE DEF bits, below
      <4> QED
        BY <1>1, <3>1, <3>2, FS_Subset
    <3>4. ~(upto(p - 1) < frees)
      <4> HIDE DEF bits, below, upto
      <4> QED
        BY <1>1, <1>2, <3>1, <3>3
    <3> QED
      BY <2>2, <3>1, <3>4
  <2> QED
    BY <2>1, <2>2
<1>4. read = bits
  <2>1. read \subseteq clear /\ bits \subseteq clear
    OBVIOUS
  <2> HIDE DEF read, bits
  <2> QED
    BY <1>3, <2>1
<1> DEFINE numbers == {1 + p : p \in bits}
<1>5. ScanBitmap(<<>>, clear, 0, per_group, frees) = <<>> \o Ascending({0 + 1 + p : p \in read})
  BY DEF ScanBitmap
<1>6. {0 + 1 + p : p \in read} = numbers
  <2>1. bits \subseteq Nat
    OBVIOUS
  <2> HIDE DEF bits, read
  <2> QED
    BY <1>4, <2>1
<1>7. numbers \in SUBSET Nat /\ IsFiniteSet(numbers)
  BY <1>2, Shifted
<1> HIDE DEF bits, read
<1>8. Lists(Ascending(numbers), numbers, id)
  <2>1. \A n \in numbers : id[n] = n
    BY DEF bits
  <2> HIDE DEF numbers
  <2> QED
    BY <1>7, <2>1, AscendingLists
<1>9. <<>> \o Ascending(numbers) = Ascending(numbers)
  BY <1>8 DEF Lists
<1> QED
  BY <1>5, <1>6, <1>8, <1>9 DEF bits

LEMMA OneGroup ==
    ASSUME Image, WithinReach, GroupsRead
    PROVE  /\ NumGroups = 1 /\ Len(img.group) = 1 /\ DOMAIN img.group = {1}
           /\ img.group[1] = disk.group[1] /\ disk.group[1] \in GroupFields
           /\ disk.inodes <= disk.inodes_per_group
<1>1. NumGroups = 1 /\ SameGroups
  BY DEF WithinReach
<1>2. Len(img.group) = 1 /\ DOMAIN img.group = 1 .. 1
      /\ img.group[1] = disk.group[1] /\ disk.group[1] \in GroupFields
  BY <1>1, GroupRead
<1>3. disk.inodes <= disk.inodes_per_group
  <2> DEFINE a == disk.inodes - 1
             b == disk.inodes_per_group
  <2>1. a \in Nat /\ b \in Nat \ {0} /\ a = disk.inodes - 1 /\ disk.inodes \in Nat
    BY ImageNumbers
  <2>2. 1 + a \div b = 1
    BY <1>1 DEF SameGroups
  <2> HIDE DEF a, b
  <2>3. a \div b \in Nat /\ a < (a \div b + 1) * b
    BY <2>1, Quotient
  <2>4. a \div b = 0
    BY <2>2, <2>3
  <2>5. a < b
    BY <2>1, <2>3, <2>4
  <2>6. disk.inodes <= b
    BY <2>1, <2>5
  <2> QED
    BY <2>6 DEF b
<1> QED
  BY <1>1, <1>2, <1>3

LEMMA FreeListOfOne ==
    ASSUME Image, WithinReach, GroupsRead, NEW per_group, NEW bitmap, NEW count, 0 * per_group = 0
    PROVE  FreeList(per_group, bitmap, count)
               = ScanBitmap(<<>>, disk.clear[disk.group[1][bitmap]], 0, per_group,
                            disk.group[1][count])
<1>1. Len(img.group) = 1 /\ img.group[1] = disk.group[1]
  BY OneGroup
<1> DEFINE Scans(f) ==
        f = [i \in 0 .. Len(img.group) |->
                IF i = 0 THEN <<>>
                ELSE IF \E m \in 1 .. i - 1 : Len(f[m]) >= img.group[m][count]
                THEN f[i - 1]
                ELSE ScanBitmap(f[i - 1], disk.clear[img.group[i][bitmap]],
                                (i - 1) * per_group, per_group, img.group[i][count])]
        one == ScanBitmap(<<>>, disk.clear[disk.group[1][bitmap]], 0, per_group,
                          disk.group[1][count])
        w == [i \in 0 .. 1 |-> IF i = 0 THEN <<>> ELSE one]
        scan == CHOOSE f : Scans(f)
<1>2. ASSUME NEW f, NEW i \in 0 .. 1, f[0] = <<>>
      PROVE  (IF i = 0 THEN <<>>
              ELSE IF \E m \in 1 .. i - 1 : Len(f[m]) >= img.group[m][count]
              THEN f[i - 1]
              ELSE ScanBitmap(f[i - 1], disk.clear[img.group[i][bitmap]],
                              (i - 1) * per_group, per_group, img.group[i][count]))
             = IF i = 0 THEN <<>> ELSE one
  <2>1. CASE i = 1
    <3>1. ~ \E m \in 1 .. i - 1 : Len(f[m]) >= img.group[m][count]
      BY <2>1
    <3>2. f[i - 1] = <<>> /\ (i - 1) * per_group = 0 /\ img.group[i] = disk.group[1]
      BY <1>1, <1>2, <2>1
    <3> QED
      BY <2>1, <3>1, <3>2
  <2> QED
    BY <2>1
<1>3. Scans(w)
  <2>1. w[0] = <<>>
    OBVIOUS
  <2>2. w = [i \in 0 .. 1 |-> w[i]] /\ \A i \in 0 .. 1 : w[i] = IF i = 0 THEN <<>> ELSE one
    OBVIOUS
  <2> HIDE DEF w, one
  <2> QED
    BY <1>1, <1>2, <2>1, <2>2
<1>4. Scans(scan)
  <2> HIDE DEF Scans, w
  <2> QED
    BY <1>3
<1>5. FreeList(per_group, bitmap, count) = scan[Len(img.group)]
  BY DEF FreeList
<1>6. scan[0] = <<>>
  <2> HIDE DEF scan
  <2> QED
    BY <1>1, <1>4
<1>7. scan[1] = one
  <2> HIDE DEF scan, one
  <2> QED
    BY <1>1, <1>2, <1>4, <1>6
<1> QED
  BY <1>1, <1>5, <1>7

(* The free lists are the bitmaps.                                         *)
LEMMA FreeListRead ==
    ASSUME Image, WithinReach, GroupsRead
    PROVE  /\ \A id : (\A n \in FreeBlocks : id[n] = n) =>
                  Lists(FreeList(disk.per_group, "block_bitmap", "free_blocks"), FreeBlocks, id)
           /\ \A id : (\A n \in FreeInodes : id[n] = n) =>
                  Lists(FreeList(disk.inodes_per_group, "inode_bitmap", "free_inodes"), FreeInodes, id)
<1>0. disk.per_group \in Nat \ {0} /\ disk.inodes_per_group \in Nat \ {0}
  BY ImageNumbers
<1>1. ASSUME NEW per_group \in Nat \ {0}, NEW bitmap \in {"block_bitmap", "inode_bitmap"}, NEW count,
             disk.group[1][count] = Cardinality({p + 1 : p \in ClearBits(bitmap, per_group)}),
             NEW id, \A n \in {p + 1 : p \in ClearBits(bitmap, per_group)} : id[n] = n
      PROVE  Lists(FreeList(per_group, bitmap, count),
                   {p + 1 : p \in ClearBits(bitmap, per_group)}, id)
  <2> DEFINE clear == disk.clear[disk.group[1][bitmap]]
             bits == {p \in clear : p < per_group}
             numbers == {1 + p : p \in bits}
  <2>1. clear \in SUBSET Nat
    <3>1. disk.group[1][bitmap] \in DOMAIN disk.clear
      BY OneGroup DEF GroupFields
    <3> QED
      BY <3>1, ImageBlocks
  <2>2. numbers = {p + 1 : p \in ClearBits(bitmap, per_group)}
    BY <2>1 DEF ClearBits
  <2>3. disk.group[1][count] = Cardinality(bits)
    <3>1. bits \in SUBSET Nat /\ IsFiniteSet(bits)
      <4> HIDE DEF clear
      <4>1. bits \subseteq 0 .. per_group /\ bits \subseteq Nat
        <5> SUFFICES ASSUME NEW p \in clear, p < per_group PROVE p \in Nat /\ p \in 0 .. per_group
          OBVIOUS
        <5>1. p \in Nat /\ per_group \in Nat
          BY <2>1
        <5> QED
          BY <5>1
      <4>2. IsFiniteSet(0 .. per_group)
        BY FS_Interval
      <4> HIDE DEF bits
      <4> QED
        BY <4>1, <4>2, FS_Subset
    <3>2. Cardinality(numbers) = Cardinality(bits)
      <4> HIDE DEF bits
      <4> QED
        BY <3>1, Shifted
    <3> QED
      BY <1>1, <2>2, <3>2
  <2>4. 0 * per_group = 0
    OBVIOUS
  <2>5. FreeList(per_group, bitmap, count) = ScanBitmap(<<>>, clear, 0, per_group, disk.group[1][count])
    BY <2>4, FreeListOfOne
  <2>6. \A n \in numbers : id[n] = n
    <3> HIDE DEF numbers
    <3> QED
      BY <1>1, <2>2
  <2> HIDE DEF clear
  <2>7. Lists(ScanBitmap(<<>>, clear, 0, per_group, disk.group[1][count]), numbers, id)
    BY <2>1, <2>3, <2>6, BitmapRead
  <2> QED
    <3> HIDE DEF numbers
    <3> QED
      BY <2>2, <2>5, <2>7
<1>2. /\ disk.group[1].free_blocks = Cardinality(FreeBlocks)
      /\ disk.group[1].free_inodes = Cardinality(FreeInodes)
  BY DEF WithinReach
<1>3. ASSUME NEW id, \A n \in FreeBlocks : id[n] = n
      PROVE  Lists(FreeList(disk.per_group, "block_bitmap", "free_blocks"), FreeBlocks, id)
  <2>1. disk.group[1]["free_blocks"] = Cardinality({p + 1 : p \in ClearBits("block_bitmap", disk.per_group)})
    BY <1>2 DEF FreeBlocks
  <2> QED
    BY <1>0, <1>1, <1>3, <2>1 DEF FreeBlocks
<1>4. ASSUME NEW id, \A n \in FreeInodes : id[n] = n
      PROVE  Lists(FreeList(disk.inodes_per_group, "inode_bitmap", "free_inodes"), FreeInodes, id)
  <2>1. disk.group[1]["free_inodes"] = Cardinality({p + 1 : p \in ClearBits("inode_bitmap", disk.inodes_per_group)})
    BY <1>2 DEF FreeInodes
  <2> QED
    BY <1>0, <1>1, <1>4, <2>1 DEF FreeInodes
<1> QED
  BY <1>3, <1>4

-----------------------------------------------------------------------------
(* The inodes and the entries of the directories.                          *)

InodesRead == img.inode = FlattenSeq([i \in DOMAIN img.group |-> InodesOfGroup(i)])

InodeOf(i) == [of |-> i, type |-> Inode(i).type, links |-> Inode(i).links, ptr |-> Inode(i).ptr]

LEMMA InodeTable ==
    ASSUME Image, WithinReach, GroupsRead
    PROVE  /\ \A i \in 1 .. disk.inodes : Inode(i) \in InodeFields
           /\ InUse \subseteq 1 .. disk.inodes /\ 1 .. disk.inodes \subseteq Nat
           /\ IsFiniteSet(InUse)
<1>1. disk.table[disk.group[1].inode_table] \in [0 .. disk.inodes_per_group - 1 -> InodeFields]
  BY OneGroup, ImageBlocks DEF GroupFields
<1>2. disk.inodes <= disk.inodes_per_group /\ disk.inodes \in Nat /\ disk.inodes_per_group \in Nat
  BY OneGroup, ImageNumbers
<1>3. \A i \in 1 .. disk.inodes : Inode(i) \in InodeFields
  <2> SUFFICES ASSUME NEW i \in 1 .. disk.inodes PROVE Inode(i) \in InodeFields
    OBVIOUS
  <2>1. i - 1 \in 0 .. disk.inodes_per_group - 1
    BY <1>2
  <2> QED
    BY <1>1, <2>1 DEF Inode
<1>4. IsFiniteSet(1 .. disk.inodes) /\ InUse \subseteq 1 .. disk.inodes
  BY <1>2, OneTo DEF InUse
<1>5. IsFiniteSet(InUse)
  BY <1>4, FS_Subset
<1> QED
  BY <1>2, <1>3, <1>4, <1>5

LEMMA FlattenOne ==
    ASSUME NEW ss, NEW V, ss = [i \in {1} |-> ss[i]], ss[1] \in Seq(V)
    PROVE  FlattenSeq(ss) = ss[1]
<1>1. Len(ss) = 1
  <2>1. ss \in [1 .. 1 -> {ss[1]}]
    OBVIOUS
  <2> QED
    BY <2>1, SeqFromFcn
<1>2. PICK f : Flattens(f, ss, 1) /\ FlattenSeq(ss) = f[1]
  <2>1. Len(ss) \in Nat \ {0}
    BY <1>1
  <2>2. \E f : Flattens(f, ss, Len(ss)) /\ FlattenSeq(ss) = f[Len(ss)]
    BY <2>1, FlattenDef
  <2> QED
    BY <1>1, <2>2
<1> QED
  BY <1>2 DEF Flattens

LEMMA InodesList ==
    ASSUME Image, WithinReach, GroupsRead, InodesRead, NEW f, \A i \in InUse : f[i] = InodeOf(i)
    PROVE  Lists(img.inode, InUse, f)
<1> DEFINE table == disk.table[img.group[1].inode_table]
           inUse == {j \in 1 .. disk.inodes_per_group :
                         /\ (1 - 1) * disk.inodes_per_group + j <= disk.inodes
                         /\ table[j - 1].type # "none"
                         /\ table[j - 1].links > 0}
           inode(j) == [of |-> j, type |-> table[j - 1].type,
                        links |-> table[j - 1].links, ptr |-> table[j - 1].ptr]
           recs == [j \in inUse |-> inode(j)]
<1>1. table = disk.table[disk.group[1].inode_table] /\ disk.inodes <= disk.inodes_per_group
      /\ disk.inodes \in Nat /\ disk.inodes_per_group \in Nat /\ DOMAIN img.group = {1}
  BY OneGroup, ImageNumbers
<1>2. inUse = InUse
  <2>1. \A j \in 1 .. disk.inodes_per_group :
            (1 - 1) * disk.inodes_per_group + j <= disk.inodes <=> j \in 1 .. disk.inodes
    BY <1>1
  <2>2. \A j : Inode(j) = table[j - 1]
    BY <1>1 DEF Inode
  <2>3. 1 .. disk.inodes \subseteq 1 .. disk.inodes_per_group
    BY <1>1
  <2> HIDE DEF table
  <2> QED
    BY <2>1, <2>2, <2>3 DEF InUse
<1>3. InodesOfGroup(1) = Picked(recs, inUse)
  BY DEF InodesOfGroup
<1>4. \A j \in InUse : f[j] = recs[j]
  <2>1. \A j \in InUse : inode(j) = InodeOf(j)
    BY <1>1 DEF InodeOf, Inode
  <2> HIDE DEF inode, inUse
  <2> QED
    BY <1>2, <2>1
<1> HIDE DEF inUse, recs
<1>5. InUse \in SUBSET Nat /\ IsFiniteSet(InUse)
  BY InodeTable
<1>6. Lists(Picked(recs, InUse), InUse, f)
  BY <1>4, <1>5, PickedLists
<1>7. Lists(InodesOfGroup(1), InUse, f)
  BY <1>2, <1>3, <1>6
<1> DEFINE ss == [i \in DOMAIN img.group |-> InodesOfGroup(i)]
<1>8. ss = [i \in {1} |-> ss[i]] /\ ss[1] = InodesOfGroup(1)
  BY <1>1
<1>9. FlattenSeq(ss) = ss[1]
  <2>1. ss[1] \in Seq({f[x] : x \in InUse})
    BY <1>7, <1>8 DEF Lists
  <2> HIDE DEF ss
  <2> QED
    BY <1>8, <2>1, FlattenOne
<1> QED
  BY <1>7, <1>8, <1>9 DEF InodesRead

LEMMA ByNumberList ==
    ASSUME Image, NEW s, NEW S, NEW f, Lists(s, S, f), \A x \in S : f[x].of \in 1 .. disk.inodes
    PROVE  Lists(ByNumber(s), S, f)
<1> DEFINE at(i) == {n \in DOMAIN s : s[n].of = i}
           ss == [i \in 1 .. disk.inodes |-> Picked(s, at(i))]
           T == [i \in 1 .. disk.inodes |-> {x \in S : f[x].of = i}]
<1>1. ASSUME NEW i \in 1 .. disk.inodes PROVE Lists(ss[i], T[i], f)
  <2>1. at(i) \in SUBSET (1 .. Len(s)) /\ T[i] \in SUBSET S
    BY ListsFacts
  <2>2. \A n \in 1 .. Len(s), x \in S : s[n] = f[x] => (n \in at(i) <=> x \in T[i])
    BY ListsFacts
  <2>3. ss[i] = Picked(s, at(i))
    OBVIOUS
  <2> HIDE DEF at, T, ss
  <2>4. Lists(Picked(s, at(i)), T[i], f)
    BY <2>1, <2>2, SubList
  <2> QED
    BY <2>3, <2>4
<1>2. \A i, j \in 1 .. disk.inodes : i # j => T[i] \cap T[j] = {}
  OBVIOUS
<1>3. UNION {T[i] : i \in 1 .. disk.inodes} = S
  <2>1. \A x \in S : f[x].of \in 1 .. disk.inodes /\ x \in T[f[x].of]
    OBVIOUS
  <2>2. \A i \in 1 .. disk.inodes : T[i] \subseteq S
    OBVIOUS
  <2> HIDE DEF T
  <2> QED
    BY <2>1, <2>2
<1>4. ss = [i \in 1 .. disk.inodes |-> ss[i]] /\ disk.inodes \in Nat
  BY ImageNumbers
<1>5. Lists(FlattenSeq(ss), UNION {T[i] : i \in 1 .. disk.inodes}, f)
  <2> HIDE DEF ss, T
  <2> QED
    BY <1>1, <1>2, <1>4, ListsFlatten
<1> QED
  <2>1. ByNumber(s) = FlattenSeq(ss)
    BY DEF ByNumber
  <2> HIDE DEF ss, T
  <2> QED
    BY <1>3, <1>5, <2>1

LEMMA PlacesAre ==
    /\ \A i \in Dirs, j \in 0 .. NumDirect - 1 : \A n \in DOMAIN EntriesAt(Inode(i).ptr[j]) :
           Inode(i).ptr[j] # 0 => <<i, j, n>> \in Places
    /\ \A p \in Places : /\ p = <<p[1], p[2], p[3]>>
                         /\ p[1] \in Dirs /\ p[2] \in 0 .. NumDirect - 1
                         /\ Inode(p[1]).ptr[p[2]] # 0
                         /\ p[3] \in DOMAIN EntriesAt(Inode(p[1]).ptr[p[2]])
<1> DEFINE in(b) == {<<b[1], b[2], n>> : n \in DOMAIN EntriesAt(Inode(b[1]).ptr[b[2]])}
<1>1. Places = UNION {in(b) : b \in DirBlocks}
  BY DEF Places
<1>2. ASSUME NEW i \in Dirs, NEW j \in 0 .. NumDirect - 1,
             NEW n \in DOMAIN EntriesAt(Inode(i).ptr[j]), Inode(i).ptr[j] # 0
      PROVE  <<i, j, n>> \in Places
  <2>1. <<i, j>> \in DirBlocks
    BY <1>2 DEF DirBlocks
  <2>2. <<i, j, n>> \in in(<<i, j>>)
    OBVIOUS
  <2> QED
    BY <1>1, <2>1, <2>2
<1>3. ASSUME NEW p \in Places
      PROVE  /\ p = <<p[1], p[2], p[3]>>
             /\ p[1] \in Dirs /\ p[2] \in 0 .. NumDirect - 1
             /\ Inode(p[1]).ptr[p[2]] # 0
             /\ p[3] \in DOMAIN EntriesAt(Inode(p[1]).ptr[p[2]])
  <2>1. PICK b \in DirBlocks : p \in in(b)
    BY <1>1
  <2>2. PICK n \in DOMAIN EntriesAt(Inode(b[1]).ptr[b[2]]) : p = <<b[1], b[2], n>>
    BY <2>1
  <2>3. b[1] \in Dirs /\ b[2] \in 0 .. NumDirect - 1 /\ Inode(b[1]).ptr[b[2]] # 0
    BY DEF DirBlocks
  <2>4. p[1] = b[1] /\ p[2] = b[2] /\ p[3] = n
    BY <2>2
  <2> QED
    BY <2>2, <2>3, <2>4
<1> QED
  BY <1>2, <1>3

DirentsRead ==
    img.dirent = FlattenSeq([n \in DOMAIN Directories |-> DirentsOf(Directories[n])])

EntryRead(p) == [of |-> p[1], inode |-> Entry(p).inode,
                 rec_len |-> Entry(p).rec_len, name |-> Entry(p).name]
ReadsEntries(f) == \A p \in Places : f[p] = EntryRead(p)

(* No entry is hidden behind one with inode 0.                             *)
LEMMA AllVisible ==
    ASSUME Image, WithinReach, NEW i \in Dirs, NEW j \in 0 .. NumDirect - 1, Inode(i).ptr[j] # 0
    PROVE  Visible(EntriesAt(Inode(i).ptr[j])) = EntriesAt(Inode(i).ptr[j])
<1> DEFINE es == EntriesAt(Inode(i).ptr[j])
<1>1. ASSUME NEW n \in DOMAIN es PROVE es[n].inode # 0
  <2>1. <<i, j, n>> \in Entries
    BY PlacesAre DEF WithinReach
  <2>2. Entry(<<i, j, n>>) = es[n]
    BY DEF Entry
  <2> QED
    BY <2>1, <2>2 DEF Entries
<1>2. {n \in DOMAIN es : es[n].inode = 0} = {}
  BY <1>1
<1> QED
  BY <1>2 DEF Visible

LEMMA DirentsOfList ==
    ASSUME Image, WithinReach, GroupsRead, NEW i \in Dirs, NEW f, ReadsEntries(f)
    PROVE  Lists(DirentsOf(InodeOf(i)), {p \in Places : p[1] = i}, f)
<1> DEFINE dir == InodeOf(i)
           inBlock(block) ==
               IF block <= 0 THEN <<>>
               ELSE LET es == Visible(EntriesAt(block))
                    IN  [n \in DOMAIN es |-> [of |-> dir.of, inode |-> es[n].inode,
                                              rec_len |-> es[n].rec_len, name |-> es[n].name]]
           ss == [j \in 1 .. NumDirect |-> inBlock(dir.ptr[j - 1])]
           T == [j \in 1 .. NumDirect |-> {p \in Places : p[1] = i /\ p[2] = j - 1}]
<1>1. DirentsOf(dir) = FlattenSeq(ss)
  BY DEF DirentsOf
<1>2. dir.of = i /\ dir.ptr = Inode(i).ptr
  BY DEF InodeOf
<1>3. NumDirect \in Nat \ {0} /\ \A j \in 1 .. NumDirect : j - 1 \in 0 .. NumDirect - 1
  BY ImageAssumption
<1>4. ASSUME NEW j \in 1 .. NumDirect PROVE Lists(ss[j], T[j], f)
  <2> DEFINE block == Inode(i).ptr[j - 1]
             es == EntriesAt(block)
  <2>1. block \in Nat
    <3>1. i \in InUse /\ j - 1 \in Slot
      BY <1>3 DEF Dirs, Slot
    <3> QED
      BY <3>1 DEF WithinReach
  <2>2. CASE block = 0
    <3>1. ss[j] = <<>>
      BY <1>2, <2>1, <2>2
    <3>2. T[j] = {}
      BY <1>3, <2>2, PlacesAre
    <3> QED
      BY <3>1, <3>2, ListsEmpty
  <2>3. CASE block # 0
    <3> DEFINE t == ss[j]
               e(n) == [of |-> i, inode |-> es[n].inode, rec_len |-> es[n].rec_len, name |-> es[n].name]
               b == [n \in 1 .. Len(es) |-> <<i, j - 1, n>>]
    <3>1. t = [n \in DOMAIN es |-> e(n)]
      <4>1. Visible(es) = es
        BY <1>3, <2>3, AllVisible
      <4>2. ~(block <= 0)
        BY <2>1, <2>3
      <4>3. t = inBlock(block)
        BY <1>2
      <4> QED
        BY <1>2, <4>1, <4>2, <4>3
    <3>2. es \in Seq(EntryFields) /\ DOMAIN es = 1 .. Len(es)
      <4>1. es \in Seq(EntryFields)
        BY ImageBlocks
      <4> HIDE DEF es
      <4> QED
        BY <4>1
    <3> DEFINE h == [n \in 1 .. Len(es) |-> e(n)]
    <3>3. Len(es) \in Nat /\ t = [n \in 1 .. Len(es) |-> t[n]] /\ \A n \in 1 .. Len(es) : t[n] = h[n]
      <4> HIDE DEF e, es, ss
      <4> QED
        BY <3>1, <3>2
    <3>4. Lists(t, 1 .. Len(es), h)
      <4> HIDE DEF t, h, es
      <4> QED
        BY <3>3, ListsPositions
    <3>5. Carries(b, 1 .. Len(es), h, T[j], f)
      <4>1. \A n \in 1 .. Len(es) : <<i, j - 1, n>> \in T[j]
        BY <1>3, <2>3, <3>2, PlacesAre
      <4>2. \A p \in T[j] : \E n \in 1 .. Len(es) : <<i, j - 1, n>> = p
        BY <1>3, <3>2, PlacesAre
      <4>3. \A n \in 1 .. Len(es) : h[n] = f[<<i, j - 1, n>>]
        <5> SUFFICES ASSUME NEW n \in 1 .. Len(es) PROVE h[n] = f[<<i, j - 1, n>>]
          OBVIOUS
        <5>1. <<i, j - 1, n>> \in Places /\ Entry(<<i, j - 1, n>>) = es[n]
          BY <4>1 DEF Entry
        <5>2. f[<<i, j - 1, n>>] = e(n)
          BY <5>1 DEF ReadsEntries, EntryRead
        <5> QED
          BY <5>2
      <4>4. b = [n \in 1 .. Len(es) |-> b[n]] /\ \A n \in 1 .. Len(es) : b[n] = <<i, j - 1, n>>
        OBVIOUS
      <4> HIDE DEF b, h, T, es
      <4> QED
        BY <4>1, <4>2, <4>3, <4>4 DEF Carries
    <3> HIDE DEF t, h, es, T, b
    <3>6. Lists(t, T[j], f)
      BY <3>4, <3>5, ListsRebase
    <3> QED
      BY <3>6 DEF t
  <2> QED
    BY <2>2, <2>3
<1>5. \A j, k \in 1 .. NumDirect : j # k => T[j] \cap T[k] = {}
  <2> SUFFICES ASSUME NEW j \in 1 .. NumDirect, NEW k \in 1 .. NumDirect, j # k,
                      NEW p \in T[j], p \in T[k]
               PROVE  FALSE
    OBVIOUS
  <2>1. p[2] = j - 1 /\ p[2] = k - 1
    OBVIOUS
  <2> QED
    BY <2>1
<1>6. UNION {T[j] : j \in 1 .. NumDirect} = {p \in Places : p[1] = i}
  <2>1. \A p \in Places : p[1] = i => p[2] + 1 \in 1 .. NumDirect /\ p \in T[p[2] + 1]
    <3> SUFFICES ASSUME NEW p \in Places, p[1] = i
                 PROVE  p[2] + 1 \in 1 .. NumDirect /\ p \in T[p[2] + 1]
      OBVIOUS
    <3>1. p[2] \in 0 .. NumDirect - 1
      BY PlacesAre
    <3> DEFINE k == p[2] + 1
    <3>2. k \in 1 .. NumDirect /\ p[2] = k - 1
      BY <1>3, <3>1
    <3> HIDE DEF k
    <3>3. p \in T[k]
      BY <3>2
    <3> QED
      BY <3>2, <3>3 DEF k
  <2>2. \A j \in 1 .. NumDirect : T[j] \subseteq {p \in Places : p[1] = i}
    OBVIOUS
  <2> HIDE DEF T
  <2> QED
    BY <2>1, <2>2
<1>7. Lists(FlattenSeq(ss), UNION {T[j] : j \in 1 .. NumDirect}, f)
  <2>1. ss = [j \in 1 .. NumDirect |-> ss[j]]
    OBVIOUS
  <2> HIDE DEF ss, T
  <2> QED
    BY <1>3, <1>4, <1>5, <2>1, ListsFlatten
<1> QED
  <2> HIDE DEF ss, T
  <2> QED
    BY <1>1, <1>6, <1>7

LEMMA DirectoriesList ==
    ASSUME Image, WithinReach, GroupsRead, InodesRead, NEW f, \A i \in InUse : f[i] = InodeOf(i)
    PROVE  Lists(Directories, Dirs, f)
<1> DEFINE A == {n \in DOMAIN img.inode : img.inode[n].type = "d"}
<1>1. Lists(img.inode, InUse, f)
  BY InodesList
<1>2. DOMAIN img.inode = 1 .. Len(img.inode)
  BY <1>1, ListsFacts
<1>3. A \in SUBSET (1 .. Len(img.inode)) /\ Dirs \in SUBSET InUse
  BY <1>2 DEF Dirs
<1>4. \A n \in 1 .. Len(img.inode), i \in InUse : img.inode[n] = f[i] => (n \in A <=> i \in Dirs)
  <2>1. \A i \in InUse : f[i].type = Inode(i).type
    <3> SUFFICES ASSUME NEW i \in InUse PROVE f[i].type = Inode(i).type
      OBVIOUS
    <3>1. f[i] = InodeOf(i)
      OBVIOUS
    <3>2. InodeOf(i).type = Inode(i).type
      BY DEF InodeOf
    <3> QED
      BY <3>1, <3>2
  <2> QED
    BY <1>2, <2>1 DEF Dirs
<1> HIDE DEF A
<1>5. Lists(Picked(img.inode, A), Dirs, f)
  BY <1>1, <1>3, <1>4, SubList
<1> QED
  BY <1>5 DEF A, Directories

(* Every entry of a directory is read once.                                *)
LEMMA DirentsList ==
    ASSUME Image, WithinReach, GroupsRead, InodesRead, DirentsRead, NEW f, ReadsEntries(f)
    PROVE  Lists(img.dirent, Places, f)
<1> DEFINE e == [i \in InUse |-> InodeOf(i)]
           ds == Directories
           N == Len(ds)
           ss == [n \in DOMAIN ds |-> DirentsOf(ds[n])]
<1>1. Lists(ds, Dirs, e)
  <2>1. \A i \in InUse : e[i] = InodeOf(i)
    OBVIOUS
  <2> HIDE DEF e
  <2> QED
    BY <2>1, DirectoriesList
<1>2. PICK g : Numbers(g, ds, Dirs, e)
  BY <1>1 DEF Lists
<1>3. N \in Nat /\ DOMAIN ds = 1 .. N
  <2> HIDE DEF e, ds
  <2> QED
    BY <1>1, ListsFacts
<1> DEFINE T == [n \in 1 .. N |-> {p \in Places : p[1] = g[n]}]
<1> HIDE DEF ds
<1>4. ASSUME NEW n \in 1 .. N PROVE g[n] \in Dirs /\ ds[n] = InodeOf(g[n])
  <2>1. g[n] \in Dirs /\ ds[n] = e[g[n]]
    BY <1>2, <1>4 DEF Numbers
  <2>2. g[n] \in InUse
    BY <2>1 DEF Dirs
  <2> QED
    BY <2>1, <2>2
<1>5. ASSUME NEW n \in 1 .. N PROVE Lists(ss[n], T[n], f)
  <2>1. ss[n] = DirentsOf(InodeOf(g[n])) /\ T[n] = {p \in Places : p[1] = g[n]}
    BY <1>3, <1>4
  <2>2. g[n] \in Dirs
    BY <1>4
  <2> HIDE DEF ss, T
  <2>3. Lists(DirentsOf(InodeOf(g[n])), {p \in Places : p[1] = g[n]}, f)
    BY <2>2, DirentsOfList
  <2> QED
    BY <2>1, <2>3
<1>6. \A m, n \in 1 .. N : m # n => T[m] \cap T[n] = {}
  <2> SUFFICES ASSUME NEW m \in 1 .. N, NEW n \in 1 .. N, NEW p \in T[m], p \in T[n] PROVE m = n
    OBVIOUS
  <2>1. p[1] = g[m] /\ p[1] = g[n]
    OBVIOUS
  <2> QED
    BY <1>2, <2>1 DEF Numbers
<1>7. UNION {T[n] : n \in 1 .. N} = Places
  <2>1. ASSUME NEW p \in Places PROVE \E n \in 1 .. N : p \in T[n]
    <3>1. p[1] \in Dirs
      BY PlacesAre
    <3>2. PICK n \in 1 .. N : g[n] = p[1]
      BY <1>2, <3>1 DEF Numbers
    <3> QED
      BY <3>2
  <2>2. \A n \in 1 .. N : T[n] \subseteq Places
    OBVIOUS
  <2> HIDE DEF T
  <2> QED
    BY <2>1, <2>2
<1>8. Lists(FlattenSeq(ss), UNION {T[n] : n \in 1 .. N}, f)
  <2>1. ss = [n \in 1 .. N |-> ss[n]]
    BY <1>3
  <2> HIDE DEF ss, T, N
  <2> QED
    BY <1>3, <1>5, <1>6, <2>1, ListsFlatten
<1> QED
  <2>1. img.dirent = FlattenSeq(ss)
    BY DEF DirentsRead, ds
  <2> HIDE DEF ss, T, N
  <2> QED
    BY <1>7, <1>8, <2>1

-----------------------------------------------------------------------------
(* What is printed of the entries.                                         *)

LEMMA ListsSame ==
    ASSUME NEW s, NEW S, NEW f, Lists(s, S, f), NEW e, \A x \in S : f[x] = e[x]
    PROVE  Lists(s, S, e)
<1>1. {f[x] : x \in S} \subseteq {e[x] : x \in S}
  OBVIOUS
<1>2. s \in Seq({e[x] : x \in S})
  BY <1>1 DEF Lists
<1>3. PICK g : Numbers(g, s, S, f)
  BY DEF Lists
<1>4. Numbers(g, s, S, e)
  BY <1>3 DEF Numbers
<1> QED
  BY <1>2, <1>4 DEF Lists

(* A sequence of the same length lists values of its own.                  *)
Along(t, s) == t = [n \in 1 .. Len(s) |-> t[n]]

LEMMA ListsAlong ==
    ASSUME NEW s, NEW S, NEW f, Lists(s, S, f), NEW t, Along(t, s)
    PROVE  \E h : /\ Lists(t, S, h)
                  /\ \A x \in S : \E n \in 1 .. Len(s) : s[n] = f[x] /\ t[n] = h[x]
<1>1. PICK g : Numbers(g, s, S, f)
  BY DEF Lists
<1> DEFINE at(x) == CHOOSE n \in 1 .. Len(s) : g[n] = x
           h == [x \in S |-> t[at(x)]]
<1>2. ASSUME NEW x \in S PROVE at(x) \in 1 .. Len(s) /\ g[at(x)] = x
  BY <1>1 DEF Numbers
<1>3. ASSUME NEW n \in 1 .. Len(s) PROVE g[n] \in S /\ at(g[n]) = n /\ h[g[n]] = t[n]
  <2>1. g[n] \in S
    BY <1>1 DEF Numbers
  <2>2. at(g[n]) = n
    <3>1. at(g[n]) \in 1 .. Len(s) /\ g[at(g[n])] = g[n]
      BY <1>2, <2>1
    <3> HIDE DEF at
    <3> QED
      BY <1>1, <3>1 DEF Numbers
  <2> QED
    BY <2>1, <2>2
<1>4. ASSUME NEW x \in S PROVE s[at(x)] = f[x] /\ t[at(x)] = h[x]
  <2>1. s[at(x)] = f[g[at(x)]]
    BY <1>1, <1>2 DEF Numbers
  <2> QED
    BY <1>2, <2>1
<1> HIDE DEF h, at
<1>5. t \in [1 .. Len(s) -> {h[x] : x \in S}] /\ Len(s) \in Nat
  BY <1>3 DEF Lists, Along
<1>6. t \in Seq({h[x] : x \in S}) /\ Len(t) = Len(s)
  BY <1>5, SeqFromFcn
<1>7. Numbers(g, t, S, h)
  BY <1>1, <1>3, <1>6 DEF Numbers
<1>8. Lists(t, S, h)
  BY <1>6, <1>7 DEF Lists
<1> QED
  BY <1>2, <1>4, <1>8

Offsets(f, es, n) == f = [i \in 1 .. n |-> IF i = 1 THEN 0 ELSE f[i - 1] + es[i - 1].rec_len]

LEMMA OffsetsExist ==
    ASSUME NEW es, NEW n \in Nat
    PROVE  \E f : Offsets(f, es, n)
<1> DEFINE S == {k \in Nat : \E f : Offsets(f, es, k)}
<1>1. 0 \in S
  <2> DEFINE f == [i \in 1 .. 0 |-> 0]
  <2>1. Offsets(f, es, 0)
    BY DEF Offsets
  <2> QED
    BY <2>1
<1>2. ASSUME NEW k \in 1 .. n, k - 1 \in S PROVE k \in S
  <2>1. PICK f : Offsets(f, es, k - 1)
    BY <1>2
  <2> DEFINE h == [i \in 1 .. k |->
                      IF i = k THEN (IF k = 1 THEN 0 ELSE f[k - 1] + es[k - 1].rec_len) ELSE f[i]]
  <2>2. ASSUME NEW i \in 1 .. k
        PROVE  h[i] = IF i = 1 THEN 0 ELSE h[i - 1] + es[i - 1].rec_len
    <3>1. CASE i = k
      <4>1. i # 1 => h[i - 1] = f[k - 1]
        BY <3>1, <1>2
      <4> QED
        BY <3>1, <4>1
    <3>2. CASE i # k
      <4>1. i \in 1 .. k - 1 /\ h[i] = f[i]
        BY <3>2, <1>2
      <4>2. f[i] = IF i = 1 THEN 0 ELSE f[i - 1] + es[i - 1].rec_len
        BY <2>1, <4>1 DEF Offsets
      <4>3. i # 1 => i - 1 \in 1 .. k /\ i - 1 # k /\ h[i - 1] = f[i - 1]
        BY <4>1, <1>2
      <4> QED
        BY <4>1, <4>2, <4>3
    <3> QED
      BY <3>1, <3>2
  <2>3. Offsets(h, es, k)
    <3>1. h = [i \in 1 .. k |-> h[i]]
      OBVIOUS
    <3> HIDE DEF h
    <3> QED
      BY <2>2, <3>1 DEF Offsets
  <2> QED
    BY <1>2, <2>3
<1>3. 0 .. n \subseteq S
  <2> HIDE DEF S
  <2>1. \A k \in 0 + 1 .. n : k - 1 \in S => k \in S
    BY <1>2
  <2> QED
    BY <1>1, <2>1, Induct
<1> QED
  BY <1>3

LEMMA OffsetsNat ==
    ASSUME NEW es, NEW n \in Nat, \A i \in 1 .. n : es[i].rec_len \in Nat, NEW f, Offsets(f, es, n)
    PROVE  \A i \in 1 .. n : f[i] \in Nat
<1> DEFINE S == {k \in Nat : k \in 1 .. n => f[k] \in Nat}
<1>1. 0 \in S
  OBVIOUS
<1>2. ASSUME NEW k \in 0 + 1 .. n, k - 1 \in S PROVE k \in S
  <2>1. f[k] = IF k = 1 THEN 0 ELSE f[k - 1] + es[k - 1].rec_len
    BY DEF Offsets
  <2>2. k # 1 => k - 1 \in 1 .. n /\ f[k - 1] \in Nat /\ es[k - 1].rec_len \in Nat
    BY <1>2
  <2>3. f[k] \in Nat
    BY <2>1, <2>2
  <2> QED
    BY <2>3
<1>3. 0 .. n \subseteq S
  <2> HIDE DEF S
  <2>1. \A k \in 0 + 1 .. n : k - 1 \in S => k \in S
    BY <1>2
  <2> QED
    BY <1>1, <2>1, Induct
<1> QED
  BY <1>3

PrintsEntry(l, p) ==
    /\ l = [of |-> p[1], offset |-> l.offset, inode |-> Entry(p).inode, name |-> Entry(p).name]
    /\ l.offset \in Nat

LEMMA EntriesRead ==
    ASSUME NEW f, ReadsEntries(f), NEW p \in Places
    PROVE  /\ f[p].of = p[1] /\ f[p].inode = Entry(p).inode
           /\ f[p].name = Entry(p).name /\ f[p].rec_len = Entry(p).rec_len
<1>1. f[p] = EntryRead(p)
  BY DEF ReadsEntries
<1>2. /\ EntryRead(p).of = p[1] /\ EntryRead(p).inode = Entry(p).inode
      /\ EntryRead(p).name = Entry(p).name /\ EntryRead(p).rec_len = Entry(p).rec_len
  BY DEF EntryRead
<1> QED
  BY <1>1, <1>2

LEMMA DirentLinesList ==
    ASSUME Image, NEW f, Lists(img.dirent, Places, f), ReadsEntries(f), NEW i \in Nat
    PROVE  \E h : /\ Lists(DirentLines(i), {p \in Places : p[1] = i}, h)
                  /\ \A p \in Places : p[1] = i => PrintsEntry(h[p], p)
<1> DEFINE A == {n \in DOMAIN img.dirent : img.dirent[n].of = i}
           es == Picked(img.dirent, A)
           P == {p \in Places : p[1] = i}
           t == DirentLines(i)
           offset == CHOOSE g : g = [n \in 1 .. Len(es) |->
                                        IF n = 1 THEN 0 ELSE g[n - 1] + es[n - 1].rec_len]
<1>1. Lists(es, P, f)
  <2>1. A \in SUBSET (1 .. Len(img.dirent)) /\ P \in SUBSET Places
        /\ DOMAIN img.dirent = 1 .. Len(img.dirent)
    BY ListsFacts
  <2>2. \A p \in Places : f[p].of = p[1]
    BY EntriesRead
  <2>3. \A n \in 1 .. Len(img.dirent), p \in Places : img.dirent[n] = f[p] => (n \in A <=> p \in P)
    BY <2>1, <2>2
  <2> HIDE DEF A, P
  <2> QED
    BY <2>1, <2>3, SubList
<1> HIDE DEF A
<1>2. Len(es) \in Nat /\ DOMAIN es = 1 .. Len(es)
      /\ \A n \in 1 .. Len(es) : \E p \in P : es[n] = f[p]
  <2> HIDE DEF es, P
  <2> QED
    BY <1>1, ListsFacts
<1> DEFINE e(n) == [of |-> i, offset |-> offset[n], inode |-> es[n].inode, name |-> es[n].name]
<1>3. t = [n \in DOMAIN es |-> e(n)]
  BY DEF DirentLines, A
<1>4. Offsets(offset, es, Len(es))
  <2>1. \E g : Offsets(g, es, Len(es))
    BY <1>2, OffsetsExist
  <2> QED
    BY <2>1 DEF Offsets
<1> HIDE DEF es, offset, t
<1>5. \A p \in Places : Entry(p) \in EntryFields
  <2> SUFFICES ASSUME NEW p \in Places PROVE Entry(p) \in EntryFields
    OBVIOUS
  <2> DEFINE b == EntriesAt(Inode(p[1]).ptr[p[2]])
  <2>1. b \in Seq(EntryFields) /\ p[3] \in DOMAIN b /\ Entry(p) = b[p[3]]
    BY ImageBlocks, PlacesAre DEF Entry
  <2> HIDE DEF b
  <2> QED
    BY <2>1
<1>6. ASSUME NEW n \in 1 .. Len(es) PROVE es[n].rec_len \in Nat
  <2>1. PICK p \in P : es[n] = f[p]
    BY <1>2
  <2>2. f[p].rec_len = Entry(p).rec_len /\ Entry(p) \in EntryFields
    BY <1>5, EntriesRead
  <2> QED
    BY <2>1, <2>2 DEF EntryFields
<1>7. \A n \in 1 .. Len(es) : offset[n] \in Nat
  BY <1>2, <1>4, <1>6, OffsetsNat
<1>8. t = [n \in 1 .. Len(es) |-> t[n]] /\ \A n \in 1 .. Len(es) : t[n] = e(n)
  <2> HIDE DEF e
  <2> QED
    BY <1>2, <1>3
<1>9. PICK h : /\ Lists(t, P, h)
               /\ \A p \in P : \E n \in 1 .. Len(es) : es[n] = f[p] /\ t[n] = h[p]
  <2> HIDE DEF P, e
  <2>1. Along(t, es)
    BY <1>8 DEF Along
  <2>2. \E h : /\ Lists(t, P, h)
               /\ \A p \in P : \E n \in 1 .. Len(es) : es[n] = f[p] /\ t[n] = h[p]
    BY <1>1, <2>1, ListsAlong
  <2> QED
    BY <2>2
<1>10. ASSUME NEW p \in Places, p[1] = i PROVE PrintsEntry(h[p], p)
  <2>1. PICK n \in 1 .. Len(es) : es[n] = f[p] /\ t[n] = h[p]
    BY <1>9, <1>10
  <2>2. f[p].inode = Entry(p).inode /\ f[p].name = Entry(p).name
    BY EntriesRead
  <2>3. h[p] = [of |-> p[1], offset |-> offset[n], inode |-> Entry(p).inode, name |-> Entry(p).name]
    BY <1>8, <1>10, <2>1, <2>2
  <2>4. h[p].offset = offset[n]
    BY <2>3
  <2> QED
    BY <1>7, <2>3, <2>4 DEF PrintsEntry
<1> QED
  BY <1>9, <1>10 DEF t

LEMMA DirentsPrinted ==
    ASSUME Image, NEW f, Lists(img.dirent, Places, f), ReadsEntries(f),
           \A p \in Places : p[1] \in 1 .. disk.inodes
    PROVE  \E h : /\ Lists(FlattenSeq([i \in 1 .. disk.inodes |-> DirentLines(i)]), Places, h)
                  /\ \A p \in Places : PrintsEntry(h[p], p)
<1> DEFINE Prints(i, h) == /\ Lists(DirentLines(i), {p \in Places : p[1] = i}, h)
                           /\ \A p \in Places : p[1] = i => PrintsEntry(h[p], p)
           H(i) == CHOOSE h : Prints(i, h)
           F == [p \in Places |-> H(p[1])[p]]
           T == [i \in 1 .. disk.inodes |-> {p \in Places : p[1] = i}]
           ss == [i \in 1 .. disk.inodes |-> DirentLines(i)]
<1>1. ASSUME NEW i \in 1 .. disk.inodes PROVE Prints(i, H(i))
  <2>1. i \in Nat
    BY ImageNumbers
  <2>2. \E h : Prints(i, h)
    BY <2>1, DirentLinesList
  <2> HIDE DEF Prints
  <2> QED
    BY <2>2
<1> HIDE DEF H
<1>2. ASSUME NEW i \in 1 .. disk.inodes PROVE Lists(ss[i], T[i], F)
  <2>1. Lists(DirentLines(i), {p \in Places : p[1] = i}, H(i))
    BY <1>1
  <2>2. ss[i] = DirentLines(i) /\ T[i] = {p \in Places : p[1] = i}
    OBVIOUS
  <2>3. \A p \in T[i] : H(i)[p] = F[p]
    OBVIOUS
  <2> HIDE DEF ss, T, F
  <2>4. Lists(ss[i], T[i], H(i))
    BY <2>1, <2>2
  <2> QED
    BY <2>3, <2>4, ListsSame
<1>3. \A p \in Places : PrintsEntry(F[p], p)
  BY <1>1
<1>4. \A i, j \in 1 .. disk.inodes : i # j => T[i] \cap T[j] = {}
  OBVIOUS
<1>5. UNION {T[i] : i \in 1 .. disk.inodes} = Places
  <2>1. \A p \in Places : p[1] \in 1 .. disk.inodes /\ p \in T[p[1]]
    OBVIOUS
  <2>2. \A i \in 1 .. disk.inodes : T[i] \subseteq Places
    OBVIOUS
  <2> HIDE DEF T
  <2> QED
    BY <2>1, <2>2
<1>6. Lists(FlattenSeq(ss), UNION {T[i] : i \in 1 .. disk.inodes}, F)
  <2>1. disk.inodes \in Nat /\ ss = [i \in 1 .. disk.inodes |-> ss[i]]
    BY ImageNumbers
  <2> HIDE DEF ss, T, F
  <2> QED
    BY <1>2, <1>4, <2>1, ListsFlatten
<1> QED
  <2>1. Lists(FlattenSeq(ss), Places, F)
    <3> HIDE DEF ss, T, F
    <3> QED
      BY <1>5, <1>6
  <2> QED
    BY <1>3, <2>1

-----------------------------------------------------------------------------
(* Paths to blocks.                                                        *)

LEMMA LevelType ==
    \A s \in Slot : s \in Nat /\ Level(s) \in 0 .. 3 /\ (Level(s) = 0 <=> s < NumDirect)
BY ImageAssumption DEF Level, Slot

LEMMA PathFacts ==
    ASSUME NEW p \in Paths
    PROVE  /\ p \in Seq(Nat) /\ p[1] \in Slot /\ Len(p) \in 1 .. Level(p[1]) + 1
           /\ \A m \in 2 .. Len(p) : p[m] \in 0 .. PerBlock - 1
<1>1. PICK s \in Slot : \E m \in 0 .. Level(s) : \E q \in [1 .. m -> 0 .. PerBlock - 1] :
          p = <<s>> \o q
  BY DEF Paths
<1>2. PICK m \in 0 .. Level(s) : \E q \in [1 .. m -> 0 .. PerBlock - 1] : p = <<s>> \o q
  BY <1>1
<1>3. PICK q \in [1 .. m -> 0 .. PerBlock - 1] : p = <<s>> \o q
  BY <1>2
<1>4. m \in Nat /\ m <= Level(s) /\ Level(s) \in Nat /\ s \in Nat
  BY LevelType
<1>5. q \in Seq(0 .. PerBlock - 1) /\ Len(q) = m
  BY <1>4, SeqFromFcn
<1>6. 0 .. PerBlock - 1 \subseteq Nat
  BY ImageAssumption
<1>7. q \in Seq(Nat) /\ \A n \in 1 .. m : q[n] \in 0 .. PerBlock - 1
  BY <1>5, <1>6
<1>8. /\ p \in Seq(Nat) /\ Len(p) = m + 1 /\ p[1] = s
      /\ \A n \in 2 .. m + 1 : p[n] = q[n - 1]
  BY <1>3, <1>4, <1>5, <1>7
<1>9. \A n \in 2 .. m + 1 : n - 1 \in 1 .. m
  BY <1>4
<1> QED
  BY <1>4, <1>7, <1>8, <1>9

LEMMA PathMade ==
    ASSUME NEW p \in Seq(Nat), p[1] \in Slot, Len(p) \in 1 .. Level(p[1]) + 1,
           \A m \in 2 .. Len(p) : p[m] \in 0 .. PerBlock - 1
    PROVE  p \in Paths
<1> DEFINE m == Len(p) - 1
           q == [n \in 1 .. m |-> p[n + 1]]
           s == p[1]
           Tails == UNION {[1 .. n -> 0 .. PerBlock - 1] : n \in 0 .. Level(s)}
<1>1. m \in 0 .. Level(s) /\ m \in Nat
  BY LevelType
<1>2. q \in [1 .. m -> 0 .. PerBlock - 1]
  <2>1. \A n \in 1 .. m : n + 1 \in 2 .. Len(p)
    BY <1>1
  <2> QED
    BY <2>1
<1>3. <<s>> \o q = p
  <2>1. 0 .. PerBlock - 1 \subseteq Nat
    BY ImageAssumption
  <2>2. q \in [1 .. m -> Nat]
    BY <1>2, <2>1
  <2>3. q \in Seq(Nat) /\ Len(q) = m /\ \A n \in 1 .. m : q[n] = p[n + 1]
    BY <1>1, <2>2, SeqFromFcn
  <2>4. s \in Nat
    BY LevelType
  <2> HIDE DEF q
  <2> DEFINE t == <<s>> \o q
  <2>5. t \in Seq(Nat) /\ Len(t) = Len(p) /\ \A n \in 1 .. Len(p) : t[n] = p[n]
    BY <1>1, <2>3, <2>4
  <2> HIDE DEF t
  <2>6. t = p
    BY <2>5
  <2> QED
    BY <2>6 DEF t
<1>4. q \in Tails
  BY <1>1, <1>2
<1> HIDE DEF Tails
<1>5. p \in {<<s>> \o r : r \in Tails}
  BY <1>3, <1>4
<1> QED
  BY <1>5 DEF Paths, Tails

LEMMA PathAppend ==
    ASSUME NEW p \in Paths, Len(p) <= Level(p[1]), NEW k \in 0 .. PerBlock - 1
    PROVE  /\ Append(p, k) \in Paths /\ Append(p, k)[1] = p[1]
           /\ Len(Append(p, k)) = Len(p) + 1
           /\ Append(p, k)[Len(p) + 1] = k
           /\ \A m \in 1 .. Len(p) : Append(p, k)[m] = p[m]
           /\ SubSeq(Append(p, k), 1, Len(p)) = p
<1> DEFINE q == Append(p, k)
<1>1. /\ p \in Seq(Nat) /\ p[1] \in Slot /\ Len(p) \in 1 .. Level(p[1]) + 1
      /\ \A m \in 2 .. Len(p) : p[m] \in 0 .. PerBlock - 1
  BY PathFacts
<1>2. k \in Nat /\ Level(p[1]) \in Nat
  BY <1>1, ImageAssumption, LevelType
<1>3. /\ q \in Seq(Nat) /\ Len(q) = Len(p) + 1 /\ q[Len(p) + 1] = k
      /\ \A m \in 1 .. Len(p) : q[m] = p[m]
  BY <1>1, <1>2
<1>4. SubSeq(q, 1, Len(p)) = p
  BY <1>1, <1>2
<1> HIDE DEF q
<1>5. q[1] = p[1]
  BY <1>1, <1>3
<1>6. \A m \in 2 .. Len(q) : q[m] \in 0 .. PerBlock - 1
  <2> SUFFICES ASSUME NEW m \in 2 .. Len(q) PROVE q[m] \in 0 .. PerBlock - 1
    OBVIOUS
  <2>1. CASE m = Len(p) + 1
    BY <1>3, <2>1
  <2>2. CASE m # Len(p) + 1
    <3>1. m \in 2 .. Len(p) /\ m \in 1 .. Len(p)
      BY <1>1, <1>3, <2>2
    <3> QED
      BY <1>1, <1>3, <3>1
  <2> QED
    BY <2>1, <2>2
<1>7. q \in Paths
  BY <1>1, <1>2, <1>3, <1>5, <1>6, PathMade
<1> QED
  BY <1>3, <1>4, <1>5, <1>7 DEF q

LEMMA PathFront ==
    ASSUME NEW p \in Paths, Len(p) # 1
    PROVE  /\ SubSeq(p, 1, Len(p) - 1) \in Paths
           /\ SubSeq(p, 1, Len(p) - 1)[1] = p[1]
           /\ Len(SubSeq(p, 1, Len(p) - 1)) = Len(p) - 1
           /\ p[Len(p)] \in 0 .. PerBlock - 1
           /\ p = Append(SubSeq(p, 1, Len(p) - 1), p[Len(p)])
           /\ Len(p) - 1 <= Level(p[1])
<1> DEFINE q == SubSeq(p, 1, Len(p) - 1)
<1>1. /\ p \in Seq(Nat) /\ p[1] \in Slot /\ Len(p) \in 1 .. Level(p[1]) + 1
      /\ \A m \in 2 .. Len(p) : p[m] \in 0 .. PerBlock - 1
  BY PathFacts
<1>2. Level(p[1]) \in Nat /\ Len(p) \in Nat /\ Len(p) >= 2 /\ Len(p) <= Level(p[1]) + 1
  <2> DEFINE n == Len(p)
             l == Level(p[1])
  <2>1. l \in 0 .. 3
    BY <1>1, LevelType
  <2>2. n \in 1 .. l + 1 /\ n # 1
    BY <1>1
  <2> HIDE DEF n, l
  <2>3. l \in Nat /\ n \in Nat /\ n >= 2 /\ n <= l + 1
    BY <2>1, <2>2
  <2> QED
    BY <2>3 DEF n, l
<1>3. q \in Seq(Nat) /\ Len(q) = Len(p) - 1 /\ \A m \in 1 .. Len(p) - 1 : q[m] = p[m]
  BY <1>1, <1>2
<1> HIDE DEF q
<1>4. q[1] = p[1]
  BY <1>2, <1>3
<1>5. \A m \in 2 .. Len(q) : q[m] \in 0 .. PerBlock - 1
  <2> SUFFICES ASSUME NEW m \in 2 .. Len(q) PROVE q[m] \in 0 .. PerBlock - 1
    OBVIOUS
  <2>1. m \in 2 .. Len(p) /\ m \in 1 .. Len(p) - 1
    BY <1>2, <1>3
  <2> QED
    BY <1>1, <1>3, <2>1
<1>6. q \in Paths
  <2>1. Len(q) \in 1 .. Level(q[1]) + 1
    BY <1>2, <1>3, <1>4
  <2> QED
    BY <1>1, <1>3, <1>4, <1>5, <2>1, PathMade
<1>7. p = Append(q, p[Len(p)])
  <2> DEFINE t == Append(q, p[Len(p)])
  <2>1. p[Len(p)] \in Nat
    BY <1>1, <1>2
  <2>2. /\ t \in Seq(Nat) /\ Len(t) = Len(p) /\ t[Len(p)] = p[Len(p)]
        /\ \A m \in 1 .. Len(p) - 1 : t[m] = p[m]
    BY <1>2, <1>3, <2>1
  <2>3. \A m \in 1 .. Len(p) : m \in 1 .. Len(p) - 1 \/ m = Len(p)
    BY <1>2
  <2> HIDE DEF t
  <2>4. \A m \in 1 .. Len(p) : t[m] = p[m]
    BY <2>2, <2>3
  <2>5. t \in Seq(Nat) /\ p \in Seq(Nat) /\ Len(t) = Len(p)
    BY <1>1, <2>2
  <2>6. t = p
    BY <2>4, <2>5
  <2> QED
    BY <2>6 DEF t
<1> QED
  BY <1>1, <1>2, <1>3, <1>4, <1>6, <1>7 DEF q

(* BlockAt, one index at a time.                                           *)
Follows(f, i, p, n) ==
    f = [m \in 2 .. n |-> LET b == IF m = 2 THEN Inode(i).ptr[p[1]] ELSE f[m - 1]
                          IN  IF b = 0 THEN 0 ELSE PointersAt(b)[p[m]]]

LEMMA FollowsExists ==
    ASSUME NEW i, NEW p, NEW n \in Nat \ {0}
    PROVE  \E f : Follows(f, i, p, n)
<1> DEFINE S == {k \in Nat : \E f : Follows(f, i, p, k)}
           top == Inode(i).ptr[p[1]]
           next(b, m) == IF b = 0 THEN 0 ELSE PointersAt(b)[p[m]]
           before(f, m) == IF m = 2 THEN top ELSE f[m - 1]
<1>0. \A f, k : Follows(f, i, p, k) <=> f = [m \in 2 .. k |-> next(before(f, m), m)]
  BY DEF Follows
<1>1. 1 \in S
  <2> DEFINE f == [m \in 2 .. 1 |-> 0]
  <2>1. Follows(f, i, p, 1)
    <3>1. f = [m \in 2 .. 1 |-> next(before(f, m), m)]
      OBVIOUS
    <3> QED
      BY <1>0, <3>1
  <2> QED
    BY <2>1
<1>2. ASSUME NEW k \in 1 + 1 .. n, k - 1 \in S PROVE k \in S
  <2>1. PICK f : Follows(f, i, p, k - 1)
    BY <1>2
  <2> DEFINE h == [m \in 2 .. k |-> IF m = k THEN next(before(f, k), k) ELSE f[m]]
  <2>2. ASSUME NEW m \in 2 .. k PROVE h[m] = next(before(h, m), m)
    <3>1. before(h, m) = before(f, m)
      <4>1. m # 2 => m - 1 \in 2 .. k /\ m - 1 # k
        OBVIOUS
      <4> QED
        BY <4>1
    <3>2. CASE m = k
      <4>1. h[m] = next(before(f, m), m)
        BY <3>2
      <4> HIDE DEF h, next, before
      <4> QED
        BY <3>1, <4>1
    <3>3. CASE m # k
      <4>1. m \in 2 .. k - 1 /\ h[m] = f[m]
        BY <3>3
      <4>2. f = [j \in 2 .. k - 1 |-> next(before(f, j), j)]
        BY <1>0, <2>1
      <4> HIDE DEF h, next, before
      <4>3. f[m] = next(before(f, m), m)
        BY <4>1, <4>2
      <4> QED
        BY <3>1, <4>1, <4>3
    <3> QED
      BY <3>2, <3>3
  <2>3. Follows(h, i, p, k)
    <3>1. h = [m \in 2 .. k |-> h[m]]
      OBVIOUS
    <3> HIDE DEF h, next, before
    <3>2. h = [m \in 2 .. k |-> next(before(h, m), m)]
      BY <2>2, <3>1
    <3> QED
      BY <1>0, <3>2
  <2> QED
    BY <1>2, <2>3
<1>3. 1 .. n \subseteq S
  <2> HIDE DEF S
  <2>1. \A k \in 1 + 1 .. n : k - 1 \in S => k \in S
    BY <1>2
  <2> QED
    BY <1>1, <2>1, Induct
<1> QED
  BY <1>3

SamePrefix(p, q, n) == \A m \in 1 .. n : p[m] = q[m]

LEMMA FollowsPrefix ==
    ASSUME NEW i, NEW p, NEW n \in Nat, NEW f, Follows(f, i, p, n),
           NEW q, NEW k \in Nat \ {0}, k <= n, NEW h, Follows(h, i, q, k), SamePrefix(p, q, k)
    PROVE  \A m \in 2 .. k : f[m] = h[m]
<1> DEFINE S == {m \in Nat : m \in 2 .. k => f[m] = h[m]}
           top == Inode(i).ptr[p[1]]
           next(b, x) == IF b = 0 THEN 0 ELSE PointersAt(b)[x]
           before(g, m) == IF m = 2 THEN top ELSE g[m - 1]
<1>1. 1 \in S
  OBVIOUS
<1>2. ASSUME NEW m \in 1 + 1 .. k, m - 1 \in S PROVE m \in S
  <2>1. f[m] = next(before(f, m), p[m])
    <3>1. m \in 2 .. n
      OBVIOUS
    <3> QED
      BY <3>1 DEF Follows
  <2>2. h[m] = next(before(h, m), q[m])
    <3>1. m \in 2 .. k /\ p[1] = q[1]
      BY DEF SamePrefix
    <3> QED
      BY <3>1 DEF Follows
  <2>sums. before(f, m) = before(h, m)
    <3>1. m # 2 => m - 1 \in 2 .. k
      OBVIOUS
    <3> QED
      BY <1>2, <3>1
  <2>4. p[m] = q[m]
    BY DEF SamePrefix
  <2>5. f[m] = h[m]
    <3> HIDE DEF next, before
    <3> QED
      BY <2>1, <2>2, <2>sums, <2>4
  <2> QED
    BY <2>5
<1>3. 1 .. k \subseteq S
  <2> HIDE DEF S
  <2>1. \A m \in 1 + 1 .. k : m - 1 \in S => m \in S
    BY <1>2
  <2> QED
    BY <1>1, <2>1, Induct
<1> QED
  BY <1>3

LEMMA BlockFollows ==
    ASSUME NEW i, NEW p, Len(p) \in Nat \ {0}
    PROVE  \E f : /\ Follows(f, i, p, Len(p))
                  /\ BlockAt(i, p) = IF Len(p) = 1 THEN Inode(i).ptr[p[1]] ELSE f[Len(p)]
<1> DEFINE f == CHOOSE f : Follows(f, i, p, Len(p))
<1>1. Follows(f, i, p, Len(p))
  BY FollowsExists
<1>2. BlockAt(i, p) = IF Len(p) = 1 THEN Inode(i).ptr[p[1]] ELSE f[Len(p)]
  BY DEF BlockAt, Follows
<1> QED
  BY <1>1, <1>2

LEMMA BlockAppend ==
    ASSUME PointersAt(0) = Zeros, NEW i, NEW p \in Paths, Len(p) <= Level(p[1]),
           NEW k \in 0 .. PerBlock - 1
    PROVE  BlockAt(i, Append(p, k)) = PointersAt(BlockAt(i, p))[k]
<1> DEFINE q == Append(p, k)
           n == Len(p)
<1>1. /\ Len(q) = n + 1 /\ q[n + 1] = k /\ q[1] = p[1]
      /\ \A m \in 1 .. n : q[m] = p[m]
  BY PathAppend
<1>2. n \in Nat \ {0}
  <2>1. Len(p) \in 1 .. Level(p[1]) + 1 /\ p \in Seq(Nat)
    BY PathFacts
  <2> QED
    BY <2>1
<1> HIDE DEF q, n
<1>3. PICK f : /\ Follows(f, i, p, n)
               /\ BlockAt(i, p) = IF n = 1 THEN Inode(i).ptr[p[1]] ELSE f[n]
  BY <1>2, BlockFollows DEF n
<1>4. PICK h : /\ Follows(h, i, q, n + 1)
               /\ BlockAt(i, q) = h[n + 1]
  <2>1. n + 1 \in Nat \ {0} /\ n + 1 # 1
    BY <1>2
  <2>2. Len(q) \in Nat \ {0}
    BY <1>1, <2>1
  <2>3. \E h : /\ Follows(h, i, q, Len(q))
               /\ BlockAt(i, q) = IF Len(q) = 1 THEN Inode(i).ptr[q[1]] ELSE h[Len(q)]
    BY <2>2, BlockFollows
  <2> QED
    BY <1>1, <2>1, <2>3
<1> DEFINE b == IF n + 1 = 2 THEN Inode(i).ptr[q[1]] ELSE h[n]
<1>5. h[n + 1] = IF b = 0 THEN 0 ELSE PointersAt(b)[k]
  <2>1. n + 1 \in 2 .. n + 1 /\ n + 1 - 1 = n
    BY <1>2
  <2> DEFINE next(c, m) == IF c = 0 THEN 0 ELSE PointersAt(c)[q[m]]
             before(m) == IF m = 2 THEN Inode(i).ptr[q[1]] ELSE h[m - 1]
  <2>2. h[n + 1] = next(before(n + 1), n + 1)
    <3>1. \A m \in 2 .. n + 1 : h[m] = next(before(m), m)
      BY <1>4 DEF Follows
    <3> HIDE DEF next, before
    <3> QED
      BY <2>1, <3>1
  <2>3. before(n + 1) = b /\ q[n + 1] = k
    <3>1. h[n + 1 - 1] = h[n]
      BY <2>1
    <3>2. CASE n + 1 = 2
      <4>1. before(n + 1) = Inode(i).ptr[q[1]] /\ b = Inode(i).ptr[q[1]]
        BY <3>2
      <4> QED
        BY <1>1, <4>1
    <3>3. CASE n + 1 # 2
      <4>1. b = h[n]
        BY <3>3
      <4>2. before(n + 1) = h[n + 1 - 1]
        BY <1>2, <2>1, <3>3
      <4> HIDE DEF before, b
      <4> QED
        BY <1>1, <3>1, <4>1, <4>2
    <3> QED
      BY <3>2, <3>3
  <2> HIDE DEF before, b
  <2> QED
    BY <2>2, <2>3
<1>6. b = BlockAt(i, p)
  <2>1. CASE n = 1
    BY <1>1, <1>3, <2>1
  <2>2. CASE n # 1
    <3>1. n \in 2 .. n /\ n <= n + 1 /\ n + 1 \in Nat /\ n + 1 # 2
      BY <1>2, <2>2
    <3>2. \A m \in 2 .. n : h[m] = f[m]
      <4> DEFINE N == n + 1
      <4>1. N \in Nat /\ n \in Nat \ {0} /\ n <= N /\ Follows(h, i, q, N) /\ Follows(f, i, p, n)
        BY <1>2, <1>3, <1>4, <3>1
      <4>2. SamePrefix(q, p, n)
        BY <1>1 DEF SamePrefix
      <4> HIDE DEF N
      <4> QED
        BY <4>1, <4>2, FollowsPrefix
    <3> QED
      BY <1>3, <2>2, <3>1, <3>2
  <2> QED
    BY <2>1, <2>2
<1>7. PointersAt(0)[k] = 0
  BY DEF Zeros
<1> HIDE DEF b
<1> QED
  BY <1>4, <1>5, <1>6, <1>7 DEF q

-----------------------------------------------------------------------------
(* The function IndirectRecursive exists, and its values are lines.        *)

FromOf(c) == IF c.logical = 0 THEN FirstLogical(c.level) ELSE c.logical
CallBelow(c, k) ==
    [level |-> c.level - 1, root |-> PointersAt(c.root)[k - 1],
     inode |-> c.inode, logical |-> FromOf(c) + k - 1]
LineAt(c, k) ==
    [of |-> c.inode, level |-> c.level, offset |-> FromOf(c) + k - 1,
     block |-> c.root, ref |-> PointersAt(c.root)[k - 1]]
RestAt(F, c, k) == IF c.level = 1 THEN <<>> ELSE F[CallBelow(c, k)]
LinesAt(F, c, k) ==
    IF PointersAt(c.root)[k - 1] <= 0 THEN <<>> ELSE <<LineAt(c, k)>> \o RestAt(F, c, k)
ZeroLine(c) == [of |-> c.inode, level |-> c.level, offset |-> c.logical, block |-> c.root, ref |-> 0]
LinesOf(F, c) ==
    IF Unreadable(c.root) THEN <<ZeroLine(c)>>
    ELSE FlattenSeq([k \in 1 .. PerBlock |-> LinesAt(F, c, k)])

LineFields == [of : Nat, level : 1 .. 3, offset : Nat, block : Int, ref : Nat]

LEMMA FirstLogicalType == \A level \in 1 .. 3 : FirstLogical(level) \in Nat \ {0}
<1>1. PerBlock * PerBlock \in Nat /\ PerBlock \in Nat /\ NumDirect \in Nat \ {0}
  BY ImageAssumption
<1> QED
  BY <1>1 DEF FirstLogical

LEMMA CallTypes ==
    ASSUME Image, NEW c \in Calls, NEW k \in 1 .. PerBlock
    PROVE  /\ c.level \in 1 .. 3 /\ c.root \in Int /\ c.inode \in Nat /\ c.logical \in Nat
           /\ PointersAt(c.root)[k - 1] \in Int
           /\ FromOf(c) \in Nat \ {0} /\ FromOf(c) + k - 1 \in Nat \ {0}
           /\ c.level # 1 => CallBelow(c, k) \in Calls
           /\ PointersAt(c.root)[k - 1] > 0 => LineAt(c, k) \in LineFields
           /\ ZeroLine(c) \in LineFields
<1>1. c.level \in 1 .. 3 /\ c.root \in Int /\ c.inode \in Nat /\ c.logical \in Nat
  BY DEF Calls
<1>2. PointersAt(c.root)[k - 1] \in Int
  <2>1. k - 1 \in 0 .. PerBlock - 1
    BY ImageAssumption
  <2> QED
    BY <2>1, ImageBlocks
<1>3. FromOf(c) \in Nat \ {0}
  BY <1>1, FirstLogicalType DEF FromOf
<1>4. FromOf(c) + k - 1 \in Nat \ {0}
  BY <1>3, ImageAssumption
<1>6. c.level # 1 => CallBelow(c, k) \in Calls
  BY <1>1, <1>2, <1>4 DEF CallBelow, Calls
<1>7. PointersAt(c.root)[k - 1] > 0 => LineAt(c, k) \in LineFields
  BY <1>1, <1>2, <1>4 DEF LineAt, LineFields
<1>8. ZeroLine(c) \in LineFields
  BY <1>1 DEF ZeroLine, LineFields
<1> QED
  BY <1>1, <1>2, <1>3, <1>4, <1>6, <1>7, <1>8

LEMMA LinesDepend ==
    ASSUME Image, NEW c \in Calls, NEW F, NEW G,
           \A d \in Calls : d.level = c.level - 1 => F[d] = G[d]
    PROVE  LinesOf(F, c) = LinesOf(G, c)
<1>1. ASSUME NEW k \in 1 .. PerBlock PROVE LinesAt(F, c, k) = LinesAt(G, c, k)
  <2>1. c.level # 1 => F[CallBelow(c, k)] = G[CallBelow(c, k)]
    <3>1. CallBelow(c, k).level = c.level - 1
      BY DEF CallBelow
    <3>2. c.level # 1 => CallBelow(c, k) \in Calls
      BY CallTypes
    <3> QED
      BY <3>1, <3>2
  <2>2. RestAt(F, c, k) = RestAt(G, c, k)
    BY <2>1 DEF RestAt
  <2> QED
    BY <2>2 DEF LinesAt
<1>2. [k \in 1 .. PerBlock |-> LinesAt(F, c, k)] = [k \in 1 .. PerBlock |-> LinesAt(G, c, k)]
  BY <1>1
<1> QED
  BY <1>2 DEF LinesOf

LEMMA RecursiveExists ==
    ASSUME Image
    PROVE  \E F : F = [c \in Calls |-> LinesOf(F, c)]
<1> DEFINE F0 == [c \in Calls |-> <<>>]
           F1 == [c \in Calls |-> LinesOf(F0, c)]
           F2 == [c \in Calls |-> LinesOf(F1, c)]
           F3 == [c \in Calls |-> LinesOf(F2, c)]
           F == [c \in Calls |-> IF c.level = 1 THEN F1[c] ELSE IF c.level = 2 THEN F2[c] ELSE F3[c]]
<1>1. ASSUME NEW c \in Calls PROVE F[c] = LinesOf(F, c)
  <2>0. c.level \in 1 .. 3
    BY DEF Calls
  <2>1. CASE c.level = 1
    <3>1. F[c] = LinesOf(F0, c)
      BY <2>1
    <3>2. \A d \in Calls : d.level # c.level - 1
      BY <2>1 DEF Calls
    <3> HIDE DEF F0, F
    <3>3. LinesOf(F0, c) = LinesOf(F, c)
      BY <3>2, LinesDepend
    <3> QED
      BY <3>1, <3>3
  <2>2. CASE c.level = 2
    <3>1. F[c] = LinesOf(F1, c)
      BY <2>2
    <3>2. \A d \in Calls : d.level = c.level - 1 => F1[d] = F[d]
      BY <2>2
    <3> HIDE DEF F1, F
    <3>3. LinesOf(F1, c) = LinesOf(F, c)
      BY <3>2, LinesDepend
    <3> QED
      BY <3>1, <3>3
  <2>3. CASE c.level = 3
    <3>1. F[c] = LinesOf(F2, c)
      BY <2>3
    <3>2. \A d \in Calls : d.level = c.level - 1 => F2[d] = F[d]
      BY <2>3
    <3> HIDE DEF F2, F
    <3>3. LinesOf(F2, c) = LinesOf(F, c)
      BY <3>2, LinesDepend
    <3> QED
      BY <3>1, <3>3
  <2> QED
    BY <2>0, <2>1, <2>2, <2>3
<1>2. F = [c \in Calls |-> F[c]]
  OBVIOUS
<1> HIDE DEF F
<1>3. F = [c \in Calls |-> LinesOf(F, c)]
  BY <1>1, <1>2
<1> QED
  BY <1>3

LEMMA RecursiveIs ==
    ASSUME Image
    PROVE  \A c \in Calls : IndirectRecursive[c] = LinesOf(IndirectRecursive, c)
<1> DEFINE R(F) == F = [c \in Calls |-> LinesOf(F, c)]
           G == CHOOSE F : R(F)
<1>1. R(G)
  <2>1. \E F : R(F)
    BY RecursiveExists
  <2> HIDE DEF R
  <2> QED
    BY <2>1
<1>2. IndirectRecursive = G
  BY Zenon DEF IndirectRecursive, LinesOf, LinesAt, RestAt, LineAt, ZeroLine, CallBelow, FromOf
<1> HIDE DEF G
<1> QED
  BY <1>1, <1>2

LEMMA LinesType ==
    ASSUME Image
    PROVE  \A c \in Calls : IndirectRecursive[c] \in Seq(LineFields)
<1>1. ASSUME NEW c \in Calls, c.level # 1 => \A d \in Calls : d.level = c.level - 1 =>
                                              IndirectRecursive[d] \in Seq(LineFields)
      PROVE  IndirectRecursive[c] \in Seq(LineFields)
  <2>1. IndirectRecursive[c] = LinesOf(IndirectRecursive, c)
    BY RecursiveIs
  <2> DEFINE ss == [k \in 1 .. PerBlock |-> LinesAt(IndirectRecursive, c, k)]
  <2>2. ASSUME NEW k \in 1 .. PerBlock PROVE ss[k] \in Seq(LineFields)
    <3>1. RestAt(IndirectRecursive, c, k) \in Seq(LineFields)
      <4>1. CASE c.level = 1
        BY <4>1 DEF RestAt
      <4>2. CASE c.level # 1
        <5>1. CallBelow(c, k) \in Calls /\ CallBelow(c, k).level = c.level - 1
          BY <4>2, CallTypes DEF CallBelow
        <5> QED
          BY <1>1, <4>2, <5>1 DEF RestAt
      <4> QED
        BY <4>1, <4>2
    <3>2. CASE PointersAt(c.root)[k - 1] <= 0
      <4>1. ss[k] = <<>>
        BY <3>2 DEF LinesAt
      <4> QED
        BY <4>1
    <3>3. CASE ~(PointersAt(c.root)[k - 1] <= 0)
      <4>1. LineAt(c, k) \in LineFields
        BY <3>3, CallTypes
      <4>2. ss[k] = <<LineAt(c, k)>> \o RestAt(IndirectRecursive, c, k)
        BY <3>3 DEF LinesAt
      <4> HIDE DEF ss
      <4> QED
        BY <3>1, <4>1, <4>2
    <3> QED
      BY <3>2, <3>3
  <2>3. FlattenSeq(ss) \in Seq(LineFields)
    <3>1. ss = [k \in 1 .. PerBlock |-> ss[k]] /\ PerBlock \in Nat
      BY ImageAssumption
    <3> HIDE DEF ss
    <3> QED
      BY <2>2, <3>1, FlattenValues
  <2>4. ZeroLine(c) \in LineFields
    <3>1. 1 \in 1 .. PerBlock
      BY ImageAssumption
    <3> QED
      BY <3>1, CallTypes
  <2>5. CASE Unreadable(c.root)
    <3>1. IndirectRecursive[c] = <<ZeroLine(c)>>
      BY <2>1, <2>5 DEF LinesOf
    <3> QED
      BY <2>4, <3>1
  <2>6. CASE ~Unreadable(c.root)
    BY <2>1, <2>3, <2>6 DEF LinesOf
  <2> QED
    BY <2>5, <2>6
<1>2. \A c \in Calls : c.level \in 1 .. 3
  BY DEF Calls
<1>3. \A c \in Calls : c.level = 1 => IndirectRecursive[c] \in Seq(LineFields)
  BY <1>1
<1>4. \A c \in Calls : c.level = 2 => IndirectRecursive[c] \in Seq(LineFields)
  BY <1>1, <1>3
<1>5. \A c \in Calls : c.level = 3 => IndirectRecursive[c] \in Seq(LineFields)
  BY <1>1, <1>4
<1> QED
  BY <1>2, <1>3, <1>4, <1>5

-----------------------------------------------------------------------------
(* What is read in indirect blocks.                                        *)

OffsetRead(p) ==
    FirstLogical(Level(p[1])) + (IF Len(p) >= 2 THEN p[2] ELSE 0)
        + (IF Len(p) >= 3 THEN p[3] ELSE 0) + (IF Len(p) >= 4 THEN p[4] ELSE 0)

IndirectPaths == {p \in Paths : p[1] >= NumDirect}

LEMMA IndirectPathFacts ==
    ASSUME NEW p \in IndirectPaths
    PROVE  /\ p \in Paths /\ p \in Seq(Nat) /\ p[1] \in Slot /\ Level(p[1]) \in 1 .. 3
           /\ Len(p) \in 1 .. Level(p[1]) + 1 /\ Len(p) \in 1 .. 4
           /\ \A m \in 2 .. Len(p) : p[m] \in 0 .. PerBlock - 1
<1>1. /\ p \in Paths /\ p \in Seq(Nat) /\ p[1] \in Slot
      /\ Len(p) \in 1 .. Level(p[1]) + 1
      /\ \A m \in 2 .. Len(p) : p[m] \in 0 .. PerBlock - 1
  BY PathFacts DEF IndirectPaths
<1>2. p[1] \in Nat /\ Level(p[1]) \in 0 .. 3 /\ (Level(p[1]) = 0 <=> p[1] < NumDirect)
  BY <1>1, LevelType
<1>3. ~(p[1] < NumDirect)
  BY <1>2, ImageAssumption DEF IndirectPaths
<1>4. Level(p[1]) \in 1 .. 3
  BY <1>2, <1>3
<1> DEFINE l == Level(p[1])
           n == Len(p)
<1>5. n \in 1 .. l + 1 /\ l \in 1 .. 3
  BY <1>1, <1>4
<1> HIDE DEF l, n
<1>6. n \in 1 .. 4
  BY <1>5
<1> QED
  BY <1>1, <1>4, <1>6 DEF n

LEMMA OffsetReadFacts ==
    ASSUME NEW p \in IndirectPaths
    PROVE  /\ OffsetRead(p) \in Nat \ {0}
           /\ Len(p) = 1 => OffsetRead(p) = FirstLogical(Level(p[1]))
           /\ \A k \in 0 .. PerBlock - 1 :
                  Len(p) <= Level(p[1]) => OffsetRead(Append(p, k)) = OffsetRead(p) + k
<1>1. /\ p \in Paths /\ p \in Seq(Nat) /\ Level(p[1]) \in 1 .. 3 /\ Len(p) \in 1 .. 4
  BY IndirectPathFacts
<1>2. FirstLogical(Level(p[1])) \in Nat \ {0}
  BY <1>1, FirstLogicalType
<1> DEFINE v(q, m) == IF Len(q) >= m THEN q[m] ELSE 0
<1>3. \A m \in 2 .. 4 : v(p, m) \in Nat
  BY <1>1
<1>4. OffsetRead(p) = FirstLogical(Level(p[1])) + v(p, 2) + v(p, 3) + v(p, 4)
  BY DEF OffsetRead
<1>5. ASSUME NEW k \in 0 .. PerBlock - 1, Len(p) <= Level(p[1])
      PROVE  OffsetRead(Append(p, k)) = OffsetRead(p) + k
  <2> DEFINE q == Append(p, k)
  <2>1. /\ q[1] = p[1] /\ Len(q) = Len(p) + 1 /\ q[Len(p) + 1] = k
        /\ \A m \in 1 .. Len(p) : q[m] = p[m]
    BY <1>1, <1>5, PathAppend
  <2>2. k \in Nat /\ Len(p) \in 1 .. 3
    <3> DEFINE n == Len(p)
               l == Level(p[1])
    <3>1. n \in 1 .. 4 /\ l \in 1 .. 3 /\ n <= l
      BY <1>1, <1>5
    <3> HIDE DEF n, l
    <3>2. n \in 1 .. 3
      BY <3>1
    <3> QED
      BY <3>2, ImageAssumption DEF n
  <2>offset. OffsetRead(q) = FirstLogical(Level(p[1])) + v(q, 2) + v(q, 3) + v(q, 4)
    BY <2>1 DEF OffsetRead
  <2> HIDE DEF q
  <2>4. ASSUME NEW m \in 2 .. 4
        PROVE  v(q, m) = IF m = Len(p) + 1 THEN k ELSE v(p, m)
    BY <1>1, <2>1, <2>2
  <2>5. v(p, Len(p) + 1) = 0 /\ Len(p) + 1 \in 2 .. 4
    <3> DEFINE n == Len(p)
    <3>1. n \in 1 .. 3
      BY <2>2
    <3> HIDE DEF n
    <3>2. ~(n >= n + 1) /\ n + 1 \in 2 .. 4
      BY <3>1
    <3> QED
      BY <3>2 DEF n
  <2> HIDE DEF v
  <2>6. CASE Len(p) = 1
    BY <1>2, <1>3, <1>4, <2>2, <2>offset, <2>4, <2>5, <2>6 DEF q
  <2>7. CASE Len(p) = 2
    BY <1>2, <1>3, <1>4, <2>2, <2>offset, <2>4, <2>5, <2>7 DEF q
  <2>8. CASE Len(p) = 3
    BY <1>2, <1>3, <1>4, <2>2, <2>offset, <2>4, <2>5, <2>8 DEF q
  <2> QED
    BY <2>2, <2>6, <2>7, <2>8
<1>6. Len(p) = 1 => OffsetRead(p) = FirstLogical(Level(p[1]))
  BY <1>2, <1>4
<1>7. OffsetRead(p) \in Nat \ {0}
  <2> HIDE DEF v
  <2> QED
    BY <1>2, <1>3, <1>4
<1> QED
  BY <1>5, <1>6, <1>7

LEMMA PathsEqual ==
    ASSUME NEW p \in Paths, NEW q \in Paths, Len(p) = Len(q), SamePrefix(p, q, Len(p))
    PROVE  p = q
<1>1. p \in Seq(Nat) /\ q \in Seq(Nat) /\ Len(p) = Len(q) /\ \A m \in 1 .. Len(p) : p[m] = q[m]
  BY PathFacts DEF SamePrefix
<1> QED
  BY <1>1

LEMMA ZeroBelow ==
    ASSUME PointersAt(0) = Zeros, NEW i, NEW r \in IndirectPaths, BlockAt(i, r) = 0,
           NEW q \in Paths, Len(q) >= Len(r), SamePrefix(q, r, Len(r))
    PROVE  BlockAt(i, q) = 0
<1> DEFINE n == Len(r)
           S == {m \in Nat : \A x \in Paths : Len(x) = m /\ SamePrefix(x, r, n) => BlockAt(i, x) = 0}
<1>1. n \in 1 .. 4 /\ r \in Paths
  BY IndirectPathFacts
<1>2. n \in S
  BY <1>1, PathsEqual
<1>3. ASSUME NEW m \in n + 1 .. 4, m - 1 \in S PROVE m \in S
  <2> SUFFICES ASSUME NEW x \in Paths, Len(x) = m, SamePrefix(x, r, n) PROVE BlockAt(i, x) = 0
    BY <1>1
  <2> DEFINE y == SubSeq(x, 1, Len(x) - 1)
             k == x[Len(x)]
  <2>1. m # 1 /\ m \in Nat /\ n <= m - 1 /\ n \in Nat
    BY <1>1
  <2>2. /\ y \in Paths /\ y[1] = x[1] /\ Len(y) = m - 1 /\ k \in 0 .. PerBlock - 1
        /\ x = Append(y, k) /\ Len(y) <= Level(y[1])
    BY <2>1, PathFront
  <2>3. SamePrefix(y, r, n)
    <3>1. \A j \in 1 .. Len(y) : Append(y, k)[j] = y[j]
      BY <2>2, PathAppend
    <3>2. \A j \in 1 .. n : j \in 1 .. Len(y)
      BY <2>1, <2>2
    <3> HIDE DEF y, k
    <3> QED
      BY <2>2, <3>1, <3>2 DEF SamePrefix
  <2> HIDE DEF y, k
  <2>4. BlockAt(i, y) = 0
    BY <1>3, <2>2, <2>3
  <2>5. BlockAt(i, Append(y, k)) = PointersAt(BlockAt(i, y))[k]
    BY <2>2, BlockAppend
  <2> QED
    BY <2>2, <2>4, <2>5 DEF Zeros
<1>4. n .. 4 \subseteq S
  <2> HIDE DEF S
  <2> QED
    BY <1>1, <1>2, <1>3, Induct
<1>5. Len(q) \in n .. 4
  <2>1. q[1] = r[1]
    BY <1>1 DEF SamePrefix
  <2>2. q \in IndirectPaths
    BY <2>1 DEF IndirectPaths
  <2>3. Len(q) \in 1 .. 4 /\ Len(q) >= n
    BY <2>2, IndirectPathFacts
  <2> DEFINE m == Len(q)
  <2>4. m \in 1 .. 4 /\ m >= n /\ n \in 1 .. 4
    BY <1>1, <2>3
  <2> HIDE DEF m, n
  <2>5. m \in n .. 4
    BY <2>4
  <2> QED
    BY <2>5 DEF m
<1> QED
  BY <1>4, <1>5

LEMMA BlocksNat ==
    ASSUME WithinReach, NEW i \in InUse, NEW p \in IndirectPaths
    PROVE  BlockAt(i, p) \in Nat /\ (BlockAt(i, p) # 0 => Inode(i).type # "s")
<1>1. p \in Paths /\ p[1] \in Slot /\ Len(p) \in 1 .. 4
  BY IndirectPathFacts
<1>2. CASE Inode(i).type = "s"
  <2> DEFINE r == <<p[1]>>
  <2>1. Inode(i).ptr[p[1]] = 0
    BY <1>1, <1>2 DEF WithinReach, IndirectPaths
  <2>2. r \in Paths /\ r[1] = p[1] /\ Len(r) = 1
    <3>1. p[1] \in Nat /\ Level(p[1]) \in Nat
      BY <1>1, LevelType
    <3>2. r \in Seq(Nat) /\ r[1] = p[1] /\ Len(r) = 1
      BY <3>1
    <3>3. 1 \in 1 .. Level(p[1]) + 1 /\ \A m \in 2 .. 1 : r[m] \in 0 .. PerBlock - 1
      BY <3>1
    <3> HIDE DEF r
    <3> QED
      BY <1>1, <3>2, <3>3, PathMade
  <2>3. BlockAt(i, r) = 0
    BY <2>1, <2>2 DEF BlockAt
  <2> HIDE DEF r
  <2>4. r \in IndirectPaths
    BY <2>2 DEF IndirectPaths
  <2>5. SamePrefix(p, r, Len(r)) /\ Len(p) >= Len(r)
    BY <1>1, <2>2 DEF SamePrefix
  <2>6. BlockAt(i, p) = 0
    BY <1>1, <2>3, <2>4, <2>5, ZeroBelow DEF WithinReach
  <2> QED
    BY <2>6
<1>3. CASE Inode(i).type # "s"
  <2>1. CASE BlockAt(i, p) # 0
    <3>1. <<i, p>> \in Refs
      BY <1>1, <1>3, <2>1 DEF Refs
    <3>2. BlockAt(<<i, p>>[1], <<i, p>>[2]) \in Nat
      BY <3>1 DEF WithinReach
    <3> QED
      BY <1>3, <3>2
  <2> QED
    BY <1>3, <2>1
<1> QED
  BY <1>2, <1>3

(* The call of indirect_recursive for the block a path leads to, and the   *)
(* line that is read for a path.                                           *)
RootCall(i, p) ==
    [level |-> Level(p[1]) - Len(p) + 1, root |-> BlockAt(i, p), inode |-> i,
     logical |-> IF Len(p) = 1 THEN 0 ELSE OffsetRead(p)]
PathLine(i, q) ==
    [of |-> i, level |-> Level(q[1]) - Len(q) + 2, offset |-> OffsetRead(q),
     block |-> BlockAt(i, SubSeq(q, 1, Len(q) - 1)), ref |-> BlockAt(i, q)]

LEMMA RootCallFacts ==
    ASSUME Image, WithinReach, NEW i \in InUse, i \in Nat,
           NEW p \in IndirectPaths, Len(p) <= Level(p[1])
    PROVE  /\ RootCall(i, p) \in Calls
           /\ FromOf(RootCall(i, p)) = OffsetRead(p)
           /\ RootCall(i, p).level = Level(p[1]) - Len(p) + 1
           /\ RootCall(i, p).root = BlockAt(i, p) /\ RootCall(i, p).inode = i
<1>1. Level(p[1]) \in 1 .. 3 /\ Len(p) \in 1 .. 4
  BY IndirectPathFacts
<1>2. BlockAt(i, p) \in Nat
  BY BlocksNat
<1>3. OffsetRead(p) \in Nat \ {0} /\ (Len(p) = 1 => OffsetRead(p) = FirstLogical(Level(p[1])))
  BY OffsetReadFacts
<1> DEFINE l == Level(p[1])
           n == Len(p)
           c == RootCall(i, p)
<1>4. /\ c.level = l - n + 1 /\ c.root = BlockAt(i, p) /\ c.inode = i
      /\ c.logical = IF n = 1 THEN 0 ELSE OffsetRead(p)
      /\ c = [level |-> l - n + 1, root |-> BlockAt(i, p), inode |-> i,
              logical |-> IF n = 1 THEN 0 ELSE OffsetRead(p)]
  BY DEF RootCall
<1>5. l \in 1 .. 3 /\ n \in 1 .. 4 /\ n <= l
  BY <1>1
<1> HIDE DEF l, n, c
<1>6. l - n + 1 \in 1 .. 3 /\ (n = 1 => l - n + 1 = l)
  BY <1>5
<1>7. c \in Calls
  BY <1>2, <1>3, <1>4, <1>6 DEF Calls
<1>8. FromOf(c) = OffsetRead(p)
  <2>1. CASE n = 1
    BY <1>3, <1>4, <1>6, <2>1 DEF FromOf, n, l
  <2>2. CASE n # 1
    BY <1>3, <1>4, <2>2 DEF FromOf
  <2> QED
    BY <2>1, <2>2
<1> QED
  BY <1>4, <1>7, <1>8 DEF c, l, n

LEMMA CallsAlongPath ==
    ASSUME Image, WithinReach, NEW i \in InUse, i \in Nat,
           NEW p \in IndirectPaths, Len(p) <= Level(p[1]), NEW k \in 1 .. PerBlock
    PROVE  /\ Append(p, k - 1) \in IndirectPaths
           /\ PointersAt(RootCall(i, p).root)[k - 1] = BlockAt(i, Append(p, k - 1))
           /\ LineAt(RootCall(i, p), k) = PathLine(i, Append(p, k - 1))
           /\ RootCall(i, p).level # 1 =>
                  /\ CallBelow(RootCall(i, p), k) = RootCall(i, Append(p, k - 1))
                  /\ Len(Append(p, k - 1)) <= Level(Append(p, k - 1)[1])
<1> DEFINE q == Append(p, k - 1)
           c == RootCall(i, p)
           l == Level(p[1])
           n == Len(p)
<1>1. p \in Paths /\ l \in 1 .. 3 /\ n \in 1 .. 4 /\ n <= l
  BY IndirectPathFacts
<1>2. k - 1 \in 0 .. PerBlock - 1 /\ k \in Nat /\ k - 1 \in Nat
  BY ImageAssumption
<1>3. /\ q \in Paths /\ q[1] = p[1] /\ Len(q) = n + 1 /\ SubSeq(q, 1, n) = p
  BY <1>1, <1>2, PathAppend
<1>4. q \in IndirectPaths
  BY <1>3 DEF IndirectPaths
<1>5. /\ FromOf(c) = OffsetRead(p) /\ c.level = l - n + 1
      /\ c.root = BlockAt(i, p) /\ c.inode = i
  BY RootCallFacts
<1>6. PointersAt(c.root)[k - 1] = BlockAt(i, q)
  BY <1>1, <1>2, <1>5, BlockAppend DEF WithinReach
<1>7. OffsetRead(q) = OffsetRead(p) + (k - 1) /\ OffsetRead(p) \in Nat
  BY <1>1, <1>2, OffsetReadFacts
<1>8. /\ LineAt(c, k) = [of |-> i, level |-> l - n + 1, offset |-> OffsetRead(p) + k - 1,
                         block |-> BlockAt(i, p), ref |-> BlockAt(i, q)]
      /\ CallBelow(c, k) = [level |-> l - n + 1 - 1, root |-> BlockAt(i, q), inode |-> i,
                            logical |-> OffsetRead(p) + k - 1]
  <2> HIDE DEF c, q, l, n
  <2>1. /\ LineAt(c, k) = [of |-> c.inode, level |-> c.level, offset |-> FromOf(c) + k - 1,
                           block |-> c.root, ref |-> PointersAt(c.root)[k - 1]]
        /\ CallBelow(c, k) = [level |-> c.level - 1, root |-> PointersAt(c.root)[k - 1],
                              inode |-> c.inode, logical |-> FromOf(c) + k - 1]
    BY DEF LineAt, CallBelow
  <2>2. FromOf(c) = OffsetRead(p)
    BY <1>5
  <2>3. FromOf(c) + k - 1 = OffsetRead(p) + k - 1
    BY <2>2
  <2>4. c.level - 1 = l - n + 1 - 1
    BY <1>1, <1>5
  <2> QED
    BY <1>5, <1>6, <2>1, <2>3, <2>4, Zenon
<1>9. /\ PathLine(i, q) = [of |-> i, level |-> l - (n + 1) + 2, offset |-> OffsetRead(q),
                           block |-> BlockAt(i, SubSeq(q, 1, n + 1 - 1)), ref |-> BlockAt(i, q)]
      /\ RootCall(i, q) = [level |-> l - (n + 1) + 1, root |-> BlockAt(i, q), inode |-> i,
                           logical |-> IF n + 1 = 1 THEN 0 ELSE OffsetRead(q)]
  BY <1>3 DEF PathLine, RootCall
<1> HIDE DEF q, c, l, n
<1>10. /\ n + 1 - 1 = n /\ n + 1 # 1 /\ l - (n + 1) + 2 = l - n + 1
       /\ l - (n + 1) + 1 = l - n + 1 - 1 /\ (l - n + 1 # 1 => n + 1 <= l)
  BY <1>1
<1>11. OffsetRead(p) + k - 1 = OffsetRead(q)
  BY <1>2, <1>7
<1>12. LineAt(c, k) = PathLine(i, q)
  BY <1>3, <1>8, <1>9, <1>10, <1>11
<1>13. CallBelow(c, k) = RootCall(i, q)
  BY <1>8, <1>9, <1>10, <1>11
<1>14. c.level # 1 => Len(q) <= Level(q[1])
  BY <1>3, <1>5, <1>10 DEF l
<1> QED
  BY <1>4, <1>6, <1>12, <1>13, <1>14 DEF q, c

NoZero(s) == \A n \in 1 .. Len(s) : s[n].ref # 0
Beneath(i, p) ==
    {r \in {i} \X IndirectPaths :
        Len(r[2]) > Len(p) /\ SamePrefix(r[2], p, Len(p)) /\ BlockAt(i, r[2]) # 0}
ReadsRefs(f) == \A i \in InUse : \A q \in IndirectPaths : f[<<i, q>>] = PathLine(i, q)

(* The references beneath the k-th one of a block.                         *)
BeneathAt(i, p, k) == {r \in Beneath(i, p) : r[2][Len(p) + 1] = k - 1}

LEMMA BeneathIs ==
    ASSUME WithinReach, NEW i \in InUse, NEW p \in IndirectPaths, Len(p) <= Level(p[1]),
           NEW k \in 1 .. PerBlock
    PROVE  LET q == Append(p, k - 1)
           IN  /\ BlockAt(i, q) = 0 => BeneathAt(i, p, k) = {}
               /\ BlockAt(i, q) # 0 => BeneathAt(i, p, k) = {<<i, q>>} \cup Beneath(i, q)
               /\ Len(p) = Level(p[1]) => Beneath(i, q) = {}
               /\ {<<i, q>>} \cap Beneath(i, q) = {}
<1> DEFINE q == Append(p, k - 1)
           l == Level(p[1])
           n == Len(p)
<1>1. p \in Paths /\ l \in 1 .. 3 /\ n \in 1 .. 4 /\ n <= l /\ p \in Seq(Nat)
  BY IndirectPathFacts
<1>2. k - 1 \in 0 .. PerBlock - 1 /\ k \in Nat /\ k - 1 \in Nat
  BY ImageAssumption
<1>3. /\ q \in Paths /\ q[1] = p[1] /\ Len(q) = n + 1 /\ q[n + 1] = k - 1
      /\ \A m \in 1 .. n : q[m] = p[m]
  BY <1>1, <1>2, PathAppend
<1>4. q \in IndirectPaths
  BY <1>3 DEF IndirectPaths
<1>5. ASSUME NEW r \in IndirectPaths
      PROVE  /\ SamePrefix(r, q, n + 1) <=> SamePrefix(r, p, n) /\ r[n + 1] = k - 1
             /\ Len(r) \in 1 .. 4
             /\ SamePrefix(r, p, n) => Len(r) <= l + 1
  <2>1. Len(r) \in 1 .. Level(r[1]) + 1 /\ Len(r) \in 1 .. 4
    BY IndirectPathFacts
  <2>2. SamePrefix(r, q, n + 1) <=> SamePrefix(r, p, n) /\ r[n + 1] = k - 1
    <3> HIDE DEF q, n
    <3> QED
      BY <1>1, <1>3 DEF SamePrefix
  <2>3. SamePrefix(r, p, n) => r[1] = p[1]
    <3> HIDE DEF n
    <3> QED
      BY <1>1 DEF SamePrefix
  <2> QED
    BY <2>1, <2>2, <2>3
<1> HIDE DEF q, l, n
<1>6. \A r \in Beneath(i, p) :
          /\ r = <<i, r[2]>> /\ r[2] \in IndirectPaths /\ Len(r[2]) > n
          /\ SamePrefix(r[2], p, n) /\ BlockAt(i, r[2]) # 0
  BY DEF Beneath, n
<1>7. \A r \in Beneath(i, q) :
          /\ r = <<i, r[2]>> /\ r[2] \in IndirectPaths /\ Len(r[2]) > n + 1
          /\ SamePrefix(r[2], q, n + 1) /\ BlockAt(i, r[2]) # 0
  BY <1>3 DEF Beneath
<1>8. BlockAt(i, q) = 0 => BeneathAt(i, p, k) = {}
  <2> SUFFICES ASSUME BlockAt(i, q) = 0, NEW r \in BeneathAt(i, p, k) PROVE FALSE
    OBVIOUS
  <2>1. r \in Beneath(i, p) /\ r[2][n + 1] = k - 1
    BY DEF BeneathAt, n
  <2>2. SamePrefix(r[2], q, Len(q)) /\ r[2] \in Paths
    BY <1>3, <1>5, <1>6, <2>1 DEF IndirectPaths
  <2>3. Len(r[2]) >= Len(q)
    BY <1>1, <1>3, <1>5, <1>6, <2>1
  <2>4. BlockAt(i, r[2]) = 0
    BY <1>4, <2>2, <2>3, ZeroBelow DEF WithinReach
  <2> QED
    BY <1>6, <2>1, <2>4
<1>9. BlockAt(i, q) # 0 => BeneathAt(i, p, k) = {<<i, q>>} \cup Beneath(i, q)
  <2> SUFFICES ASSUME BlockAt(i, q) # 0 PROVE BeneathAt(i, p, k) = {<<i, q>>} \cup Beneath(i, q)
    OBVIOUS
  <2>1. <<i, q>> \in BeneathAt(i, p, k)
    <3>1. SamePrefix(q, q, n + 1)
      BY DEF SamePrefix
    <3>2. Len(q) > n /\ SamePrefix(q, p, n) /\ q[n + 1] = k - 1
      BY <1>1, <1>3, <1>4, <1>5, <3>1
    <3>3. <<i, q>> \in Beneath(i, p)
      BY <1>4, <3>2 DEF Beneath, n
    <3> QED
      BY <3>2, <3>3 DEF BeneathAt, n
  <2>2. ASSUME NEW r \in Beneath(i, q) PROVE r \in BeneathAt(i, p, k)
    <3>1. SamePrefix(r[2], p, n) /\ r[2][n + 1] = k - 1 /\ Len(r[2]) > n
      BY <1>1, <1>5, <1>7
    <3>2. r \in Beneath(i, p)
      BY <1>7, <3>1 DEF Beneath, n
    <3> QED
      BY <3>1, <3>2 DEF BeneathAt, n
  <2>3. ASSUME NEW r \in BeneathAt(i, p, k) PROVE r \in {<<i, q>>} \cup Beneath(i, q)
    <3>1. r \in Beneath(i, p) /\ r[2][n + 1] = k - 1
      BY DEF BeneathAt, n
    <3>2. SamePrefix(r[2], q, Len(q)) /\ r[2] \in IndirectPaths /\ Len(r[2]) \in 1 .. 4
      BY <1>3, <1>5, <1>6, <3>1
    <3>3. CASE Len(r[2]) = n + 1
      <4>1. r[2] = q
        <5>1. Len(r[2]) = Len(q) /\ SamePrefix(r[2], q, Len(r[2])) /\ r[2] \in Paths
          BY <1>3, <3>2, <3>3 DEF IndirectPaths
        <5> QED
          BY <1>3, <5>1, PathsEqual
      <4> QED
        BY <1>6, <3>1, <4>1
    <3>4. CASE Len(r[2]) # n + 1
      <4>1. Len(r[2]) > n + 1
        BY <1>1, <1>6, <3>1, <3>2, <3>4
      <4> QED
        BY <1>3, <1>6, <3>1, <3>2, <4>1 DEF Beneath
    <3> QED
      BY <3>3, <3>4
  <2> QED
    BY <2>1, <2>2, <2>3
<1>10. n = l => Beneath(i, q) = {}
  <2> SUFFICES ASSUME n = l, NEW r \in Beneath(i, q) PROVE FALSE
    OBVIOUS
  <2>1. Len(r[2]) <= l + 1 /\ Len(r[2]) \in 1 .. 4 /\ Len(r[2]) > n + 1
    BY <1>5, <1>7
  <2> QED
    BY <1>1, <2>1
<1>11. {<<i, q>>} \cap Beneath(i, q) = {}
  <2> SUFFICES ASSUME <<i, q>> \in Beneath(i, q) PROVE FALSE
    OBVIOUS
  <2>1. Len(q) > n + 1
    BY <1>7
  <2> QED
    BY <1>1, <1>3, <2>1
<1> QED
  BY <1>8, <1>9, <1>10, <1>11 DEF q, l, n

(* One block of pointers, when the blocks below it are listed.             *)
LEMMA BeneathStep ==
    ASSUME Image, WithinReach, NEW i \in InUse, i \in Nat,
           NEW p \in IndirectPaths, Len(p) <= Level(p[1]), NEW f, ReadsRefs(f),
           NoZero(IndirectRecursive[RootCall(i, p)]),
           \A q \in IndirectPaths :
               Len(q) = Len(p) + 1 /\ Len(q) <= Level(q[1])
                   /\ NoZero(IndirectRecursive[RootCall(i, q)])
               => Lists(IndirectRecursive[RootCall(i, q)], Beneath(i, q), f)
    PROVE  Lists(IndirectRecursive[RootCall(i, p)], Beneath(i, p), f)
<1> DEFINE F == IndirectRecursive
           c == RootCall(i, p)
           l == Level(p[1])
           n == Len(p)
           ss == [k \in 1 .. PerBlock |-> LinesAt(F, c, k)]
           T == [k \in 1 .. PerBlock |-> BeneathAt(i, p, k)]
<1>1. p \in Paths /\ l \in 1 .. 3 /\ n \in 1 .. 4 /\ n <= l
  BY IndirectPathFacts
<1>2. /\ c \in Calls /\ c.level = l - n + 1 /\ c.root = BlockAt(i, p) /\ F[c] = LinesOf(F, c)
  BY RootCallFacts, RecursiveIs
<1>3. PerBlock \in Nat \ {0}
  BY ImageAssumption
<1>4. F[c] = FlattenSeq(ss)
  <2>1. CASE Unreadable(c.root)
    <3>1. F[c] = <<ZeroLine(c)>>
      BY <1>2, <2>1 DEF LinesOf
    <3>2. Len(F[c]) = 1 /\ F[c][1].ref = 0
      BY <3>1 DEF ZeroLine
    <3> HIDE DEF F, c
    <3> QED
      BY <3>2 DEF NoZero, F, c
  <2> QED
    BY <1>2, <2>1 DEF LinesOf
<1>5. ASSUME NEW k \in 1 .. PerBlock
      PROVE  Lists(ss[k], T[k], f)
  <2> DEFINE q == Append(p, k - 1)
  <2>1. /\ q \in IndirectPaths /\ PointersAt(c.root)[k - 1] = BlockAt(i, q)
        /\ LineAt(c, k) = PathLine(i, q)
        /\ c.level # 1 => CallBelow(c, k) = RootCall(i, q) /\ Len(q) <= Level(q[1])
    BY CallsAlongPath
  <2>2. Len(q) = n + 1 /\ k - 1 \in 0 .. PerBlock - 1
    BY <1>1, <1>3
  <2>3. /\ BlockAt(i, q) = 0 => BeneathAt(i, p, k) = {}
        /\ BlockAt(i, q) # 0 => BeneathAt(i, p, k) = {<<i, q>>} \cup Beneath(i, q)
        /\ n = l => Beneath(i, q) = {}
        /\ {<<i, q>>} \cap Beneath(i, q) = {}
    BY BeneathIs
  <2>4. BlockAt(i, q) \in Nat
    BY <2>1, BlocksNat
  <2>5. /\ ss[k] = IF BlockAt(i, q) <= 0 THEN <<>> ELSE <<LineAt(c, k)>> \o RestAt(F, c, k)
        /\ T[k] = BeneathAt(i, p, k)
    BY <2>1 DEF LinesAt
  <2> HIDE DEF ss, T, q
  <2>6. CASE BlockAt(i, q) = 0
    <3>1. ss[k] = <<>> /\ T[k] = {}
      BY <2>3, <2>5, <2>6
    <3> QED
      BY <3>1, ListsEmpty
  <2>7. CASE BlockAt(i, q) # 0
    <3>1. ss[k] = <<LineAt(c, k)>> \o RestAt(F, c, k) /\ T[k] = {<<i, q>>} \cup Beneath(i, q)
      BY <2>3, <2>4, <2>5, <2>7
    <3>2. Lists(<<LineAt(c, k)>>, {<<i, q>>}, f)
      <4>1. f[<<i, q>>] = LineAt(c, k)
        BY <2>1 DEF ReadsRefs
      <4> HIDE DEF c
      <4>2. Numbers([m \in 1 .. 1 |-> <<i, q>>], <<LineAt(c, k)>>, {<<i, q>>}, f)
        BY <4>1 DEF Numbers
      <4>3. <<LineAt(c, k)>> \in Seq({f[x] : x \in {<<i, q>>}})
        BY <4>1
      <4> QED
        BY <4>2, <4>3 DEF Lists
    <3>3. Lists(RestAt(F, c, k), Beneath(i, q), f)
      <4>1. CASE c.level = 1
        <5>1. n = l
          <6> HIDE DEF n, l, c
          <6> QED
            BY <1>1, <1>2, <4>1
        <5> QED
          BY <2>3, <4>1, <5>1, ListsEmpty DEF RestAt
      <4>2. CASE c.level # 1
        <5>1. RestAt(F, c, k) = F[RootCall(i, q)] /\ Len(q) <= Level(q[1])
          BY <2>1, <4>2 DEF RestAt
        <5>2. RootCall(i, q) \in Calls
          BY <2>1, <5>1, RootCallFacts
        <5> DEFINE rest == F[RootCall(i, q)]
        <5>3. rest \in Seq(LineFields)
          BY <5>2, LinesType
        <5>4. ss[k] = <<LineAt(c, k)>> \o rest
          BY <3>1, <5>1
        <5>5. NoZero(rest)
          <6> SUFFICES ASSUME NEW m \in 1 .. Len(rest) PROVE rest[m].ref # 0
            BY DEF NoZero
          <6> HIDE DEF rest
          <6>1. m + 1 \in 1 .. Len(ss[k]) /\ ss[k][m + 1] = rest[m]
            BY <5>3, <5>4
          <6>2. \A j \in 1 .. PerBlock : ss[j] \in Seq(LineFields)
            <7> SUFFICES ASSUME NEW j \in 1 .. PerBlock PROVE ss[j] \in Seq(LineFields)
              OBVIOUS
            <7>1. RestAt(F, c, j) \in Seq(LineFields)
              <8>1. CallBelow(c, j) \in Calls
                BY <1>2, <4>2, CallTypes
              <8> QED
                BY <4>2, <8>1, LinesType DEF RestAt
            <7>2. ~(PointersAt(c.root)[j - 1] <= 0) => LineAt(c, j) \in LineFields
              BY <1>2, CallTypes
            <7>3. ss[j] = IF PointersAt(c.root)[j - 1] <= 0 THEN <<>> ELSE <<LineAt(c, j)>> \o RestAt(F, c, j)
              BY DEF ss, LinesAt
            <7> HIDE DEF c, F
            <7>4. CASE PointersAt(c.root)[j - 1] <= 0
              BY <7>3, <7>4
            <7>5. CASE ~(PointersAt(c.root)[j - 1] <= 0)
              <8>1. LineAt(c, j) \in LineFields /\ ss[j] = <<LineAt(c, j)>> \o RestAt(F, c, j)
                BY <7>2, <7>3, <7>5
              <8> QED
                BY <7>1, <8>1
            <7> QED
              BY <7>4, <7>5
          <6>3. ss = [j \in 1 .. PerBlock |-> ss[j]]
            BY DEF ss
          <6> DEFINE mm == m + 1
          <6>4. \E j \in 1 .. Len(FlattenSeq(ss)) : FlattenSeq(ss)[j] = ss[k][mm]
            <7>1. mm \in 1 .. Len(ss[k]) /\ PerBlock \in Nat
              BY <1>3, <6>1
            <7> HIDE DEF mm
            <7>2. \A h \in 1 .. PerBlock : \A o \in 1 .. Len(ss[h]) : Has(FlattenSeq(ss), ss[h][o])
              BY <6>2, <6>3, <7>1, FlattenValues
            <7> QED
              BY <7>1, <7>2 DEF Has
          <6>5. \A j \in 1 .. Len(F[c]) : F[c][j].ref # 0
            BY DEF NoZero
          <6> HIDE DEF F, c
          <6> QED
            BY <1>4, <6>1, <6>4, <6>5
        <5>6. Lists(rest, Beneath(i, q), f)
          BY <2>1, <2>2, <5>1, <5>5
        <5> QED
          BY <5>1, <5>6
      <4> QED
        BY <4>1, <4>2
    <3>4. Lists(<<LineAt(c, k)>> \o RestAt(F, c, k), {<<i, q>>} \cup Beneath(i, q), f)
      <4> HIDE DEF c, F, q
      <4> QED
        BY <2>3, <3>2, <3>3, ListsConcat
    <3> QED
      BY <3>1, <3>4
  <2> QED
    BY <2>6, <2>7
<1>6. \A j, k \in 1 .. PerBlock : j # k => T[j] \cap T[k] = {}
  <2> SUFFICES ASSUME NEW j \in 1 .. PerBlock, NEW k \in 1 .. PerBlock, j # k,
                      NEW r \in T[j], r \in T[k]
               PROVE  FALSE
    OBVIOUS
  <2>1. r[2][n + 1] = j - 1 /\ r[2][n + 1] = k - 1
    BY DEF BeneathAt
  <2>2. j \in Int /\ k \in Int
    OBVIOUS
  <2> QED
    BY <2>1, <2>2
<1>7. UNION {T[k] : k \in 1 .. PerBlock} = Beneath(i, p)
  <2>1. \A k \in 1 .. PerBlock : T[k] \subseteq Beneath(i, p)
    BY DEF BeneathAt
  <2>2. ASSUME NEW r \in Beneath(i, p)
        PROVE  \E k \in 1 .. PerBlock : r \in T[k]
    <3>1. r[2] \in IndirectPaths /\ Len(r[2]) > n
      BY DEF Beneath
    <3>2. Len(r[2]) \in 1 .. 4 /\ \A m \in 2 .. Len(r[2]) : r[2][m] \in 0 .. PerBlock - 1
      BY <3>1, IndirectPathFacts
    <3> DEFINE len == Len(r[2])
               k == r[2][n + 1] + 1
    <3>3. len \in 1 .. 4 /\ len > n /\ n \in 1 .. 4
      BY <1>1, <3>1, <3>2
    <3>4. n + 1 \in 2 .. Len(r[2])
      <4>1. n + 1 \in 2 .. len
        <5> HIDE DEF len, n
        <5> QED
          BY <3>3
      <4> QED
        BY <4>1
    <3>5. r[2][n + 1] \in 0 .. PerBlock - 1
      BY <3>2, <3>4
    <3>6. k \in 1 .. PerBlock /\ r[2][n + 1] = k - 1
      <4> HIDE DEF n
      <4> QED
        BY <1>3, <3>5
    <3> HIDE DEF k
    <3>7. r \in BeneathAt(i, p, k)
      BY <3>6 DEF BeneathAt
    <3> QED
      BY <3>6, <3>7
  <2> HIDE DEF T
  <2> QED
    BY <2>1, <2>2
<1>8. ss = [k \in 1 .. PerBlock |-> ss[k]]
  OBVIOUS
<1> HIDE DEF ss, T
<1>9. Lists(FlattenSeq(ss), UNION {T[k] : k \in 1 .. PerBlock}, f)
  BY <1>3, <1>5, <1>6, <1>8, ListsFlatten
<1> QED
  BY <1>4, <1>7, <1>9

LEMMA BeneathList ==
    ASSUME Image, WithinReach, NEW i \in InUse, i \in Nat, NEW f, ReadsRefs(f)
    PROVE  \A p \in IndirectPaths :
               Len(p) <= Level(p[1]) /\ NoZero(IndirectRecursive[RootCall(i, p)])
               => Lists(IndirectRecursive[RootCall(i, p)], Beneath(i, p), f)
<1> DEFINE Good(p) == Len(p) <= Level(p[1]) /\ NoZero(IndirectRecursive[RootCall(i, p)])
                      => Lists(IndirectRecursive[RootCall(i, p)], Beneath(i, p), f)
<1>1. ASSUME NEW p \in IndirectPaths, \A q \in IndirectPaths : Len(q) = Len(p) + 1 => Good(q)
      PROVE  Good(p)
  BY <1>1, BeneathStep
<1>2. \A p \in IndirectPaths : Level(p[1]) \in 1 .. 3 /\ Len(p) \in 1 .. 4
  BY IndirectPathFacts
<1>3. \A p \in IndirectPaths : Len(p) = 4 => Good(p)
  BY <1>2
<1> HIDE DEF Good
<1>4. ASSUME NEW p \in IndirectPaths, Len(p) = 3 PROVE Good(p)
  <2>1. Len(p) + 1 = 4
    BY <1>4
  <2> QED
    BY <1>1, <1>3, <2>1
<1>5. ASSUME NEW p \in IndirectPaths, Len(p) = 2 PROVE Good(p)
  <2>1. Len(p) + 1 = 3
    BY <1>5
  <2> QED
    BY <1>1, <1>4, <2>1
<1>6. ASSUME NEW p \in IndirectPaths, Len(p) = 1 PROVE Good(p)
  <2>1. Len(p) + 1 = 2
    BY <1>6
  <2> QED
    BY <1>1, <1>5, <2>1
<1>7. \A p \in IndirectPaths : Good(p)
  BY <1>2, <1>3, <1>4, <1>5, <1>6
<1> QED
  BY <1>7 DEF Good

(* The references in indirect blocks of one inode.                         *)
Top(level) == <<NumDirect + level - 1>>

LEMMA TopCall ==
    ASSUME NEW level \in 1 .. 3, NEW i
    PROVE  /\ Top(level) \in IndirectPaths /\ Len(Top(level)) = 1
           /\ Top(level)[1] = NumDirect + level - 1
           /\ Level(Top(level)[1]) = level
           /\ RootCall(i, Top(level)) = [level |-> level, root |-> Inode(i).ptr[NumDirect + level - 1],
                                         inode |-> i, logical |-> 0]
<1> DEFINE s == NumDirect + level - 1
           p == Top(level)
<1>1. s \in Slot /\ s \in Nat /\ s >= NumDirect /\ ~(s < NumDirect) /\ s - NumDirect + 1 = level
  BY ImageAssumption DEF Slot
<1>2. p = <<s>>
  BY DEF Top
<1>3. Level(s) = level
  BY <1>1 DEF Level
<1> HIDE DEF s, p
<1>4. p \in Seq(Nat) /\ Len(p) = 1 /\ p[1] = s
  BY <1>1, <1>2
<1>5. 1 \in 1 .. level + 1 /\ 1 .. 1 = {1} /\ 2 .. 1 = {} /\ level - 1 + 1 = level /\ level >= 1
  OBVIOUS
<1>6. p \in Paths
  BY <1>1, <1>3, <1>4, <1>5, PathMade
<1>7. BlockAt(i, p) = Inode(i).ptr[s]
  BY <1>4 DEF BlockAt
<1>8. RootCall(i, p) = [level |-> level, root |-> Inode(i).ptr[s], inode |-> i, logical |-> 0]
  BY <1>3, <1>4, <1>5, <1>7 DEF RootCall
<1> QED
  BY <1>1, <1>3, <1>4, <1>6, <1>8 DEF IndirectPaths, s, p

RefsIn(i) == {r \in IndirectRefs : r[1] = i}

LEMMA TopFacts ==
    ASSUME NEW level \in 1 .. 3
    PROVE  /\ Top(level) \in IndirectPaths /\ Len(Top(level)) = 1
           /\ Top(level)[1] = NumDirect + level - 1
           /\ Level(Top(level)[1]) = level
<1> DEFINE i == 0
<1>1. /\ Top(level) \in IndirectPaths /\ Len(Top(level)) = 1
      /\ Top(level)[1] = NumDirect + level - 1
      /\ Level(Top(level)[1]) = level
      /\ RootCall(i, Top(level)) = [level |-> level, root |-> Inode(i).ptr[NumDirect + level - 1],
                                    inode |-> i, logical |-> 0]
  <2> HIDE DEF i
  <2> QED
    BY TopCall
<1> QED
  BY <1>1

LEMMA RefsInIs ==
    ASSUME WithinReach, NEW i \in InUse
    PROVE  RefsIn(i) = UNION {Beneath(i, Top(level)) : level \in 1 .. 3}
<1>1. ASSUME NEW level \in 1 .. 3, NEW r \in Beneath(i, Top(level)) PROVE r \in RefsIn(i)
  <2>1. /\ r[1] = i /\ r = <<r[1], r[2]>> /\ r[2] \in IndirectPaths
        /\ Len(r[2]) > 1 /\ BlockAt(i, r[2]) # 0
    BY TopFacts DEF Beneath
  <2>2. r[2] \in Paths /\ Len(r[2]) # 1 /\ Inode(i).type # "s"
    <3>1. Inode(i).type # "s"
      BY <2>1, BlocksNat
    <3>2. r[2] \in Paths
      BY <2>1 DEF IndirectPaths
    <3>3. Len(r[2]) # 1
      BY <2>1
    <3> QED
      BY <3>1, <3>2, <3>3
  <2>3. r \in InUse \X Paths
    BY <2>1, <2>2
  <2> QED
    BY <2>1, <2>2, <2>3 DEF RefsIn, IndirectRefs, Refs, Direct
<1>2. ASSUME NEW r \in RefsIn(i)
      PROVE  \E level \in 1 .. 3 : r \in Beneath(i, Top(level))
  <2>1. /\ r[1] = i /\ r = <<r[1], r[2]>> /\ r[2] \in Paths /\ Len(r[2]) # 1
        /\ BlockAt(i, r[2]) # 0
    BY DEF RefsIn, IndirectRefs, Refs, Direct
  <2> DEFINE p == r[2]
             level == Level(p[1])
             n == Len(p)
  <2>2. p[1] \in Slot /\ n \in 1 .. level + 1 /\ n # 1 /\ level \in 0 .. 3 /\ p[1] \in Nat
        /\ (level = 0 <=> p[1] < NumDirect)
    BY <2>1, PathFacts, LevelType
  <2>3. level \in 1 .. 3 /\ n > 1
    <3> HIDE DEF level, n
    <3> QED
      BY <2>2
  <2>4. p[1] = NumDirect + level - 1 /\ p[1] >= NumDirect
    BY <2>2, <2>3, ImageAssumption DEF Level
  <2>5. p \in IndirectPaths
    BY <2>1, <2>4 DEF IndirectPaths
  <2> HIDE DEF level
  <2>6. Len(Top(level)) = 1 /\ Top(level)[1] = p[1]
    BY <2>3, <2>4, TopFacts
  <2>7. SamePrefix(p, Top(level), 1)
    BY <2>6 DEF SamePrefix
  <2>8. r \in Beneath(i, Top(level))
    BY <2>1, <2>3, <2>5, <2>6, <2>7 DEF Beneath
  <2> QED
    BY <2>3, <2>8
<1> QED
  BY <1>1, <1>2

LEMMA IndirectsOfIs ==
    ASSUME Image, WithinReach, NEW i \in InUse, i \in Nat
    PROVE  LET ss == [level \in 1 .. 3 |-> IndirectRecursive[RootCall(i, Top(level))]]
           IN  /\ IndirectsOf(InodeOf(i)) = FlattenSeq(ss)
               /\ \A level \in 1 .. 3 : ss[level] \in Seq(LineFields)
<1> DEFINE ss == [level \in 1 .. 3 |-> IndirectRecursive[RootCall(i, Top(level))]]
<1>1. IndirectsOf(InodeOf(i)) = FlattenSeq(ss)
  <2>1. InodeOf(i).of = i /\ InodeOf(i).ptr = Inode(i).ptr
    BY DEF InodeOf
  <2>2. \A level \in 1 .. 3 : RootCall(i, Top(level)) =
            [level |-> level, root |-> InodeOf(i).ptr[NumDirect + level - 1],
             inode |-> InodeOf(i).of, logical |-> 0]
    BY <2>1, TopCall
  <2>3. ss = [level \in 1 .. 3 |->
                 IndirectRecursive[[level |-> level, root |-> InodeOf(i).ptr[NumDirect + level - 1],
                                    inode |-> InodeOf(i).of, logical |-> 0]]]
    BY <2>2
  <2> QED
    BY <2>3 DEF IndirectsOf
<1>2. \A level \in 1 .. 3 : ss[level] \in Seq(LineFields)
  <2> SUFFICES ASSUME NEW level \in 1 .. 3
               PROVE  IndirectRecursive[RootCall(i, Top(level))] \in Seq(LineFields)
    OBVIOUS
  <2>1. Top(level) \in IndirectPaths /\ Len(Top(level)) <= Level(Top(level)[1])
    <3>1. /\ Top(level) \in IndirectPaths /\ Len(Top(level)) = 1
          /\ Level(Top(level)[1]) = level /\ 1 <= level
      BY TopFacts
    <3> QED
      BY <3>1
  <2>2. RootCall(i, Top(level)) \in Calls
    BY <2>1, RootCallFacts
  <2> QED
    BY <2>2, LinesType
<1> QED
  BY <1>1, <1>2

LEMMA IndirectsType ==
    ASSUME Image, WithinReach, NEW i \in InUse, i \in Nat
    PROVE  IndirectsOf(InodeOf(i)) \in Seq(LineFields)
<1> DEFINE ss == [level \in 1 .. 3 |-> IndirectRecursive[RootCall(i, Top(level))]]
<1>1. IndirectsOf(InodeOf(i)) = FlattenSeq(ss) /\ \A level \in 1 .. 3 : ss[level] \in Seq(LineFields)
  BY IndirectsOfIs
<1>2. ss = [level \in 1 .. 3 |-> ss[level]] /\ 3 \in Nat
  OBVIOUS
<1> HIDE DEF ss
<1>3. FlattenSeq(ss) \in Seq(LineFields)
  BY <1>1, <1>2, FlattenValues
<1> QED
  BY <1>1, <1>3

LEMMA IndirectsOfList ==
    ASSUME Image, WithinReach, NEW i \in InUse, i \in Nat, NEW f, ReadsRefs(f),
           NoZero(IndirectsOf(InodeOf(i)))
    PROVE  Lists(IndirectsOf(InodeOf(i)), RefsIn(i), f)
<1> DEFINE ss == [level \in 1 .. 3 |-> IndirectRecursive[RootCall(i, Top(level))]]
           T == [level \in 1 .. 3 |-> Beneath(i, Top(level))]
<1>1. IndirectsOf(InodeOf(i)) = FlattenSeq(ss)
  BY IndirectsOfIs
<1>2. \A level \in 1 .. 3 : ss[level] \in Seq(LineFields)
  BY IndirectsOfIs
<1>3. ASSUME NEW level \in 1 .. 3 PROVE Lists(ss[level], T[level], f)
  <2>1. Top(level) \in IndirectPaths /\ Len(Top(level)) <= Level(Top(level)[1])
    <3>1. /\ Top(level) \in IndirectPaths /\ Len(Top(level)) = 1
          /\ Level(Top(level)[1]) = level /\ 1 <= level
      BY TopFacts
    <3> QED
      BY <3>1
  <2>2. ss = [j \in 1 .. 3 |-> ss[j]] /\ 3 \in Nat
    OBVIOUS
  <2>3. ss[level] = IndirectRecursive[RootCall(i, Top(level))] /\ T[level] = Beneath(i, Top(level))
    OBVIOUS
  <2> HIDE DEF ss, T
  <2>4. \A h \in 1 .. 3 : \A o \in 1 .. Len(ss[h]) : Has(FlattenSeq(ss), ss[h][o])
    BY <1>2, <2>2, FlattenValues
  <2>5. \A j \in 1 .. Len(FlattenSeq(ss)) : FlattenSeq(ss)[j].ref # 0
    BY <1>1 DEF NoZero
  <2>6. NoZero(ss[level])
    BY <2>4, <2>5 DEF NoZero, Has
  <2> QED
    BY <2>1, <2>3, <2>6, BeneathList
<1>4. \A j, k \in 1 .. 3 : j # k => T[j] \cap T[k] = {}
  <2> SUFFICES ASSUME NEW j \in 1 .. 3, NEW k \in 1 .. 3, j # k, NEW r \in T[j], r \in T[k]
               PROVE  FALSE
    OBVIOUS
  <2>1. r[2][1] = Top(j)[1] /\ r[2][1] = Top(k)[1]
    BY TopFacts DEF Beneath, SamePrefix
  <2> QED
    BY <2>1, TopFacts
<1>5. UNION {T[k] : k \in 1 .. 3} = RefsIn(i)
  BY RefsInIs
<1>6. ss = [k \in 1 .. 3 |-> ss[k]]
  OBVIOUS
<1> HIDE DEF ss, T
<1>7. Lists(FlattenSeq(ss), UNION {T[k] : k \in 1 .. 3}, f)
  <2>1. 3 \in Nat
    OBVIOUS
  <2> QED
    BY <1>3, <1>4, <1>6, <2>1, ListsFlatten
<1> QED
  BY <1>1, <1>5, <1>7

IndirectsRead ==
    /\ img.indirect = FlattenSeq([n \in DOMAIN img.inode |-> IndirectsOf(img.inode[n])])
    /\ \A n \in DOMAIN img.indirect : img.indirect[n].ref # 0

(* Every reference in an indirect block is read once.                      *)
LEMMA IndirectsList ==
    ASSUME Image, WithinReach, GroupsRead, InodesRead, IndirectsRead, NEW f, ReadsRefs(f)
    PROVE  Lists(img.indirect, IndirectRefs, f) /\ img.indirect \in Seq(LineFields)
<1> DEFINE e == [i \in InUse |-> InodeOf(i)]
           is == img.inode
           N == Len(is)
           ss == [n \in DOMAIN is |-> IndirectsOf(is[n])]
<1>1. Lists(is, InUse, e)
  <2>1. \A i \in InUse : e[i] = InodeOf(i)
    OBVIOUS
  <2> HIDE DEF e
  <2> QED
    BY <2>1, InodesList
<1>2. PICK g : Numbers(g, is, InUse, e)
  BY <1>1 DEF Lists
<1>3. N \in Nat /\ DOMAIN is = 1 .. N
  <2> HIDE DEF e, is
  <2> QED
    BY <1>1, ListsFacts
<1> DEFINE T == [n \in 1 .. N |-> RefsIn(g[n])]
<1> HIDE DEF is
<1>4. ASSUME NEW n \in 1 .. N PROVE g[n] \in InUse /\ is[n] = InodeOf(g[n]) /\ g[n] \in Nat
  <2>1. g[n] \in InUse /\ is[n] = e[g[n]]
    BY <1>2, <1>4 DEF Numbers
  <2>2. g[n] \in Nat
    BY <2>1, InodeTable
  <2> QED
    BY <2>1, <2>2
<1>5. ASSUME NEW n \in 1 .. N PROVE ss[n] \in Seq(LineFields)
  <2>1. ss[n] = IndirectsOf(InodeOf(g[n])) /\ g[n] \in InUse /\ g[n] \in Nat
    BY <1>3, <1>4
  <2> HIDE DEF ss
  <2>2. IndirectsOf(InodeOf(g[n])) \in Seq(LineFields)
    BY <2>1, IndirectsType
  <2> QED
    BY <2>1, <2>2
<1>6. ss = [n \in 1 .. N |-> ss[n]]
  BY <1>3
<1>7. img.indirect = FlattenSeq(ss)
  BY DEF IndirectsRead, is
<1> HIDE DEF ss
<1>8. /\ img.indirect \in Seq(LineFields)
      /\ \A n \in 1 .. N : \A k \in 1 .. Len(ss[n]) : Has(img.indirect, ss[n][k])
  <2> HIDE DEF N
  <2> QED
    BY <1>3, <1>5, <1>6, <1>7, FlattenValues
<1>9. ASSUME NEW n \in 1 .. N PROVE Lists(ss[n], T[n], f)
  <2>1. \A j \in 1 .. Len(img.indirect) : img.indirect[j].ref # 0
    BY <1>8 DEF IndirectsRead
  <2>2. NoZero(ss[n])
    BY <1>8, <2>1 DEF NoZero, Has
  <2>3. ss[n] = IndirectsOf(InodeOf(g[n])) /\ T[n] = RefsIn(g[n])
    BY <1>3, <1>4 DEF ss
  <2>4. g[n] \in InUse /\ g[n] \in Nat
    BY <1>4
  <2> HIDE DEF T
  <2>5. Lists(IndirectsOf(InodeOf(g[n])), RefsIn(g[n]), f)
    BY <2>2, <2>3, <2>4, IndirectsOfList
  <2> QED
    BY <2>3, <2>5
<1>10. \A m, n \in 1 .. N : m # n => T[m] \cap T[n] = {}
  <2> SUFFICES ASSUME NEW m \in 1 .. N, NEW n \in 1 .. N, NEW r \in T[m], r \in T[n] PROVE m = n
    OBVIOUS
  <2>1. r[1] = g[m] /\ r[1] = g[n]
    BY DEF RefsIn
  <2> QED
    BY <1>2, <2>1 DEF Numbers
<1>11. UNION {T[n] : n \in 1 .. N} = IndirectRefs
  <2>1. ASSUME NEW r \in IndirectRefs PROVE \E n \in 1 .. N : r \in T[n]
    <3>1. r[1] \in InUse
      BY DEF IndirectRefs, Refs
    <3>2. PICK n \in 1 .. N : g[n] = r[1]
      BY <1>2, <3>1 DEF Numbers
    <3> QED
      BY <3>2 DEF RefsIn
  <2>2. \A n \in 1 .. N : T[n] \subseteq IndirectRefs
    BY DEF RefsIn
  <2> HIDE DEF T
  <2> QED
    BY <2>1, <2>2
<1>12. Lists(FlattenSeq(ss), UNION {T[n] : n \in 1 .. N}, f)
  <2> HIDE DEF T, N
  <2> QED
    BY <1>3, <1>6, <1>9, <1>10, ListsFlatten
<1> QED
  BY <1>7, <1>8, <1>11, <1>12

-----------------------------------------------------------------------------
(* The sums in the summary.                                                *)

LEMMA Products ==
    ASSUME NEW a \in Nat, NEW b \in Nat, NEW c \in Nat, a <= b
    PROVE  a * c <= b * c /\ a * c \in Nat /\ b * c \in Nat
<1>1. (b - a) * c \in Nat /\ b * c = a * c + (b - a) * c
  OBVIOUS
<1>2. a * c \in Nat /\ b * c \in Nat
  OBVIOUS
<1> QED
  BY <1>1, <1>2

LEMMA Shares ==
    ASSUME NEW total \in Nat, NEW per \in Nat \ {0}, NEW G \in Nat \ {0},
           (G - 1) * per < total, total <= G * per
    PROVE  /\ \A i \in 1 .. G - 1 : GroupShare(total, per, i) = per
           /\ GroupShare(total, per, G) = total - (G - 1) * per
           /\ per * (G - 1) + (total - (G - 1) * per) = total
<1>1. ASSUME NEW i \in 1 .. G - 1 PROVE GroupShare(total, per, i) = per
  <2>1. i * per <= (G - 1) * per
    BY Products
  <2>2. i * per = (i - 1) * per + per
    OBVIOUS
  <2>3. total - (i - 1) * per >= per
    <3> DEFINE x == i * per
               y == (G - 1) * per
               z == (i - 1) * per
    <3>1. x \in Int /\ y \in Int /\ z \in Int
      OBVIOUS
    <3>2. x <= y /\ x = z + per /\ y < total
      BY <2>1, <2>2
    <3> HIDE DEF x, y, z
    <3>3. total - z >= per
      BY <3>1, <3>2
    <3> QED
      BY <3>3 DEF z
  <2> QED
    BY <2>3 DEF GroupShare
<1>2. GroupShare(total, per, G) = total - (G - 1) * per
  <2> DEFINE y == (G - 1) * per
  <2>1. G * per = y + per /\ y \in Int
    OBVIOUS
  <2>2. GroupShare(total, per, G) = IF total - y >= per THEN per ELSE total - y
    BY DEF GroupShare
  <2> HIDE DEF y
  <2>3. GroupShare(total, per, G) = total - y
    BY <2>1, <2>2
  <2> QED
    BY <2>3 DEF y
<1>3. per * (G - 1) + (total - (G - 1) * per) = total
  OBVIOUS
<1> QED
  BY <1>1, <1>2, <1>3

LEMMA SharesTotal ==
    ASSUME NEW total \in Nat, NEW per \in Nat \ {0}, NEW G \in Nat \ {0},
           (G - 1) * per < total, total <= G * per, NEW w,
           \A i \in 1 .. G : w[i] = GroupShare(total, per, i)
    PROVE  Total(w, 1 .. G) = total
<1>1. /\ \A i \in 1 .. G - 1 : GroupShare(total, per, i) = per
      /\ GroupShare(total, per, G) = total - (G - 1) * per
      /\ per * (G - 1) + (total - (G - 1) * per) = total
  BY Shares
<1>2. (G - 1) * per \in Int /\ G \in 1 .. G
  OBVIOUS
<1>3. IsFiniteSet(1 .. G) /\ Cardinality(1 .. G) = G
  BY OneTo
<1>4. w[G] = total - (G - 1) * per /\ w[G] \in Int
  BY <1>1, <1>2
<1>5. \A i \in 1 .. G \ {G} : w[i] = per
  BY <1>1
<1>6. Flat(w, G, per, 1 .. G)
  BY <1>2, <1>3, <1>4, <1>5 DEF Flat
<1>7. Cardinality(1 .. G \ {G}) = G - 1
  BY <1>2, <1>3, FS_RemoveElement
<1>8. Total(w, 1 .. G) = per * Cardinality(1 .. G \ {G}) + w[G]
  BY <1>6, TotalIs
<1> QED
  BY <1>1, <1>4, <1>7, <1>8

(* The offset of a reference on which only first pointers are followed.    *)
LEMMA StraightOffset ==
    ASSUME NEW r \in IndirectRefs, Straight(r)
    PROVE  LineOf(r).offset = OffsetRead(r[2])
<1> DEFINE path == r[2]
           top == Level(path[1])
           n == Len(path)
           weight(m) == path[m] * Behind(top - m + 1)
           T == 2 .. n
           w == [m \in T |-> path[m] * Behind(top - m + 1)]
<1>1. /\ path \in Paths /\ path[1] \in Slot /\ n \in 1 .. top + 1 /\ n # 1 /\ top \in 0 .. 3
      /\ \A m \in 2 .. n : path[m] \in 0 .. PerBlock - 1
  <2>1. path \in Paths /\ n # 1
    BY DEF IndirectRefs, Refs, Direct
  <2> QED
    BY <2>1, PathFacts, LevelType
<1>2. \A m \in T : path[m] \in Nat /\ (m <= top => path[m] = 0)
  BY <1>1, ImageAssumption DEF Straight
<1>3. n \in 2 .. top + 1 /\ top \in 1 .. 3
  <2> HIDE DEF n, top
  <2> QED
    BY <1>1
<1>4. MapThenSumSet(weight, T) = Total(w, T)
  BY DEF MapThenSumSet, MapThenFoldSet, Total, Sums, First
<1>5. LineOf(r).offset = FirstLogical(top) + MapThenSumSet(weight, T)
  BY DEF LineOf
<1>6. Behind(0) = 1 /\ Behind(1) \in Nat /\ Behind(2) \in Nat
  BY ImageAssumption DEF Behind
<1> HIDE DEF path, weight
<1>7. ASSUME NEW m \in T PROVE w[m] = IF m <= top THEN 0 ELSE path[m]
  <2>1. w[m] = path[m] * Behind(top - m + 1)
    OBVIOUS
  <2> HIDE DEF w, n, top
  <2>2. CASE m <= top
    <3>1. top - m + 1 \in {1, 2} /\ path[m] = 0
      BY <1>2, <1>3, <2>2
    <3>2. Behind(top - m + 1) \in Nat
      BY <1>6, <3>1
    <3> DEFINE y == Behind(top - m + 1)
    <3>3. w[m] = 0 * y /\ y \in Nat
      BY <2>1, <3>1, <3>2
    <3> HIDE DEF y
    <3> QED
      BY <2>2, <3>3
  <2>3. CASE ~(m <= top)
    <3>1. m = top + 1 /\ top - m + 1 = 0
      BY <1>3, <2>3
    <3>2. w[m] = path[m] * 1 /\ path[m] \in Nat
      BY <1>2, <1>6, <2>1, <3>1
    <3> QED
      BY <2>3, <3>2
  <2> QED
    BY <2>2, <2>3
<1>8. Total(w, T) = path[n]
  <2> HIDE DEF top, n, w
  <2>1. n \in T /\ IsFiniteSet(T) /\ n \in Nat
    <3>1. n \in 2 .. n /\ n \in Nat
      BY <1>3
    <3> QED
      BY <3>1, FS_Interval
  <2>2. ASSUME NEW x \in T \ {n} PROVE w[x] = 0
    BY <1>3, <1>7
  <2>3. w[n] = path[n] /\ path[n] \in Int
    BY <1>2, <1>7, <2>1
  <2> HIDE DEF T
  <2>4. Flat(w, n, 0, T)
    BY <2>1, <2>2, <2>3 DEF Flat
  <2>5. Total(w, T) = 0 * Cardinality(T \ {n}) + w[n]
    BY <2>4, TotalIs
  <2>6. Cardinality(T \ {n}) \in Nat
    BY <2>1, FS_RemoveElement, FS_CardinalityType
  <2> QED
    BY <2>3, <2>5, <2>6
<1>9. FirstLogical(top) \in Nat
  BY <1>3, FirstLogicalType
<1>10. OffsetRead(path) = FirstLogical(top) + path[n]
  <2>1. OffsetRead(path) = FirstLogical(top) + (IF n >= 2 THEN path[2] ELSE 0)
                             + (IF n >= 3 THEN path[3] ELSE 0) + (IF n >= 4 THEN path[4] ELSE 0)
    BY DEF OffsetRead
  <2>2. \A m \in T : path[m] \in Nat /\ (m # n => path[m] = 0)
    <3> HIDE DEF n, top
    <3> QED
      BY <1>2, <1>3
  <2> HIDE DEF n, top
  <2>3. CASE n = 2
    BY <1>9, <2>1, <2>2, <2>3
  <2>4. CASE n = 3
    BY <1>9, <2>1, <2>2, <2>4
  <2>5. CASE n = 4
    BY <1>9, <2>1, <2>2, <2>5
  <2> QED
    BY <1>3, <2>3, <2>4, <2>5
<1> QED
  BY <1>4, <1>5, <1>8, <1>10 DEF path

-----------------------------------------------------------------------------
(* The summary as it is printed of what has been read.                     *)

FreeRead ==
    /\ img.bfree = FreeList(disk.per_group, "block_bitmap", "free_blocks")
    /\ img.ifree = FreeList(disk.inodes_per_group, "inode_bitmap", "free_inodes")

Printed ==
    csv = [printed |-> TRUE,
           blocks |-> disk.blocks, inodes |-> disk.inodes, first_ino |-> disk.first_ino,
           group |-> [i \in DOMAIN img.group |-> GroupLine(i)],
           bfree |-> img.bfree,
           ifree |-> img.ifree,
           inode |-> LET ls == ByNumber(img.inode) IN [n \in DOMAIN ls |-> InodeLine(ls[n])],
           dirent |-> FlattenSeq([i \in 1 .. disk.inodes |-> DirentLines(i)]),
           indirect |-> ByNumber(img.indirect)]

LEMMA PrintedFields ==
    ASSUME Printed
    PROVE  /\ csv.blocks = disk.blocks /\ csv.inodes = disk.inodes /\ csv.first_ino = disk.first_ino
           /\ csv.group = [i \in DOMAIN img.group |-> GroupLine(i)]
           /\ csv.bfree = img.bfree /\ csv.ifree = img.ifree
           /\ csv.inode = LET ls == ByNumber(img.inode) IN [n \in DOMAIN ls |-> InodeLine(ls[n])]
           /\ csv.dirent = FlattenSeq([i \in 1 .. disk.inodes |-> DirentLines(i)])
           /\ csv.indirect = ByNumber(img.indirect)
BY DEF Printed

LEMMA GroupsPrinted ==
    ASSUME Image, GroupsRead, Printed
    PROVE  GroupsOK
<1>1. /\ disk.blocks \in Nat \ {0} /\ disk.inodes \in Nat \ {0}
      /\ disk.per_group \in Nat \ {0} /\ disk.inodes_per_group \in Nat \ {0}
      /\ NumGroups \in Nat \ {0}
      /\ (NumGroups - 1) * disk.per_group < disk.blocks
      /\ disk.blocks <= NumGroups * disk.per_group
  BY ImageNumbers
<1> DEFINE G == NumGroups
           blocks(i) == csv.group[i].blocks
           inodes(i) == csv.group[i].inodes
           b == [i \in 1 .. G |-> csv.group[i].blocks]
           n == [i \in 1 .. G |-> csv.group[i].inodes]
<1>2. DOMAIN csv.group = 1 .. G /\ \A i \in 1 .. G : csv.group[i] = GroupLine(i)
  BY PrintedFields, GroupRead
<1>3. \A i \in 1 .. G : /\ b[i] = GroupShare(disk.blocks, disk.per_group, i)
                        /\ n[i] = GroupShare(disk.inodes, disk.inodes_per_group, i)
  <2> SUFFICES ASSUME NEW i \in 1 .. G
               PROVE  /\ b[i] = GroupShare(disk.blocks, disk.per_group, i)
                      /\ n[i] = GroupShare(disk.inodes, disk.inodes_per_group, i)
    OBVIOUS
  <2>1. /\ GroupLine(i).blocks = GroupShare(disk.blocks, disk.per_group, i)
        /\ GroupLine(i).inodes = GroupShare(disk.inodes, disk.inodes_per_group, i)
    BY DEF GroupLine
  <2>2. b[i] = csv.group[i].blocks /\ n[i] = csv.group[i].inodes
    OBVIOUS
  <2> HIDE DEF b, n, G
  <2> QED
    BY <1>2, <2>1, <2>2
<1>4. /\ MapThenSumSet(blocks, 1 .. G) = Total(b, 1 .. G)
      /\ MapThenSumSet(inodes, 1 .. G) = Total(n, 1 .. G)
  <2>1. MapThenSumSet(blocks, 1 .. G) = Total(b, 1 .. G)
    BY DEF MapThenSumSet, MapThenFoldSet, Total, Sums, First
  <2>2. MapThenSumSet(inodes, 1 .. G) = Total(n, 1 .. G)
    BY DEF MapThenSumSet, MapThenFoldSet, Total, Sums, First
  <2> QED
    BY <2>1, <2>2
<1> HIDE DEF b, n, G
<1>5. Total(b, 1 .. G) = disk.blocks
  <2> DEFINE x == disk.blocks
             y == disk.per_group
  <2>1. /\ x \in Nat /\ y \in Nat \ {0} /\ G \in Nat \ {0}
        /\ (G - 1) * y < x /\ x <= G * y
    BY <1>1 DEF G
  <2>2. \A i \in 1 .. G : b[i] = GroupShare(x, y, i)
    BY <1>3
  <2> HIDE DEF x, y
  <2>3. Total(b, 1 .. G) = x
    BY <2>1, <2>2, SharesTotal
  <2> QED
    BY <2>3 DEF x
<1>6. ASSUME SameGroups PROVE Total(n, 1 .. G) = disk.inodes
  <2> DEFINE x == disk.inodes - 1
             y == disk.inodes_per_group
             q == x \div y
  <2>1. x \in Nat /\ y \in Nat \ {0} /\ disk.inodes = x + 1
    BY <1>1
  <2>2. G = 1 + q
    BY <1>6 DEF SameGroups, G
  <2> HIDE DEF x, y
  <2>3. q \in Nat /\ q * y <= x /\ x < (q + 1) * y
    BY <2>1, Quotient
  <2> HIDE DEF q
  <2>4. (G - 1) * y < disk.inodes /\ disk.inodes <= G * y
    <3>1. G - 1 = q /\ G = q + 1
      BY <2>2, <2>3
    <3>2. q * y \in Int /\ (q + 1) * y \in Int
      BY <2>1, <2>3
    <3> QED
      BY <2>1, <2>3, <3>1, <3>2
  <2>5. G \in Nat \ {0} /\ disk.inodes \in Nat /\ \A i \in 1 .. G : n[i] = GroupShare(disk.inodes, y, i)
    BY <1>1, <1>3 DEF G, y
  <2> QED
    BY <2>1, <2>4, <2>5, SharesTotal
<1>7. MapThenSumSet(blocks, DOMAIN csv.group) = disk.blocks
  BY <1>2, <1>4, <1>5
<1>8. SameGroups => MapThenSumSet(inodes, DOMAIN csv.group) = disk.inodes
  BY <1>2, <1>4, <1>6
<1> QED
  BY <1>7, <1>8 DEF GroupsOK

LEMMA FreePrinted ==
    ASSUME Image, WithinReach, GroupsRead, FreeRead, Printed
    PROVE  /\ ToSet(csv.bfree) = FreeBlocks /\ Len(csv.bfree) = Cardinality(FreeBlocks)
           /\ ToSet(csv.ifree) = FreeInodes /\ Len(csv.ifree) = Cardinality(FreeInodes)
<1> DEFINE b == [n \in FreeBlocks |-> n]
           i == [n \in FreeInodes |-> n]
<1>1. (\A n \in FreeBlocks : b[n] = n) /\ (\A n \in FreeInodes : i[n] = n)
  OBVIOUS
<1>2. {b[x] : x \in FreeBlocks} = FreeBlocks /\ {i[x] : x \in FreeInodes} = FreeInodes
  OBVIOUS
<1> HIDE DEF b, i
<1>3. Lists(csv.bfree, FreeBlocks, b) /\ Lists(csv.ifree, FreeInodes, i)
  BY <1>1, FreeListRead, PrintedFields DEF FreeRead
<1>4. ToSet(csv.bfree) = {b[x] : x \in FreeBlocks} /\ Len(csv.bfree) = Cardinality(FreeBlocks)
  BY <1>3, ListsFacts
<1>5. ToSet(csv.ifree) = {i[x] : x \in FreeInodes} /\ Len(csv.ifree) = Cardinality(FreeInodes)
  BY <1>3, ListsFacts
<1> QED
  BY <1>2, <1>4, <1>5

LEMMA InodesPrinted ==
    ASSUME Image, WithinReach, GroupsRead, InodesRead, Printed, NEW e,
           \A i \in InUse : e[i] = InodeLineOf(i)
    PROVE  Lists(csv.inode, InUse, e)
<1> DEFINE f == [i \in InUse |-> InodeOf(i)]
           ls == ByNumber(img.inode)
<1>1. \A i \in InUse : f[i] = InodeOf(i) /\ f[i].of \in 1 .. disk.inodes
  BY InodeTable DEF InodeOf
<1> HIDE DEF f
<1>2. Lists(img.inode, InUse, f)
  BY <1>1, InodesList
<1>3. Lists(ls, InUse, f)
  BY <1>1, <1>2, ByNumberList
<1> HIDE DEF ls
<1>4. DOMAIN ls = 1 .. Len(ls)
  BY <1>3, ListsFacts
<1>5. csv.inode = [n \in 1 .. Len(ls) |-> InodeLine(ls[n])]
  BY <1>4, PrintedFields DEF ls
<1>6. \A n \in 1 .. Len(ls), x \in InUse : ls[n] = f[x] => csv.inode[n] = e[x]
  <2> SUFFICES ASSUME NEW n \in 1 .. Len(ls), NEW x \in InUse, ls[n] = f[x]
               PROVE  csv.inode[n] = e[x]
    OBVIOUS
  <2>1. csv.inode[n] = InodeLine(ls[n])
    BY <1>5
  <2>2. ls[n] = InodeOf(x)
    BY <1>1
  <2>3. e[x] = InodeLine(InodeOf(x))
    BY DEF InodeOf, InodeLineOf
  <2> QED
    BY <2>1, <2>2, <2>3
<1>7. csv.inode = [n \in 1 .. Len(ls) |-> csv.inode[n]]
  BY <1>5
<1> QED
  BY <1>3, <1>6, <1>7, ListsImage

LEMMA DirentsSummed ==
    ASSUME Image, WithinReach, GroupsRead, InodesRead, DirentsRead, Printed
    PROVE  \E h : Lists(csv.dirent, Places, h) /\ \A p \in Places : PrintsEntry(h[p], p)
<1> DEFINE f == [p \in Places |-> EntryRead(p)]
<1>1. ReadsEntries(f)
  BY DEF ReadsEntries
<1> HIDE DEF f
<1>2. Lists(img.dirent, Places, f)
  BY <1>1, DirentsList
<1>3. \A p \in Places : p[1] \in 1 .. disk.inodes
  BY PlacesAre, InodeTable DEF Dirs
<1> QED
  BY <1>1, <1>2, <1>3, DirentsPrinted, PrintedFields

LEMMA DirentsPrintedOnce ==
    ASSUME Image, WithinReach, GroupsRead, InodesRead, DirentsRead, Printed
    PROVE  /\ {DirentOf(n) : n \in DOMAIN csv.dirent} = {EntryOf(p) : p \in Entries}
           /\ \A e \in {EntryOf(p) : p \in Entries} :
                  Cardinality({n \in DOMAIN csv.dirent : DirentOf(n) = e})
                      = Cardinality({p \in Entries : EntryOf(p) = e})
<1>1. PICK h : Lists(csv.dirent, Places, h) /\ \A p \in Places : PrintsEntry(h[p], p)
  BY DirentsSummed
<1>2. Entries = Places
  BY DEF WithinReach
<1> DEFINE N == Len(csv.dirent)
<1>3. /\ DOMAIN csv.dirent = 1 .. N
      /\ \A n \in 1 .. N : \E p \in Places : csv.dirent[n] = h[p]
      /\ \A p \in Places : \E n \in 1 .. N : csv.dirent[n] = h[p]
  BY <1>1, ListsFacts
<1>4. ASSUME NEW n \in 1 .. N, NEW p \in Places, csv.dirent[n] = h[p]
      PROVE  DirentOf(n) = EntryOf(p)
  <2>1. /\ h[p] = [of |-> p[1], offset |-> h[p].offset, inode |-> Entry(p).inode, name |-> Entry(p).name]
    BY <1>1 DEF PrintsEntry
  <2>2. h[p].of = p[1] /\ h[p].inode = Entry(p).inode /\ h[p].name = Entry(p).name
    BY <2>1
  <2> QED
    BY <1>4, <2>2 DEF DirentOf, EntryOf
<1> HIDE DEF N
<1>5. {DirentOf(n) : n \in 1 .. N} = {EntryOf(p) : p \in Places}
  <2>1. \A n \in 1 .. N : \E p \in Places : DirentOf(n) = EntryOf(p)
    BY <1>3, <1>4
  <2>2. \A p \in Places : \E n \in 1 .. N : DirentOf(n) = EntryOf(p)
    BY <1>3, <1>4
  <2> QED
    BY <2>1, <2>2
<1>6. ASSUME NEW e
      PROVE  Cardinality({n \in 1 .. N : DirentOf(n) = e})
                 = Cardinality({p \in Places : EntryOf(p) = e})
  <2> DEFINE A == {n \in 1 .. N : DirentOf(n) = e}
             W == {p \in Places : EntryOf(p) = e}
  <2>1. \A n \in 1 .. N, p \in Places : csv.dirent[n] = h[p] => (n \in A <=> p \in W)
    BY <1>4
  <2>2. A \in SUBSET (1 .. N) /\ W \in SUBSET Places
    OBVIOUS
  <2> HIDE DEF A, W
  <2>3. Cardinality(A) = Cardinality(W)
    BY <1>1, <2>1, <2>2, SubList DEF N
  <2> QED
    BY <2>3 DEF A, W
<1> QED
  BY <1>2, <1>3, <1>5, <1>6

LEMMA IndirectLine ==
    ASSUME Image, WithinReach, NEW r \in IndirectRefs
    PROVE  /\ r = <<r[1], r[2]>> /\ r[1] \in InUse /\ r[2] \in IndirectPaths
           /\ PathLine(r[1], r[2]) \in [of : {r[1]}, level : 1 .. 3, offset : Nat, block : Nat, ref : Nat]
           /\ WithoutOffset(PathLine(r[1], r[2])) = WithoutOffset(LineOf(r))
           /\ Straight(r) => PathLine(r[1], r[2]) = LineOf(r)
<1> DEFINE i == r[1]
           q == r[2]
           l == PathLine(i, q)
           top == Level(q[1])
           n == Len(q)
           front == SubSeq(q, 1, n - 1)
<1>1. /\ r = <<i, q>> /\ i \in InUse /\ q \in Paths /\ n # 1 /\ BlockAt(i, q) # 0
  BY DEF IndirectRefs, Refs, Direct
<1>2. q[1] \in Slot /\ n \in 1 .. top + 1 /\ top \in 0 .. 3 /\ (top = 0 <=> q[1] < NumDirect)
      /\ q[1] \in Nat
  BY <1>1, PathFacts, LevelType
<1>3. top \in 1 .. 3 /\ n \in 2 .. top + 1
  <2> HIDE DEF n, top
  <2> QED
    BY <1>1, <1>2
<1>4. q \in IndirectPaths
  BY <1>1, <1>2, <1>3, ImageAssumption DEF IndirectPaths
<1>5. front \in IndirectPaths
  BY <1>1, <1>4, PathFront DEF IndirectPaths
<1>6. BlockAt(i, q) \in Nat /\ BlockAt(i, front) \in Nat
  BY <1>1, <1>4, <1>5, BlocksNat
<1>7. OffsetRead(q) \in Nat
  BY <1>4, OffsetReadFacts
<1>8. l = [of |-> i, level |-> top - n + 2, offset |-> OffsetRead(q),
           block |-> BlockAt(i, front), ref |-> BlockAt(i, q)]
  BY DEF PathLine
<1>9. top - n + 2 \in 1 .. 3
  <2> HIDE DEF n, top
  <2> QED
    BY <1>3
<1>10. LineOf(r) = [of |-> i, level |-> top - n + 2, offset |-> LineOf(r).offset,
                    block |-> BlockAt(i, front), ref |-> BlockAt(i, q)]
  BY DEF LineOf
<1> HIDE DEF i, q, l, top, n, front
<1>11. l \in [of : {i}, level : 1 .. 3, offset : Nat, block : Nat, ref : Nat]
  BY <1>6, <1>7, <1>8, <1>9
<1>12. WithoutOffset(l) = WithoutOffset(LineOf(r))
  <2>1. l.of = i /\ l.level = top - n + 2 /\ l.block = BlockAt(i, front) /\ l.ref = BlockAt(i, q)
    BY <1>8
  <2>2. /\ LineOf(r).of = i /\ LineOf(r).level = top - n + 2
        /\ LineOf(r).block = BlockAt(i, front) /\ LineOf(r).ref = BlockAt(i, q)
    BY <1>10
  <2> QED
    BY <2>1, <2>2 DEF WithoutOffset
<1>13. ASSUME Straight(r) PROVE l = LineOf(r)
  <2>1. LineOf(r).offset = OffsetRead(q)
    BY <1>13, StraightOffset DEF q
  <2> QED
    BY <1>8, <1>10, <2>1
<1> QED
  BY <1>1, <1>4, <1>11, <1>12, <1>13 DEF i, q, l

LEMMA IndirectSummed ==
    ASSUME Image, WithinReach, GroupsRead, InodesRead, IndirectsRead, Printed, NEW f,
           \A r \in IndirectRefs : f[r] = PathLine(r[1], r[2])
    PROVE  Lists(csv.indirect, IndirectRefs, f)
<1> DEFINE e == [r \in InUse \X IndirectPaths |-> PathLine(r[1], r[2])]
<1>1. ReadsRefs(e)
  BY DEF ReadsRefs
<1>2. \A r \in IndirectRefs : e[r] = f[r]
  <2> SUFFICES ASSUME NEW r \in IndirectRefs PROVE e[r] = f[r]
    OBVIOUS
  <2>1. r = <<r[1], r[2]>> /\ r[1] \in InUse /\ r[2] \in IndirectPaths
    BY IndirectLine
  <2>2. r \in InUse \X IndirectPaths
    BY <2>1
  <2> QED
    BY <2>2
<1> HIDE DEF e
<1>3. Lists(img.indirect, IndirectRefs, e)
  BY <1>1, IndirectsList
<1>4. Lists(img.indirect, IndirectRefs, f)
  BY <1>2, <1>3, ListsSame
<1>5. \A r \in IndirectRefs : f[r].of \in 1 .. disk.inodes
  <2> SUFFICES ASSUME NEW r \in IndirectRefs PROVE f[r].of \in 1 .. disk.inodes
    OBVIOUS
  <2>1. PathLine(r[1], r[2]).of = r[1]
    BY DEF PathLine
  <2>2. r[1] \in InUse
    BY IndirectLine
  <2> QED
    BY <2>1, <2>2, InodeTable
<1>6. Lists(ByNumber(img.indirect), IndirectRefs, f)
  BY <1>4, <1>5, ByNumberList
<1> QED
  BY <1>6, PrintedFields

LEMMA IndirectPrinted ==
    ASSUME Image, WithinReach, GroupsRead, InodesRead, IndirectsRead, Printed
    PROVE  /\ csv.indirect \in Seq([of : Nat, level : 1 .. 3, offset : Nat, block : Nat, ref : Nat])
           /\ {WithoutOffset(l) : l \in ToSet(csv.indirect)}
                  = {WithoutOffset(LineOf(r)) : r \in IndirectRefs}
           /\ \A l \in {WithoutOffset(LineOf(r)) : r \in IndirectRefs} :
                  Cardinality({n \in DOMAIN csv.indirect : WithoutOffset(csv.indirect[n]) = l})
                      = Cardinality({r \in IndirectRefs : WithoutOffset(LineOf(r)) = l})
           /\ {LineOf(r) : r \in {r \in IndirectRefs : Straight(r)}} \subseteq ToSet(csv.indirect)
<1> DEFINE f == [r \in IndirectRefs |-> PathLine(r[1], r[2])]
           s == csv.indirect
           N == Len(s)
           V == [of : Nat, level : 1 .. 3, offset : Nat, block : Nat, ref : Nat]
<1>1. \A r \in IndirectRefs : f[r] = PathLine(r[1], r[2])
  OBVIOUS
<1> HIDE DEF f
<1>2. Lists(s, IndirectRefs, f)
  BY <1>1, IndirectSummed
<1>3. \A r \in IndirectRefs : f[r] \in V /\ WithoutOffset(f[r]) = WithoutOffset(LineOf(r))
                              /\ (Straight(r) => f[r] = LineOf(r))
  <2> SUFFICES ASSUME NEW r \in IndirectRefs
               PROVE  f[r] \in V /\ WithoutOffset(f[r]) = WithoutOffset(LineOf(r))
                      /\ (Straight(r) => f[r] = LineOf(r))
    OBVIOUS
  <2>1. /\ r[1] \in InUse
        /\ f[r] \in [of : {r[1]}, level : 1 .. 3, offset : Nat, block : Nat, ref : Nat]
        /\ WithoutOffset(f[r]) = WithoutOffset(LineOf(r))
        /\ Straight(r) => f[r] = LineOf(r)
    BY <1>1, IndirectLine
  <2>2. r[1] \in Nat
    BY <2>1, InodeTable
  <2>3. f[r] \in V
    BY <2>1, <2>2
  <2> QED
    BY <2>1, <2>3
<1> HIDE DEF s, N, V
<1>4. /\ DOMAIN s = 1 .. Len(s) /\ ToSet(s) = {f[r] : r \in IndirectRefs}
      /\ s \in Seq({f[r] : r \in IndirectRefs})
  <2>1. DOMAIN s = 1 .. Len(s) /\ ToSet(s) = {f[r] : r \in IndirectRefs}
    BY <1>2, ListsFacts
  <2>2. s \in Seq({f[r] : r \in IndirectRefs})
    BY <1>2 DEF Lists
  <2> QED
    BY <2>1, <2>2
<1>5. s \in Seq(V)
  <2>1. {f[r] : r \in IndirectRefs} \subseteq V
    BY <1>3
  <2> QED
    BY <1>4, <2>1
<1>6. {WithoutOffset(l) : l \in ToSet(s)} = {WithoutOffset(LineOf(r)) : r \in IndirectRefs}
  BY <1>3, <1>4
<1>7. {LineOf(r) : r \in {r \in IndirectRefs : Straight(r)}} \subseteq ToSet(s)
  BY <1>3, <1>4
<1>8. ASSUME NEW l
      PROVE  Cardinality({n \in DOMAIN s : WithoutOffset(s[n]) = l})
                 = Cardinality({r \in IndirectRefs : WithoutOffset(LineOf(r)) = l})
  <2> DEFINE A == {n \in DOMAIN s : WithoutOffset(s[n]) = l}
             W == {r \in IndirectRefs : WithoutOffset(LineOf(r)) = l}
  <2>1. \A n \in 1 .. Len(s), r \in IndirectRefs : s[n] = f[r] => (n \in A <=> r \in W)
    BY <1>3, <1>4
  <2>2. A \in SUBSET (1 .. Len(s)) /\ W \in SUBSET IndirectRefs
    BY <1>4
  <2> HIDE DEF A, W
  <2>3. Cardinality(A) = Cardinality(W)
    BY <1>2, <2>1, <2>2, SubList
  <2> QED
    BY <2>3 DEF A, W
<1> QED
  BY <1>5, <1>6, <1>7, <1>8 DEF s, V

LEMMA SummaryPrinted ==
    ASSUME Image, WithinReach, GroupsRead, FreeRead, InodesRead, DirentsRead, IndirectsRead, Printed
    PROVE  SummaryOK
<1> DEFINE e == [i \in InUse |-> InodeLineOf(i)]
<1>1. \A i \in InUse : e[i] = InodeLineOf(i) /\ e[i].of = i
  <2> SUFFICES ASSUME NEW i \in InUse PROVE e[i] = InodeLineOf(i) /\ e[i].of = i
    OBVIOUS
  <2>1. InodeLineOf(i) = InodeLine(InodeOf(i))
    BY DEF InodeLineOf, InodeOf
  <2>2. InodeOf(i).of = i /\ InodeOf(i) = [of |-> i, type |-> Inode(i).type,
                                           links |-> Inode(i).links, ptr |-> Inode(i).ptr]
    BY DEF InodeOf
  <2>3. InodeLine(InodeOf(i)).of = i
    BY <2>2 DEF InodeLine
  <2> QED
    BY <2>1, <2>3
<1> HIDE DEF e
<1>2. Lists(csv.inode, InUse, e)
  BY <1>1, InodesPrinted
<1>3. /\ csv.inode \in Seq({InodeLineOf(i) : i \in InUse})
      /\ {csv.inode[n].of : n \in DOMAIN csv.inode} = InUse
      /\ Len(csv.inode) = Cardinality(InUse)
  <2> DEFINE s == csv.inode
  <2>1. /\ DOMAIN s = 1 .. Len(s) /\ Len(s) = Cardinality(InUse)
        /\ \A n \in 1 .. Len(s) : \E i \in InUse : s[n] = e[i]
        /\ \A i \in InUse : \E n \in 1 .. Len(s) : s[n] = e[i]
    BY <1>2, ListsFacts
  <2>2. s \in Seq({e[i] : i \in InUse})
    BY <1>2 DEF Lists
  <2> HIDE DEF s
  <2>lines. {e[i] : i \in InUse} = {InodeLineOf(i) : i \in InUse}
    BY <1>1
  <2>4. {s[n].of : n \in DOMAIN s} = InUse
    <3>1. \A n \in 1 .. Len(s) : s[n].of \in InUse
      BY <1>1, <2>1
    <3>2. \A i \in InUse : \E n \in 1 .. Len(s) : s[n].of = i
      BY <1>1, <2>1
    <3> QED
      BY <2>1, <3>1, <3>2
  <2> QED
    BY <2>1, <2>2, <2>lines, <2>4 DEF s
<1>4. csv.group[1].inode_table = disk.group[1].inode_table
  <2>1. 1 \in DOMAIN img.group /\ img.group[1] = disk.group[1]
    BY OneGroup
  <2>2. csv.group[1] = GroupLine(1)
    BY <2>1, PrintedFields
  <2>3. GroupLine(1).inode_table = img.group[1].inode_table
    BY DEF GroupLine
  <2> QED
    BY <2>1, <2>2, <2>3
<1> QED
  BY <1>3, <1>4, FreePrinted, DirentsPrintedOnce, IndirectPrinted, PrintedFields DEF SummaryOK

-----------------------------------------------------------------------------
(* What has been read is what is on the disk, and what has been printed is *)
(* what has been read.                                                     *)

Later(s) ==
    CASE s = "bfree" -> {"bfree", "ifree", "inode", "dirent", "indirect", "print"}
      [] s = "ifree" -> {"ifree", "inode", "dirent", "indirect", "print"}
      [] s = "inode" -> {"inode", "dirent", "indirect", "print"}
      [] s = "dirent" -> {"dirent", "indirect", "print"}
      [] s = "indirect" -> {"indirect", "print"}

BfreeRead == img.bfree = FreeList(disk.per_group, "block_bitmap", "free_blocks")
IfreeRead == img.ifree = FreeList(disk.inodes_per_group, "inode_bitmap", "free_inodes")

ReaderImg ==
    img = [group |-> img.group, bfree |-> img.bfree, ifree |-> img.ifree,
           inode |-> img.inode, dirent |-> img.dirent, indirect |-> img.indirect]

ReaderInv ==
    /\ Image
    /\ step \in {"verify", "group", "bfree", "ifree", "inode", "dirent", "indirect", "print", "done"}
    /\ ReaderImg
    /\ step \in Later("bfree") => GroupsRead
    /\ step \in Later("ifree") => BfreeRead
    /\ step \in Later("inode") => IfreeRead
    /\ step \in Later("dirent") => InodesRead
    /\ step \in Later("indirect") => DirentsRead
    /\ step = "print" => IndirectsRead
    /\ csv.printed =>
           /\ step = "done"
           /\ GroupsRead /\ BfreeRead /\ IfreeRead /\ InodesRead /\ DirentsRead /\ IndirectsRead
           /\ Printed

(* What is unchanged, is read as before.                                   *)
LEMMA StillRead ==
    ASSUME disk' = disk
    PROVE  /\ img'.group = img.group /\ GroupsRead => GroupsRead'
           /\ img'.group = img.group /\ img'.bfree = img.bfree /\ BfreeRead => BfreeRead'
           /\ img'.group = img.group /\ img'.ifree = img.ifree /\ IfreeRead => IfreeRead'
           /\ img'.group = img.group /\ img'.inode = img.inode /\ InodesRead => InodesRead'
           /\ img'.inode = img.inode /\ img'.dirent = img.dirent /\ DirentsRead => DirentsRead'
<1>1. img'.group = img.group /\ GroupsRead => GroupsRead'
  BY DEF GroupsRead, NumGroups
<1>2. img'.group = img.group /\ img'.bfree = img.bfree /\ BfreeRead => BfreeRead'
  BY DEF BfreeRead, FreeList
<1>3. img'.group = img.group /\ img'.ifree = img.ifree /\ IfreeRead => IfreeRead'
  BY DEF IfreeRead, FreeList
<1>4. img'.group = img.group /\ img'.inode = img.inode /\ InodesRead => InodesRead'
  BY DEF InodesRead, InodesOfGroup
<1>5. img'.inode = img.inode /\ img'.dirent = img.dirent /\ DirentsRead => DirentsRead'
  <2>1. ASSUME img'.inode = img.inode PROVE Directories' = Directories
    BY <2>1 DEF Directories
  <2>2. \A dir : DirentsOf(dir)' = DirentsOf(dir)
    BY DEF DirentsOf, EntriesAt
  <2> QED
    BY <2>1, <2>2 DEF DirentsRead
<1> QED
  BY <1>1, <1>2, <1>3, <1>4, <1>5

LEMMA IndirectsStillRead ==
    ASSUME disk' = disk, img'.inode = img.inode
    PROVE  /\ \A i : IndirectsOf(i)' = IndirectsOf(i)
           /\ img'.indirect = img.indirect /\ IndirectsRead => IndirectsRead'
<1>1. IndirectRecursive' = IndirectRecursive
  BY DEF IndirectRecursive, PointersAt
<1>2. \A i : IndirectsOf(i)' = IndirectsOf(i)
  BY <1>1 DEF IndirectsOf
<1> QED
  BY <1>2 DEF IndirectsRead

LEMMA StillPrinted ==
    ASSUME UNCHANGED <<disk, img, csv>>, Printed
    PROVE  Printed'
<1>1. \A i : DirentLines(i)' = DirentLines(i)
  BY DEF DirentLines
<1>2. \A lines : ByNumber(lines)' = ByNumber(lines)
  BY DEF ByNumber
<1>3. \A i : GroupLine(i)' = GroupLine(i)
  BY DEF GroupLine
<1> QED
  BY <1>1, <1>2, <1>3 DEF Printed

ImgFields == {"group", "bfree", "ifree", "inode", "dirent", "indirect"}

LEMMA FillFacts ==
    ASSUME NEW now, NEW next, NEW field \in ImgFields, NEW value, ReaderImg, Fill(now, next, field, value)
    PROVE  /\ step = now /\ step' = next /\ UNCHANGED <<disk, csv>> /\ ReaderImg'
           /\ img'[field] = value
           /\ \A f \in ImgFields \ {field} : img'[f] = img[f]
<1>1. img' = [img EXCEPT ![field] = value] /\ DOMAIN img = ImgFields
  BY DEF Fill, ReaderImg, ImgFields
<1>2. img' = [f \in ImgFields |-> IF f = field THEN value ELSE img[f]]
  BY <1>1
<1>3. ReaderImg'
  BY <1>2 DEF ReaderImg, ImgFields
<1> QED
  BY <1>2, <1>3 DEF Fill

LEMMA ReaderBegins == ReaderInit => ReaderInv
<1> SUFFICES ASSUME ReaderInit PROVE ReaderInv
  OBVIOUS
<1>1. ReaderImg
  BY DEF ReaderInit, NoImage, ReaderImg
<1>2. ~csv.printed /\ step = "verify" /\ Image
  BY DEF ReaderInit, Nothing, Image
<1> QED
  BY <1>1, <1>2 DEF ReaderInv, Later

LEMMA ReaderStays ==
    ASSUME ReaderInv, UNCHANGED readerVars
    PROVE  ReaderInv'
<1>1. disk' = disk /\ img' = img /\ step' = step /\ csv' = csv
  BY DEF readerVars
<1>2. Image' /\ ReaderImg'
  BY <1>1 DEF ReaderInv, Image, ReaderImg
<1>3. /\ GroupsRead => GroupsRead'
      /\ BfreeRead => BfreeRead'
      /\ IfreeRead => IfreeRead'
      /\ InodesRead => InodesRead'
      /\ DirentsRead => DirentsRead'
  BY <1>1, StillRead
<1>4. (IndirectsRead => IndirectsRead') /\ (Printed => Printed')
  BY <1>1, IndirectsStillRead, StillPrinted
<1> QED
  BY <1>1, <1>2, <1>3, <1>4 DEF ReaderInv

(* A step of the reader keeps what was read before.                        *)
OthersStay(field) == \A f \in ImgFields \ {field} : img'[f] = img[f]

LEMMA ReaderFills ==
    ASSUME ReaderInv, NEW now, NEW next, NEW field \in ImgFields, NEW value,
           Fill(now, next, field, value), now # "done"
    PROVE  /\ Image' /\ ReaderImg' /\ ~csv'.printed /\ step = now /\ step' = next
           /\ disk' = disk /\ csv' = csv /\ img'[field] = value
           /\ OthersStay(field)
<1>1. /\ step = now /\ step' = next /\ UNCHANGED <<disk, csv>> /\ ReaderImg'
      /\ img'[field] = value
      /\ \A f \in ImgFields \ {field} : img'[f] = img[f]
  BY FillFacts DEF ReaderInv
<1>2. Image' /\ ~csv'.printed
  BY <1>1 DEF ReaderInv, Image
<1> QED
  BY <1>1, <1>2 DEF OthersStay

LEMMA ReaderStep ==
    ASSUME ReaderInv, ReaderNext
    PROVE  ReaderInv'
<1>0. /\ "group" \in ImgFields /\ "bfree" \in ImgFields /\ "ifree" \in ImgFields
      /\ "inode" \in ImgFields /\ "dirent" \in ImgFields /\ "indirect" \in ImgFields
  BY DEF ImgFields
<1>1. CASE Verify
  <2>1. disk' = disk /\ img' = img /\ csv' = csv /\ step = "verify" /\ step' \in {"group", "done"}
    BY <1>1 DEF Verify
  <2>2. Image' /\ ReaderImg' /\ ~csv'.printed
    BY <2>1 DEF ReaderInv, Image, ReaderImg
  <2> QED
    BY <2>1, <2>2 DEF ReaderInv, Later
<1>2. CASE ReadFails
  <2>1. disk' = disk /\ img' = img /\ csv' = csv /\ step # "done" /\ step' = "done"
    BY <1>2 DEF ReadFails, Reading
  <2>2. Image' /\ ReaderImg' /\ ~csv'.printed
    BY <2>1 DEF ReaderInv, Image, ReaderImg
  <2> QED
    BY <2>1, <2>2 DEF ReaderInv, Later
<1>3. CASE ReadGroup
  <2> DEFINE value == SubSeq(disk.group, 1, NumGroups)
  <2>1. Fill("group", "bfree", "group", value)
    BY <1>3 DEF ReadGroup
  <2> HIDE DEF value
  <2>2. /\ Image' /\ ReaderImg' /\ ~csv'.printed /\ step' = "bfree" /\ disk' = disk
        /\ img'["group"] = value
    BY <1>0, <2>1, ReaderFills
  <2>3. GroupsRead'
    BY <2>2 DEF GroupsRead, NumGroups, value
  <2> QED
    BY <2>2, <2>3 DEF ReaderInv, Later
<1>4. CASE ReadBfree
  <2> DEFINE value == FreeList(disk.per_group, "block_bitmap", "free_blocks")
  <2>1. Fill("bfree", "ifree", "bfree", value)
    BY <1>4 DEF ReadBfree
  <2> HIDE DEF value
  <2>2. /\ Image' /\ ReaderImg' /\ ~csv'.printed /\ step = "bfree" /\ step' = "ifree" /\ disk' = disk
        /\ img'["bfree"] = value /\ img'.group = img.group /\ img'.ifree = img.ifree /\ img'.inode = img.inode /\ img'.dirent = img.dirent /\ img'.indirect = img.indirect
    <3>1. /\ Image' /\ ReaderImg' /\ ~csv'.printed /\ step = "bfree" /\ step' = "ifree" /\ disk' = disk
          /\ img'["bfree"] = value /\ OthersStay("bfree")
      BY <1>0, <2>1, ReaderFills
    <3> QED
      BY <3>1 DEF OthersStay, ImgFields
  <2>3. GroupsRead'
    BY <2>2, StillRead DEF ReaderInv, Later
  <2>4. BfreeRead'
    <3>1. img'.bfree = value /\ img'.group = img.group
      BY <2>2
    <3> QED
      BY <2>2, <3>1 DEF BfreeRead, FreeList, value
  <2> QED
    BY <2>2, <2>3, <2>4 DEF ReaderInv, Later
<1>5. CASE ReadIfree
  <2> DEFINE value == FreeList(disk.inodes_per_group, "inode_bitmap", "free_inodes")
  <2>1. Fill("ifree", "inode", "ifree", value)
    BY <1>5 DEF ReadIfree
  <2> HIDE DEF value
  <2>2. /\ Image' /\ ReaderImg' /\ ~csv'.printed /\ step = "ifree" /\ step' = "inode" /\ disk' = disk
        /\ img'["ifree"] = value /\ img'.group = img.group /\ img'.bfree = img.bfree /\ img'.inode = img.inode /\ img'.dirent = img.dirent /\ img'.indirect = img.indirect
    <3>1. /\ Image' /\ ReaderImg' /\ ~csv'.printed /\ step = "ifree" /\ step' = "inode" /\ disk' = disk
          /\ img'["ifree"] = value /\ OthersStay("ifree")
      BY <1>0, <2>1, ReaderFills
    <3> QED
      BY <3>1 DEF OthersStay, ImgFields
  <2>3. GroupsRead' /\ BfreeRead'
    BY <2>2, StillRead DEF ReaderInv, Later
  <2>4. IfreeRead'
    <3>1. img'.ifree = value /\ img'.group = img.group
      BY <2>2
    <3> QED
      BY <2>2, <3>1 DEF IfreeRead, FreeList, value
  <2> QED
    BY <2>2, <2>3, <2>4 DEF ReaderInv, Later
<1>6. CASE ReadInode
  <2> DEFINE value == FlattenSeq([i \in DOMAIN img.group |-> InodesOfGroup(i)])
  <2>1. Fill("inode", "dirent", "inode", value)
    BY <1>6 DEF ReadInode
  <2> HIDE DEF value
  <2>2. /\ Image' /\ ReaderImg' /\ ~csv'.printed /\ step = "inode" /\ step' = "dirent" /\ disk' = disk
        /\ img'["inode"] = value /\ img'.group = img.group /\ img'.bfree = img.bfree /\ img'.ifree = img.ifree /\ img'.dirent = img.dirent /\ img'.indirect = img.indirect
    <3>1. /\ Image' /\ ReaderImg' /\ ~csv'.printed /\ step = "inode" /\ step' = "dirent" /\ disk' = disk
          /\ img'["inode"] = value /\ OthersStay("inode")
      BY <1>0, <2>1, ReaderFills
    <3> QED
      BY <3>1 DEF OthersStay, ImgFields
  <2>3. GroupsRead' /\ BfreeRead' /\ IfreeRead'
    BY <2>2, StillRead DEF ReaderInv, Later
  <2>4. InodesRead'
    <3>1. img'.inode = value /\ img'.group = img.group
      BY <2>2
    <3> QED
      BY <2>2, <3>1 DEF InodesRead, InodesOfGroup, value
  <2> QED
    BY <2>2, <2>3, <2>4 DEF ReaderInv, Later
<1>7. CASE ReadDirent
  <2> DEFINE value == FlattenSeq([n \in DOMAIN Directories |-> DirentsOf(Directories[n])])
  <2>1. Fill("dirent", "indirect", "dirent", value)
    BY <1>7 DEF ReadDirent
  <2> HIDE DEF value
  <2>2. /\ Image' /\ ReaderImg' /\ ~csv'.printed /\ step = "dirent" /\ step' = "indirect" /\ disk' = disk
        /\ img'["dirent"] = value /\ img'.group = img.group /\ img'.bfree = img.bfree /\ img'.ifree = img.ifree /\ img'.inode = img.inode /\ img'.indirect = img.indirect
    <3>1. /\ Image' /\ ReaderImg' /\ ~csv'.printed /\ step = "dirent" /\ step' = "indirect" /\ disk' = disk
          /\ img'["dirent"] = value /\ OthersStay("dirent")
      BY <1>0, <2>1, ReaderFills
    <3> QED
      BY <3>1 DEF OthersStay, ImgFields
  <2>3. GroupsRead' /\ BfreeRead' /\ IfreeRead' /\ InodesRead'
    BY <2>2, StillRead DEF ReaderInv, Later
  <2>4. DirentsRead'
    <3>1. img'.dirent = value /\ img'.inode = img.inode
      BY <2>2
    <3>2. Directories' = Directories
      BY <3>1 DEF Directories
    <3>3. \A dir : DirentsOf(dir)' = DirentsOf(dir)
      BY <2>2 DEF DirentsOf, EntriesAt
    <3> QED
      BY <3>1, <3>2, <3>3 DEF DirentsRead, value
  <2> QED
    BY <2>2, <2>3, <2>4 DEF ReaderInv, Later
<1>8. CASE ReadIndirect
  <2> DEFINE value == FlattenSeq([n \in DOMAIN img.inode |-> IndirectsOf(img.inode[n])])
  <2>1. Fill("indirect", "print", "indirect", value) /\ \A n \in DOMAIN value : value[n].ref # 0
    BY <1>8 DEF ReadIndirect
  <2> HIDE DEF value
  <2>2. /\ Image' /\ ReaderImg' /\ ~csv'.printed /\ step = "indirect" /\ step' = "print" /\ disk' = disk
        /\ img'["indirect"] = value /\ img'.group = img.group /\ img'.bfree = img.bfree /\ img'.ifree = img.ifree /\ img'.inode = img.inode /\ img'.dirent = img.dirent
    <3>1. /\ Image' /\ ReaderImg' /\ ~csv'.printed /\ step = "indirect" /\ step' = "print" /\ disk' = disk
          /\ img'["indirect"] = value /\ OthersStay("indirect")
      BY <1>0, <2>1, ReaderFills
    <3> QED
      BY <3>1 DEF OthersStay, ImgFields
  <2>3. GroupsRead' /\ BfreeRead' /\ IfreeRead' /\ InodesRead' /\ DirentsRead'
    BY <2>2, StillRead DEF ReaderInv, Later
  <2>4. IndirectsRead'
    <3>1. img'.indirect = value /\ img'.inode = img.inode
      BY <2>2
    <3>2. \A i : IndirectsOf(i)' = IndirectsOf(i)
      BY <2>2, <3>1, IndirectsStillRead
    <3>3. (img.indirect = FlattenSeq([n \in DOMAIN img.inode |-> IndirectsOf(img.inode[n])]))'
      BY <3>1, <3>2 DEF value
    <3>4. (\A n \in DOMAIN img.indirect : img.indirect[n].ref # 0)'
      BY <2>1, <3>1
    <3> QED
      BY <3>3, <3>4 DEF IndirectsRead
  <2> QED
    BY <2>2, <2>3, <2>4 DEF ReaderInv, Later
<1>9. CASE PrintCsv
  <2>1. disk' = disk /\ img' = img /\ step = "print" /\ step' = "done"
    BY <1>9 DEF PrintCsv
  <2>2. Image' /\ ReaderImg'
    BY <2>1 DEF ReaderInv, Image, ReaderImg
  <2>read. GroupsRead' /\ BfreeRead' /\ IfreeRead' /\ InodesRead' /\ DirentsRead'
    BY <2>1, StillRead DEF ReaderInv, Later
  <2>4. IndirectsRead'
    BY <2>1, IndirectsStillRead DEF ReaderInv
  <2>5. Printed'
    <3>1. \A i : DirentLines(i)' = DirentLines(i)
      BY <2>1 DEF DirentLines
    <3>2. \A lines : ByNumber(lines)' = ByNumber(lines)
      BY <2>1 DEF ByNumber
    <3>3. \A i : GroupLine(i)' = GroupLine(i)
      BY <2>1 DEF GroupLine
    <3> QED
      BY <1>9, <2>1, <3>1, <3>2, <3>3 DEF Printed, PrintCsv
  <2> QED
    BY <2>1, <2>2, <2>read, <2>4, <2>5 DEF ReaderInv, Later
<1> QED
  BY <1>1, <1>2, <1>3, <1>4, <1>5, <1>6, <1>7, <1>8, <1>9 DEF ReaderNext

LEMMA ReaderInvariant == ReaderSpec => []ReaderInv
<1>1. ReaderInv /\ [ReaderNext]_readerVars => ReaderInv'
  BY ReaderStays, ReaderStep
<1> QED
  BY <1>1, ReaderBegins, PTL DEF ReaderSpec

(* What lab3a prints is the image: the groups have the sizes that the      *)
(* superblock says, and if the image is within reach, then every free      *)
(* block and inode, every inode in use, every entry and every pointer in   *)
(* an indirect block is a line, once, and nothing else is.  scan_image,    *)
(* print_csv.                                                              *)
Summarised == csv.printed => GroupsOK /\ (WithinReach => SummaryOK)

THEOREM ReaderSummary == ReaderSpec => []Summarised
<1>1. ReaderInv => Summarised
  BY GroupsPrinted, SummaryPrinted DEF ReaderInv, Summarised, FreeRead, BfreeRead, IfreeRead
<1> QED
  BY <1>1, ReaderInvariant, PTL

-----------------------------------------------------------------------------
(*                        LAB3B: THE ERRORS                                *)

(* The pointers of INODE lines, by line and slot, and those of INDIRECT    *)
(* lines, by line.                                                         *)
Blk(m) == csv.inode[m[1]].ptr[m[2]]
Of(m) == csv.inode[m[1]].of
Lev(m) == Level(m[2])
Pointers ==
    {m \in (1 .. Len(csv.inode)) \X Slot : csv.inode[m[1]].type # "s" /\ Blk(m) # 0}

Ref(n) == csv.indirect[n].ref
Ino(n) == csv.indirect[n].of
Lines == 1 .. Len(csv.indirect)

Valid == ReservedBlocks + 1 .. csv.blocks - 1

(* A summary whose block numbers are natural numbers, so that none of them *)
(* is an index from the end of a table.                                    *)
CsvOK ==
    /\ csv.blocks \in Nat /\ ReservedBlocks \in Int /\ ReservedBlocks >= -1
    /\ Len(csv.inode) \in Nat /\ Len(csv.indirect) \in Nat
    /\ \A m \in Pointers : Blk(m) \in Nat
    /\ \A n \in Lines : Ref(n) \in Nat

(* How far the scan is: the pointers looked at so far.                     *)
Past(m) ==
    \/ section \in {"dirent", "indirect", "done"}
    \/ section = "inode" /\ (m[1] < line \/ (m[1] = line /\ m[2] < num - 1))
SeenPtrs == {m \in Pointers : Past(m)}
SeenLines == {n \in Lines : section = "done" \/ (section = "indirect" /\ n < line)}
FreeNow == IF section = "bfree" THEN {} ELSE ToSet(csv.bfree)

Mentioned(b) == (\E m \in SeenPtrs : Blk(m) = b) \/ (\E n \in SeenLines : Ref(n) = b)
Twice(b) ==
    \/ \E m, k \in SeenPtrs : m # k /\ Blk(m) = b /\ Blk(k) = b
    \/ \E m \in SeenPtrs, n \in SeenLines : Blk(m) = b /\ Ref(n) = b
    \/ \E n, k \in SeenLines : n # k /\ Ref(n) = b /\ Ref(k) = b

(* The errors found about blocks.                                          *)
Dups == Reported("block", {"dup"})
Outs == Reported("block", {"res", "inv"})
Alls == Reported("free", {"all_blk"})
Unrefs == {e \in err_list : e.type = "unref"}

(* The table of blocks knows of each block whether a pointer was seen, and *)
(* before the INDIRECT lines which one.                                    *)
Entry1(m) == Held(Lev(m), Of(m), FirstOffset(Lev(m)))

TableOK ==
    /\ 0 .. csv.blocks - 1 \subseteq DOMAIN block_hash
    /\ FreeNow \subseteq DOMAIN block_hash
    /\ \A m \in SeenPtrs : Blk(m) \in DOMAIN block_hash
    /\ \A n \in SeenLines : Ref(n) \in DOMAIN block_hash
    /\ \A b \in DOMAIN block_hash :
           /\ b \in 0 .. csv.blocks - 1 \/ b \in FreeNow \/ Mentioned(b)
           /\ ~Mentioned(b) => block_hash[b] = IF b \in FreeNow THEN Free ELSE Unreferenced
           /\ Mentioned(b) => IsArray(block_hash[b])
           /\ Mentioned(b) /\ SeenLines = {} =>
                  \E m \in SeenPtrs : Blk(m) = b /\ block_hash[b] = Entry1(m)

DupsOK ==
    /\ \A e \in Dups :
           /\ Twice(e.block)
           /\ \/ \E m \in SeenPtrs : Blk(m) = e.block /\ Of(m) = e.inode
              \/ \E n \in SeenLines : Ref(n) = e.block /\ Ino(n) = e.inode
    /\ \A b \in Valid : Twice(b) => \E e \in Dups : e.block = b
    /\ \A m, k \in SeenPtrs : m # k /\ Blk(m) = Blk(k) =>
           \E e \in Dups : e.block = Blk(m) /\ e.inode = Of(m) /\ e.level = Lev(m)

OutsOK ==
    {<<e.inode, e.block>> : e \in Outs} =
        {<<Of(m), Blk(m)>> : m \in {m \in SeenPtrs : Blk(m) \notin Valid}}
        \cup {<<Ino(n), Ref(n)>> : n \in {n \in SeenLines : Ref(n) \notin Valid}}

AllsOK == {e.element : e \in Alls} = {b \in FreeNow : \E m \in SeenPtrs : Blk(m) = b}

UnrefsOK ==
    {e.block : e \in Unrefs} =
        IF section = "done" THEN {b \in Valid : ~Mentioned(b) /\ b \notin FreeNow} ELSE {}

BlockInv == TableOK /\ DupsOK /\ OutsOK /\ AllsOK /\ UnrefsOK

(* The order in which the lines are scanned.                               *)
ScanOK ==
    /\ section \in {"header", "bfree", "ifree", "inode", "dirent", "indirect", "done"}
    /\ section = "header" => err_list = {}
    /\ section # "header" => step = "done"
    /\ section # "done" => exit_b = Running
    /\ line \in Nat \ {0}
    /\ num \in 0 .. NumDirect + 3
    /\ section = "inode" /\ num > 0 =>
           line <= Len(csv.inode) /\ csv.inode[line].type # "s"

CheckInv ==
    /\ ScanOK
    /\ CsvOK /\ section # "header" /\ exit_b # 1 => BlockInv

-----------------------------------------------------------------------------
(* The order of the scan.                                                  *)

Afterwards == {"bfree", "ifree", "inode", "dirent", "indirect", "done"}

(* Every step of the checker leaves the summary and the disk alone, and    *)
(* the reader is done then.                                                *)
LEMMA StepKinds ==
    ASSUME ScanOK, [Next]_vars
    PROVE  \/ section = "header" /\ UNCHANGED checkerVars
           \/ CheckerNext /\ UNCHANGED <<disk, csv, step>>
           \/ UNCHANGED checkerVars /\ UNCHANGED <<disk, csv, step>>
<1>1. CASE ReaderNext /\ UNCHANGED checkerVars
  <2>1. step = "done" => FALSE
    BY <1>1 DEF ReaderNext, Verify, ReadGroup, ReadBfree, ReadIfree, ReadInode, ReadDirent,
                ReadIndirect, PrintCsv, ReadFails, Reading, Fill
  <2> QED
    BY <1>1, <2>1 DEF ScanOK
<1>2. CASE CheckerNext /\ UNCHANGED readerVars
  BY <1>2 DEF readerVars
<1>3. CASE UNCHANGED vars
  BY <1>3 DEF vars, readerVars
<1> QED
  BY <1>1, <1>2, <1>3 DEF Next

LEMMA ScanInit == Init => ScanOK
<1> SUFFICES ASSUME Init PROVE ScanOK
  OBVIOUS
<1>1. 0 \in 0 .. NumDirect + 3
  BY ImageAssumption
<1> QED
  BY <1>1 DEF Init, CheckerInit, ScanOK, At1, Running

LEMMA ScanStep ==
    ASSUME ScanOK, CheckerNext, UNCHANGED <<disk, csv, step>>
    PROVE  ScanOK'
<1>1. /\ NumDirect \in Nat /\ 0 \in 0 .. NumDirect + 3 /\ 1 \in 0 .. NumDirect + 3
      /\ line \in Nat \ {0} /\ line + 1 \in Nat \ {0} /\ 1 \in Nat \ {0}
  BY ImageAssumption DEF ScanOK
<1>2. ASSUME section' = "done", UNCHANGED <<line, num>>, section # "header" \/ step = "done"
      PROVE  ScanOK'
  BY <1>2 DEF ScanOK
<1>3. ASSUME NEW next \in Afterwards \ {"done"}, section' = next, num' = 0, UNCHANGED exit_b,
             section # "header" \/ step = "done", section # "done",
             line' \in {1, line, line + 1}
      PROVE  ScanOK'
  BY <1>1, <1>3 DEF ScanOK, Afterwards
<1>4. CASE ScanHeader
  BY <1>2, <1>3, <1>4 DEF ScanHeader, Raise, At1, Afterwards
<1>5. CASE ScanBfree
  BY <1>3, <1>5 DEF ScanBfree, At1, Afterwards
<1>6. CASE ScanIfree
  BY <1>3, <1>6 DEF ScanIfree, At1, Afterwards
<1>7. CASE InodeLineStart
  <2>1. CASE csv.inode[line].type = "s"
    BY <1>3, <1>7, <2>1 DEF InodeLineStart, Afterwards
  <2>2. CASE csv.inode[line].type # "s"
    <3>1. section = "inode" /\ section' = "inode" /\ num' = 1 /\ line' = line
          /\ line <= Len(csv.inode) /\ exit_b' = exit_b
      BY <1>7, <2>2 DEF InodeLineStart
    <3> QED
      BY <1>1, <2>2, <3>1 DEF ScanOK
  <2> QED
    BY <2>1, <2>2
<1>8. CASE CheckPointer
  <2>1. /\ section = "inode" /\ num \in 1 .. NumDirect + 3
        /\ line <= Len(csv.inode) /\ csv.inode[line].type # "s"
    BY <1>1, <1>8 DEF CheckPointer, ScanOK
  <2>2. /\ \/ section' = "inode" /\ exit_b' = exit_b
           \/ section' = "done"
        /\ \/ num' = 0 /\ line' = line + 1
           \/ num # NumDirect + 3 /\ num' = num + 1 /\ line' = line
    BY <1>8, <2>1 DEF CheckPointer
  <2>3. num # NumDirect + 3 => num + 1 \in 0 .. NumDirect + 3
    BY <1>1, <2>1
  <2> QED
    BY <1>1, <2>1, <2>2, <2>3 DEF ScanOK
<1>9. CASE SetRoot
  BY <1>2, <1>3, <1>9 DEF SetRoot, Raise, At1, Afterwards
<1>10. CASE ScanDirent
  <2>1. section = "dirent" /\ UNCHANGED num
    BY <1>10 DEF ScanDirent, Raise
  <2>2. \/ section' = "done" /\ UNCHANGED <<line, num>>
        \/ section' = "dirent" /\ line' = line + 1 /\ UNCHANGED exit_b
    BY <1>10, <2>1 DEF ScanDirent, Raise
  <2> QED
    BY <1>1, <1>2, <2>1, <2>2 DEF ScanOK
<1>11. CASE DirentsDone
  BY <1>3, <1>11 DEF DirentsDone, At1, Afterwards
<1>12. CASE ScanIndirect
  <2>1. section = "indirect" /\ section' = "indirect" /\ UNCHANGED <<num, exit_b>>
        /\ line' = line + 1
    BY <1>12 DEF ScanIndirect
  <2> QED
    BY <1>1, <2>1 DEF ScanOK
<1>13. CASE Conclude
  BY <1>2, <1>13 DEF Conclude
<1> QED
  BY <1>4, <1>5, <1>6, <1>7, <1>8, <1>9, <1>10, <1>11, <1>12, <1>13 DEF CheckerNext

-----------------------------------------------------------------------------
(* The lines and what is read off them stay as they are.                   *)

LEMMA Frozen ==
    ASSUME UNCHANGED csv
    PROVE  /\ Valid' = Valid /\ ReservedBlocks' = ReservedBlocks
           /\ Pointers' = Pointers /\ Lines' = Lines
           /\ CsvOK' = CsvOK
BY DEF Valid, ReservedBlocks, InodeTableSize, Pointers, Lines, CsvOK, Blk, Ref

(* A step that looks at no pointer and finds no error about blocks, unless *)
(* of those that nothing refers to.                                        *)
LEMMA NothingNew ==
    ASSUME BlockInv, UNCHANGED <<csv, block_hash>>,
           SeenPtrs' = SeenPtrs, SeenLines' = SeenLines, FreeNow' = FreeNow,
           Dups' = Dups, Outs' = Outs, Alls' = Alls
    PROVE  TableOK' /\ DupsOK' /\ OutsOK' /\ AllsOK'
<1>1. Valid' = Valid
  BY Frozen
<1>2. TableOK'
  BY DEF BlockInv, TableOK, Mentioned, Blk, Of, Lev, Ref, Entry1
<1>3. DupsOK'
  BY <1>1 DEF BlockInv, DupsOK, Twice, Blk, Of, Lev, Ref, Ino
<1>4. OutsOK'
  BY <1>1 DEF BlockInv, OutsOK, Blk, Of, Ref, Ino
<1>5. AllsOK'
  BY DEF BlockInv, AllsOK, Blk
<1> QED
  BY <1>2, <1>3, <1>4, <1>5

LEMMA Neutral ==
    ASSUME BlockInv, UNCHANGED <<csv, block_hash>>,
           SeenPtrs' = SeenPtrs, SeenLines' = SeenLines, FreeNow' = FreeNow,
           Dups' = Dups, Outs' = Outs, Alls' = Alls, Unrefs' = Unrefs,
           section # "done", section' # "done"
    PROVE  BlockInv'
<1>1. UnrefsOK'
  BY DEF BlockInv, UnrefsOK
<1> QED
  BY <1>1, NothingNew DEF BlockInv

(* Errors of other kinds are no errors about blocks.                       *)
LEMMA OtherErrors ==
    ASSUME NEW X, err_list' = err_list \cup X,
           \A e \in X : /\ e.type \notin {"block", "unref"}
                        /\ e.type = "free" => e.flag # "all_blk"
    PROVE  Dups' = Dups /\ Outs' = Outs /\ Alls' = Alls /\ Unrefs' = Unrefs
BY DEF Dups, Outs, Alls, Unrefs, Reported

LEMMA ErrorKinds ==
    /\ \A f, l, b, i, o :
           LET e == ErrBlock(f, l, b, i, o)
           IN  e.type = "block" /\ e.flag = f /\ e.level = l /\ e.block = b /\ e.inode = i
    /\ \A b : ErrUnref(b).type = "unref" /\ ErrUnref(b).block = b
    /\ \A f, b : LET e == ErrFree(f, b) IN e.type = "free" /\ e.flag = f /\ e.element = b
    /\ \A i, n, k : ErrLink(i, n, k).type = "link"
    /\ \A f, d, i, n : ErrDir(f, d, i, n).type = "dir"
    /\ \A f, d, i, c : ErrParent(f, d, i, c).type = "parent"
BY DEF ErrBlock, ErrUnref, ErrFree, ErrLink, ErrDir, ErrParent

-----------------------------------------------------------------------------
(* The steps up to the INODE lines.                                        *)

(* Before the INODE lines nothing has been seen.                           *)
LEMMA NothingSeen ==
    section \in {"header", "bfree", "ifree"} => SeenPtrs = {} /\ SeenLines = {}
BY DEF SeenPtrs, SeenLines, Past

LEMMA NothingSeenNext ==
    section' \in {"header", "bfree", "ifree"} => SeenPtrs' = {} /\ SeenLines' = {}
BY DEF SeenPtrs, SeenLines, Past

LEMMA HeaderStep ==
    ASSUME ScanOK, CsvOK, ScanHeader, UNCHANGED csv, exit_b' # 1
    PROVE  BlockInv'
<1>1. /\ block_hash' = [b \in 0 .. csv.blocks - 1 |-> Unreferenced]
      /\ err_list' = {} /\ section' = "bfree"
  BY DEF ScanOK, ScanHeader, Raise, At1
<1>2. SeenPtrs' = {} /\ SeenLines' = {} /\ FreeNow' = {}
  BY <1>1, NothingSeenNext DEF FreeNow
<1>3. Dups' = {} /\ Outs' = {} /\ Alls' = {} /\ Unrefs' = {}
  BY <1>1 DEF Dups, Outs, Alls, Unrefs, Reported
<1>4. TableOK'
  BY <1>1, <1>2 DEF TableOK, Mentioned
<1>5. DupsOK'
  BY <1>2, <1>3 DEF DupsOK, Twice
<1>6. OutsOK' /\ AllsOK' /\ UnrefsOK'
  BY <1>1, <1>2, <1>3 DEF OutsOK, AllsOK, UnrefsOK
<1> QED
  BY <1>4, <1>5, <1>6 DEF BlockInv

LEMMA BfreeStep ==
    ASSUME BlockInv, ScanBfree, UNCHANGED csv
    PROVE  BlockInv'
<1>1. /\ block_hash' = PutAll(block_hash, ToSet(csv.bfree), Free)
      /\ err_list' = err_list /\ section = "bfree" /\ section' = "ifree"
  BY DEF ScanBfree, At1
<1>2. /\ SeenPtrs' = {} /\ SeenLines' = {} /\ FreeNow' = ToSet(csv.bfree)
      /\ SeenPtrs = {} /\ SeenLines = {} /\ FreeNow = {}
  BY <1>1, NothingSeen, NothingSeenNext DEF FreeNow
<1>3. Dups' = Dups /\ Outs' = Outs /\ Alls' = Alls /\ Unrefs' = Unrefs /\ Valid' = Valid
  BY <1>1, Frozen DEF Dups, Outs, Alls, Unrefs, Reported
<1>4. TableOK'
  <2>1. DOMAIN block_hash' = ToSet(csv.bfree) \cup DOMAIN block_hash
    BY <1>1 DEF PutAll
  <2>2. \A b \in DOMAIN block_hash' :
           block_hash'[b] = IF b \in ToSet(csv.bfree) THEN Free ELSE block_hash[b]
    BY <1>1 DEF PutAll
  <2> QED
    BY <1>2, <2>1, <2>2 DEF BlockInv, TableOK, Mentioned
<1>5. DupsOK'
  BY <1>2, <1>3 DEF BlockInv, DupsOK, Twice
<1>6. OutsOK' /\ AllsOK' /\ UnrefsOK'
  BY <1>1, <1>2, <1>3 DEF BlockInv, OutsOK, AllsOK, UnrefsOK
<1> QED
  BY <1>4, <1>5, <1>6 DEF BlockInv

LEMMA IfreeStep ==
    ASSUME ScanOK, BlockInv, ScanIfree, UNCHANGED csv
    PROVE  BlockInv'
<1>1. /\ block_hash' = block_hash /\ err_list' = err_list
      /\ section = "ifree" /\ section' = "inode" /\ line' = 1 /\ num' = 0
  BY DEF ScanIfree, At1
<1>2. Pointers' = Pointers /\ FreeNow' = FreeNow
  BY <1>1, Frozen DEF FreeNow
<1>3. SeenPtrs' = {} /\ SeenLines' = {} /\ SeenPtrs = {} /\ SeenLines = {}
  <2>1. \A m \in Pointers : ~Past(m)'
    <3> SUFFICES ASSUME NEW m \in Pointers PROVE ~Past(m)'
      OBVIOUS
    <3>1. m[1] \in Nat \ {0} /\ m[2] \in Nat
      BY ImageAssumption DEF Pointers, Slot
    <3>2. ~(m[1] < 1) /\ ~(m[2] < 0 - 1)
      BY <3>1
    <3> QED
      BY <1>1, <3>2 DEF Past
  <2> QED
    BY <1>1, <1>2, <2>1, NothingSeen DEF SeenPtrs, SeenLines
<1>4. Dups' = Dups /\ Outs' = Outs /\ Alls' = Alls /\ Unrefs' = Unrefs
  BY <1>1 DEF Dups, Outs, Alls, Unrefs, Reported
<1> QED
  BY <1>1, <1>2, <1>3, <1>4, Neutral

-----------------------------------------------------------------------------
(* The INODE lines.                                                        *)

LEMMA PointerFacts ==
    ASSUME NEW m \in Pointers
    PROVE  /\ m[1] \in 1 .. Len(csv.inode) /\ m[2] \in Slot /\ m = <<m[1], m[2]>>
           /\ csv.inode[m[1]].type # "s" /\ Blk(m) # 0
           /\ m[1] \in Int /\ m[2] \in 0 .. NumDirect + 2 /\ NumDirect \in Nat
BY ImageAssumption DEF Pointers, Slot

LEMMA LineStartStep ==
    ASSUME ScanOK, BlockInv, InodeLineStart, UNCHANGED csv
    PROVE  BlockInv'
<1>1. /\ block_hash' = block_hash /\ section = "inode" /\ section' = "inode"
      /\ num = 0 /\ line \in Nat
  BY DEF InodeLineStart, ScanOK
<1>2. Pointers' = Pointers /\ Lines' = Lines /\ FreeNow' = FreeNow
  BY <1>1, Frozen DEF FreeNow
<1>3. \/ csv.inode[line].type = "s" /\ line' = line + 1 /\ num' = 0
      \/ line' = line /\ num' = 1
  BY <1>1 DEF InodeLineStart
<1>4. ASSUME NEW m \in Pointers PROVE Past(m)' <=> Past(m)
  <2>1. /\ m[1] \in Int /\ m[2] \in Nat /\ csv.inode[m[1]].type # "s"
    BY PointerFacts
  <2>2. Past(m) <=> m[1] < line
    BY <1>1, <2>1 DEF Past
  <2>3. Past(m)' <=> m[1] < line' \/ (m[1] = line' /\ m[2] < num' - 1)
    BY <1>1 DEF Past
  <2>4. \/ line' = line + 1 /\ num' = 0 /\ m[1] # line
        \/ line' = line /\ num' = 1
    BY <1>3, <2>1
  <2> QED
    BY <1>1, <2>1, <2>2, <2>3, <2>4
<1>5. SeenPtrs' = SeenPtrs /\ SeenLines' = SeenLines
  BY <1>1, <1>2, <1>4 DEF SeenPtrs, SeenLines
<1>6. Dups' = Dups /\ Outs' = Outs /\ Alls' = Alls /\ Unrefs' = Unrefs
  <2> DEFINE e == csv.inode[line]
             X == IF At(inode_hash, e.of) = Free THEN {ErrFree("all_ino", e.of)} ELSE {}
  <2>1. err_list' = err_list \cup X
    BY DEF InodeLineStart
  <2>2. \A x \in X : x.type = "free" /\ x.flag = "all_ino"
    BY ErrorKinds
  <2> HIDE DEF X
  <2> QED
    BY <2>1, <2>2, OtherErrors
<1> QED
  BY <1>1, <1>2, <1>5, <1>6, Neutral

(* After a pointer it has been seen, unless it was 0.                      *)
LEMMA SeenPointer ==
    ASSUME ScanOK, CheckPointer, UNCHANGED csv, section' = "inode"
    PROVE  LET m == <<line, num - 1>>
           IN  /\ m \notin SeenPtrs
               /\ m \in Pointers <=> Blk(m) # 0
               /\ SeenPtrs' = SeenPtrs \cup ({m} \cap Pointers)
               /\ SeenLines = {} /\ SeenLines' = {}
               /\ FreeNow = ToSet(csv.bfree) /\ FreeNow' = FreeNow
<1> DEFINE m == <<line, num - 1>>
<1>1. /\ NumDirect \in Nat /\ section = "inode"
      /\ num \in 1 .. NumDirect + 3 /\ line \in Nat \ {0}
      /\ line <= Len(csv.inode) /\ csv.inode[line].type # "s"
      /\ \/ num = NumDirect + 3 /\ num' = 0 /\ line' = line + 1
         \/ num # NumDirect + 3 /\ num' = num + 1 /\ line' = line
  BY ImageAssumption DEF CheckPointer, ScanOK
<1>2. Pointers' = Pointers
  BY Frozen
<1>3. ASSUME NEW k \in Pointers
      PROVE  /\ Past(k)' <=> (Past(k) \/ k = m)
             /\ k = m => ~Past(k)
  <2>1. k[1] \in Int /\ k[2] \in 0 .. NumDirect + 2 /\ k = <<k[1], k[2]>>
    BY PointerFacts
  <2>2. k = m <=> k[1] = line /\ k[2] = num - 1
    BY <2>1
  <2>past. Past(k) <=> k[1] < line \/ (k[1] = line /\ k[2] < num - 1)
    BY <1>1 DEF Past
  <2>4. Past(k)' <=> k[1] < line' \/ (k[1] = line' /\ k[2] < num' - 1)
    BY DEF Past
  <2> HIDE DEF m
  <2>5. CASE num = NumDirect + 3 /\ num' = 0 /\ line' = line + 1
    BY <1>1, <2>1, <2>2, <2>past, <2>4, <2>5
  <2>6. CASE num # NumDirect + 3 /\ num' = num + 1 /\ line' = line
    BY <1>1, <2>1, <2>2, <2>past, <2>4, <2>6
  <2> QED
    BY <1>1, <2>5, <2>6
<1>4. m \in Pointers <=> Blk(m) # 0
  <2>1. line \in 1 .. Len(csv.inode) /\ num - 1 \in Slot
    BY <1>1 DEF Slot
  <2> QED
    BY <1>1, <2>1 DEF Pointers
<1>5. SeenLines = {} /\ SeenLines' = {}
  BY <1>1 DEF SeenLines
<1> HIDE DEF m
<1>6. SeenPtrs' = SeenPtrs \cup ({m} \cap Pointers) /\ m \notin SeenPtrs
  BY <1>2, <1>3 DEF SeenPtrs
<1> QED
  BY <1>1, <1>4, <1>5, <1>6 DEF FreeNow, m

(* What the table says of a block before its next pointer is looked at.    *)
LEMMA TableSays ==
    ASSUME TableOK, NEW b \in Nat
    PROVE  /\ Index(block_hash, b) = b /\ ~Raises(block_hash, b)
           /\ At(block_hash, b) = Free <=> b \in FreeNow /\ ~Mentioned(b)
           /\ IsArray(At(block_hash, b)) <=> Mentioned(b)
           /\ Mentioned(b) /\ SeenLines = {} =>
                \E k \in SeenPtrs : Blk(k) = b /\ At(block_hash, b) = Entry1(k)
<1>1. Index(block_hash, b) = b /\ ~Raises(block_hash, b)
  BY DEF Index, Raises
<1>2. At(block_hash, b) = IF b \in DOMAIN block_hash THEN block_hash[b] ELSE Nil
  BY <1>1 DEF At
<1>3. /\ ~IsArray(Free) /\ ~IsArray(Unreferenced) /\ ~IsArray(Nil)
      /\ Free # Unreferenced /\ Free # Nil
  BY DEF IsArray, Free, Unreferenced, Nil
<1>4. CASE b \in DOMAIN block_hash
  BY <1>1, <1>2, <1>3, <1>4 DEF TableOK
<1>5. CASE b \notin DOMAIN block_hash
  <2>1. ~Mentioned(b) /\ b \notin FreeNow
    BY <1>5 DEF TableOK, Mentioned
  <2> QED
    BY <1>1, <1>2, <1>3, <1>5, <2>1
<1> QED
  BY <1>4, <1>5

(* The step of a pointer that is not 0: m is seen, the table has its entry *)
(* and the errors are those of OutOfRange and AlreadyUsed.                 *)
PointerSeen(m) ==
    /\ UNCHANGED csv
    /\ m \in Pointers \ SeenPtrs /\ Blk(m) \in Nat
    /\ SeenPtrs' = SeenPtrs \cup {m}
    /\ SeenLines = {} /\ SeenLines' = {} /\ FreeNow' = FreeNow
    /\ block_hash' = [b \in {Blk(m)} \cup DOMAIN block_hash |->
                         IF b = Blk(m) THEN Entry1(m) ELSE block_hash[b]]
    /\ err_list' = err_list \cup OutOfRange(Blk(m), Lev(m), Of(m))
                            \cup AlreadyUsed(Blk(m), Lev(m), Of(m))
    /\ section # "done" /\ section' # "done"

LEMMA PointerMentions ==
    ASSUME NEW m, PointerSeen(m)
    PROVE  /\ \A k : Blk(k)' = Blk(k) /\ Of(k)' = Of(k) /\ Lev(k)' = Lev(k)
                     /\ Entry1(k)' = Entry1(k)
           /\ \A b : Mentioned(b)' <=> Mentioned(b) \/ b = Blk(m)
           /\ \A b : Twice(b)' <=> Twice(b) \/ (b = Blk(m) /\ Mentioned(b))
<1>1. \A k : Blk(k)' = Blk(k) /\ Of(k)' = Of(k) /\ Lev(k)' = Lev(k)
             /\ Entry1(k)' = Entry1(k)
  BY DEF PointerSeen, Blk, Of, Lev, Entry1
<1>2. \A b : Mentioned(b)' <=> Mentioned(b) \/ b = Blk(m)
  BY <1>1 DEF PointerSeen, Mentioned
<1>3. \A b : Twice(b)' <=> Twice(b) \/ (b = Blk(m) /\ Mentioned(b))
  BY <1>1 DEF PointerSeen, Twice, Mentioned
<1> QED
  BY <1>1, <1>2, <1>3

LEMMA PointerTable ==
    ASSUME TableOK, NEW m, PointerSeen(m)
    PROVE  TableOK'
<1> DEFINE b0 == Blk(m)
<1>1. /\ DOMAIN block_hash' = {b0} \cup DOMAIN block_hash
      /\ block_hash'[b0] = Entry1(m)
      /\ \A b \in DOMAIN block_hash \ {b0} : block_hash'[b] = block_hash[b]
  BY DEF PointerSeen
<1>2. IsArray(Entry1(m))
  BY DEF IsArray, Entry1, Held
<1>3. csv' = csv /\ FreeNow' = FreeNow /\ SeenPtrs' = SeenPtrs \cup {m} /\ SeenLines = {}
      /\ SeenLines' = {}
  BY DEF PointerSeen
<1> HIDE DEF b0
<1>4. \A b : Mentioned(b)' <=> Mentioned(b) \/ b = b0
  BY PointerMentions DEF b0
<1>5. \A k : Blk(k)' = Blk(k) /\ Entry1(k)' = Entry1(k)
  BY PointerMentions
<1>6. ASSUME NEW b \in DOMAIN block_hash'
      PROVE  /\ b \in 0 .. csv.blocks' - 1 \/ b \in FreeNow' \/ Mentioned(b)'
             /\ ~Mentioned(b)' =>
                    block_hash'[b] = IF b \in FreeNow' THEN Free ELSE Unreferenced
             /\ Mentioned(b)' => IsArray(block_hash'[b])
             /\ Mentioned(b)' /\ SeenLines' = {} =>
                    \E k \in SeenPtrs' : Blk(k)' = b /\ block_hash'[b] = Entry1(k)'
  <2>1. CASE b = b0
    BY <1>1, <1>2, <1>3, <1>4, <1>5, <2>1 DEF b0
  <2>2. CASE b # b0
    BY <1>1, <1>3, <1>4, <1>5, <2>2 DEF TableOK
  <2> QED
    BY <2>1, <2>2
<1>7. /\ 0 .. csv'.blocks - 1 \subseteq DOMAIN block_hash'
      /\ FreeNow' \subseteq DOMAIN block_hash'
      /\ \A k \in SeenPtrs' : Blk(k)' \in DOMAIN block_hash'
      /\ \A n \in SeenLines' : Ref(n)' \in DOMAIN block_hash'
  BY <1>1, <1>3, <1>5 DEF TableOK, b0
<1> QED
  BY <1>6, <1>7 DEF TableOK, IsArray

LEMMA PointerErrors ==
    ASSUME TableOK, NEW m, PointerSeen(m)
    PROVE  /\ Mentioned(Blk(m)) =>
                \E k \in SeenPtrs :
                    /\ Blk(k) = Blk(m)
                    /\ Dups' = Dups \cup {ErrBlock("dup", Lev(m), Blk(m), Of(m), FirstOffset(Lev(m))),
                                          ErrBlock("dup", Lev(k), Blk(m), Of(k), FirstOffset(Lev(k)))}
           /\ ~Mentioned(Blk(m)) => Dups' = Dups
           /\ Outs' = Outs \cup OutOfRange(Blk(m), Lev(m), Of(m))
           /\ Alls' = Alls \cup IF Blk(m) \in FreeNow /\ ~Mentioned(Blk(m))
                                THEN {ErrFree("all_blk", Blk(m))} ELSE {}
           /\ Unrefs' = Unrefs
<1> DEFINE b0 == Blk(m)
           i == Of(m)
           l == Lev(m)
           X == OutOfRange(b0, l, i)
           Y == AlreadyUsed(b0, l, i)
<1>1. err_list' = err_list \cup X \cup Y
  BY DEF PointerSeen
<1>2. \A e \in X : e.type = "block" /\ e.flag \in {"res", "inv"}
  BY ErrorKinds DEF OutOfRange
<1>3. /\ At(block_hash, b0) = Free <=> b0 \in FreeNow /\ ~Mentioned(b0)
      /\ IsArray(At(block_hash, b0)) <=> Mentioned(b0)
      /\ Mentioned(b0) => \E k \in SeenPtrs : Blk(k) = b0 /\ At(block_hash, b0) = Entry1(k)
  BY TableSays DEF PointerSeen
<1>4. CASE Mentioned(b0)
  <2>1. PICK k \in SeenPtrs : Blk(k) = b0 /\ At(block_hash, b0) = Entry1(k)
    BY <1>3, <1>4
  <2>2. /\ Entry1(k).level = Lev(k) /\ Entry1(k).inode = Of(k)
        /\ Entry1(k).offset = FirstOffset(Lev(k))
    BY DEF Entry1, Held
  <2>3. Y = {ErrBlock("dup", l, b0, i, FirstOffset(l)),
             ErrBlock("dup", Lev(k), b0, Of(k), FirstOffset(Lev(k)))}
    BY <1>3, <1>4, <2>1, <2>2 DEF AlreadyUsed
  <2>4. \A e \in Y : e.type = "block" /\ e.flag = "dup"
    BY <2>3, ErrorKinds
  <2> HIDE DEF X, Y
  <2>5. Dups' = Dups \cup Y /\ Outs' = Outs \cup X /\ Alls' = Alls /\ Unrefs' = Unrefs
    BY <1>1, <1>2, <2>4 DEF Dups, Outs, Alls, Unrefs, Reported
  <2> QED
    BY <1>4, <2>1, <2>3, <2>5 DEF X
<1>5. CASE ~Mentioned(b0)
  <2>1. Y = IF b0 \in FreeNow THEN {ErrFree("all_blk", b0)} ELSE {}
    BY <1>3, <1>5 DEF AlreadyUsed
  <2>2. \A e \in Y : e.type = "free" /\ e.flag = "all_blk"
    BY <2>1, ErrorKinds
  <2> HIDE DEF X, Y
  <2>3. Dups' = Dups /\ Outs' = Outs \cup X /\ Alls' = Alls \cup Y /\ Unrefs' = Unrefs
    BY <1>1, <1>2, <2>2 DEF Dups, Outs, Alls, Unrefs, Reported
  <2> QED
    BY <1>5, <2>1, <2>3 DEF X
<1> QED
  BY <1>4, <1>5

LEMMA PointerDups ==
    ASSUME TableOK, DupsOK, NEW m, PointerSeen(m)
    PROVE  DupsOK'
<1> DEFINE b0 == Blk(m)
<1>1. /\ Valid' = Valid /\ SeenPtrs' = SeenPtrs \cup {m} /\ m \notin SeenPtrs
      /\ SeenLines = {} /\ SeenLines' = {}
  BY Frozen DEF PointerSeen
<1>2. /\ \A k : Blk(k)' = Blk(k) /\ Of(k)' = Of(k) /\ Lev(k)' = Lev(k)
      /\ \A b : Twice(b)' <=> Twice(b) \/ (b = b0 /\ Mentioned(b))
  BY PointerMentions
<1>3. Mentioned(b0) <=> \E k \in SeenPtrs : Blk(k) = b0
  BY <1>1 DEF Mentioned
<1>4. CASE Mentioned(b0)
  <2> DEFINE ErrOf(k) == ErrBlock("dup", Lev(k), b0, Of(k), FirstOffset(Lev(k)))
  <2>1. PICK k \in SeenPtrs : Blk(k) = b0 /\ Dups' = Dups \cup {ErrOf(m), ErrOf(k)}
    BY <1>4, PointerErrors
  <2>2. \A j : ErrOf(j).block = b0 /\ ErrOf(j).inode = Of(j) /\ ErrOf(j).level = Lev(j)
    BY ErrorKinds
  <2> HIDE DEF ErrOf, b0
  <2>3. ASSUME NEW e \in Dups'
        PROVE  /\ Twice(e.block)'
               /\ \E j \in SeenPtrs' : Blk(j)' = e.block /\ Of(j)' = e.inode
    <3>1. CASE e \in Dups
      BY <3>1, <1>1, <1>2 DEF DupsOK
    <3>2. CASE e \in {ErrOf(m), ErrOf(k)}
      BY <3>2, <2>1, <2>2, <1>1, <1>2, <1>4 DEF b0
    <3> QED
      BY <2>1, <3>1, <3>2
  <2>4. ASSUME NEW b \in Valid', Twice(b)'
        PROVE  \E e \in Dups' : e.block = b
    BY <2>1, <2>2, <2>4, <1>1, <1>2 DEF DupsOK
  <2>5. ASSUME NEW j \in SeenPtrs', NEW i \in SeenPtrs', j # i, Blk(j)' = Blk(i)'
        PROVE  \E e \in Dups' : e.block = Blk(j) /\ e.inode = Of(j) /\ e.level = Lev(j)
    <3>1. Blk(j) = Blk(i)
      BY <2>5, <1>2
    <3>2. CASE j = m
      BY <3>2, <2>1, <2>2 DEF b0
    <3>3. CASE j # m /\ i # m
      BY <3>1, <3>3, <2>1, <2>5, <1>1 DEF DupsOK
    <3>4. CASE j # m /\ i = m
      <4>1. j \in SeenPtrs /\ Blk(j) = b0
        BY <3>1, <3>4, <1>1 DEF b0
      <4>2. CASE j = k
        BY <4>1, <4>2, <2>1, <2>2
      <4>3. CASE j # k
        BY <4>1, <4>3, <2>1 DEF DupsOK
      <4> QED
        BY <4>2, <4>3
    <3> QED
      BY <3>2, <3>3, <3>4
  <2> QED
    BY <2>3, <2>4, <2>5, <1>2 DEF DupsOK
<1>5. CASE ~Mentioned(b0)
  <2>1. Dups' = Dups
    BY <1>5, PointerErrors
  <2>2. \A k \in SeenPtrs : Blk(k) # b0
    BY <1>3, <1>5
  <2>3. ASSUME NEW e \in Dups'
        PROVE  /\ Twice(e.block)'
               /\ \E j \in SeenPtrs' : Blk(j)' = e.block /\ Of(j)' = e.inode
    BY <2>1, <1>1, <1>2 DEF DupsOK
  <2>4. ASSUME NEW b \in Valid', Twice(b)'
        PROVE  \E e \in Dups' : e.block = b
    BY <2>1, <2>4, <1>1, <1>2, <1>5 DEF DupsOK
  <2>5. ASSUME NEW j \in SeenPtrs', NEW i \in SeenPtrs', j # i, Blk(j)' = Blk(i)'
        PROVE  \E e \in Dups' : e.block = Blk(j) /\ e.inode = Of(j) /\ e.level = Lev(j)
    BY <2>1, <2>2, <2>5, <1>1, <1>2 DEF DupsOK
  <2> QED
    BY <2>3, <2>4, <2>5, <1>2 DEF DupsOK
<1> QED
  BY <1>4, <1>5

LEMMA PointerOuts ==
    ASSUME OutsOK, TableOK, CsvOK, NEW m, PointerSeen(m)
    PROVE  OutsOK'
<1> DEFINE b0 == Blk(m)
           X == OutOfRange(b0, Lev(m), Of(m))
<1>1. Outs' = Outs \cup X
  BY PointerErrors
<1>2. {<<e.inode, e.block>> : e \in X} = IF b0 \in Valid THEN {} ELSE {<<Of(m), b0>>}
  <2>1. b0 \in Valid <=> ReservedBlocks < b0 /\ b0 < csv.blocks
    BY DEF PointerSeen, CsvOK, Valid
  <2>2. CASE b0 \in Valid
    BY <2>1, <2>2 DEF OutOfRange
  <2>3. CASE b0 \notin Valid
    <3>1. PICK f : X = {ErrBlock(f, Lev(m), b0, Of(m), FirstOffset(Lev(m)))}
      BY <2>1, <2>3 DEF OutOfRange
    <3> HIDE DEF X
    <3> QED
      BY <3>1, <2>3, ErrorKinds
  <2> QED
    BY <2>2, <2>3
<1>3. /\ Valid' = Valid /\ SeenPtrs' = SeenPtrs \cup {m}
      /\ SeenLines = {} /\ SeenLines' = {}
      /\ \A k : Blk(k)' = Blk(k) /\ Of(k)' = Of(k)
  BY Frozen, PointerMentions DEF PointerSeen
<1> HIDE DEF X, b0
<1>4. {<<e.inode, e.block>> : e \in Outs'}
          = {<<e.inode, e.block>> : e \in Outs} \cup {<<e.inode, e.block>> : e \in X}
  BY <1>1
<1>5. {<<Of(k), Blk(k)>> : k \in {k \in SeenPtrs \cup {m} : Blk(k) \notin Valid}}
          = {<<Of(k), Blk(k)>> : k \in {k \in SeenPtrs : Blk(k) \notin Valid}}
            \cup IF b0 \in Valid THEN {} ELSE {<<Of(m), b0>>}
  BY DEF b0
<1> QED
  BY <1>2, <1>3, <1>4, <1>5 DEF OutsOK

LEMMA PointerAlls ==
    ASSUME AllsOK, TableOK, NEW m, PointerSeen(m)
    PROVE  AllsOK'
<1> DEFINE b0 == Blk(m)
<1>1. Alls' = Alls \cup IF b0 \in FreeNow /\ ~Mentioned(b0)
                        THEN {ErrFree("all_blk", b0)} ELSE {}
  BY PointerErrors
<1>2. /\ SeenPtrs' = SeenPtrs \cup {m} /\ SeenLines = {} /\ FreeNow' = FreeNow
      /\ \A k : Blk(k)' = Blk(k)
  BY PointerMentions DEF PointerSeen
<1>3. ErrFree("all_blk", b0).element = b0
  BY ErrorKinds
<1>4. Mentioned(b0) <=> \E k \in SeenPtrs : Blk(k) = b0
  BY <1>2 DEF Mentioned
<1>5. {e.element : e \in Alls'} =
          {e.element : e \in Alls} \cup IF b0 \in FreeNow /\ ~Mentioned(b0) THEN {b0} ELSE {}
  BY <1>1, <1>3
<1>6. {b \in FreeNow : \E k \in SeenPtrs' : Blk(k)' = b} =
          {b \in FreeNow : \E k \in SeenPtrs : Blk(k) = b}
              \cup IF b0 \in FreeNow THEN {b0} ELSE {}
  BY <1>2
<1> HIDE DEF b0
<1> QED
  BY <1>2, <1>4, <1>5, <1>6 DEF AllsOK

LEMMA PointerStep ==
    ASSUME ScanOK, CsvOK, BlockInv, CheckPointer, UNCHANGED csv, exit_b' # 1
    PROVE  BlockInv'
<1> DEFINE m == <<line, num - 1>>
<1>1. section = "inode" /\ exit_b = Running /\ Running # 1
  BY DEF CheckPointer, ScanOK, Running
<1>2. CASE Blk(m) = 0
  <2>1. /\ block_hash' = block_hash /\ err_list' = err_list /\ section' = "inode"
    BY <1>1, <1>2 DEF CheckPointer, Blk
  <2>2. SeenPtrs' = SeenPtrs /\ SeenLines' = SeenLines /\ FreeNow' = FreeNow
    BY <2>1, <1>2, SeenPointer
  <2>3. Dups' = Dups /\ Outs' = Outs /\ Alls' = Alls /\ Unrefs' = Unrefs
    BY <2>1 DEF Dups, Outs, Alls, Unrefs, Reported
  <2> QED
    BY <1>1, <2>1, <2>2, <2>3, Neutral
<1>3. CASE Blk(m) # 0
  <2>1. section' \in {"inode", "done"} /\ (section' = "done" => exit_b' = 1)
    BY <1>1 DEF CheckPointer
  <2>2. section' = "inode"
    BY <2>1
  <2>seen. /\ m \in Pointers \ SeenPtrs /\ SeenPtrs' = SeenPtrs \cup {m}
        /\ SeenLines = {} /\ SeenLines' = {} /\ FreeNow' = FreeNow
    BY <2>2, <1>3, SeenPointer
  <2>4. Blk(m) \in Nat
    BY <2>seen DEF CsvOK
  <2>5. Index(block_hash, Blk(m)) = Blk(m) /\ ~Raises(block_hash, Blk(m))
    BY <2>4, TableSays DEF BlockInv
  <2>6. /\ Blk(m) = csv.inode[line].ptr[num - 1] /\ Of(m) = csv.inode[line].of
        /\ Lev(m) = Level(num - 1)
    BY DEF Blk, Of, Lev
  <2>7. /\ err_list' = err_list \cup OutOfRange(Blk(m), Lev(m), Of(m))
                                \cup AlreadyUsed(Blk(m), Lev(m), Of(m))
        /\ block_hash' = Put(block_hash, Blk(m), Held(Lev(m), Of(m), FirstOffset(Lev(m))))
    <3> HIDE DEF m
    <3> QED
      BY <1>3, <2>5, <2>6 DEF CheckPointer
  <2>8. block_hash' = [b \in {Blk(m)} \cup DOMAIN block_hash |->
                          IF b = Blk(m) THEN Entry1(m) ELSE block_hash[b]]
    BY <2>5, <2>7 DEF Put, PutAll, Entry1
  <2> HIDE DEF m
  <2>9. PointerSeen(m)
    BY <1>1, <2>2, <2>seen, <2>4, <2>7, <2>8 DEF PointerSeen
  <2>10. TableOK' /\ DupsOK' /\ OutsOK' /\ AllsOK'
    BY <2>9, PointerTable, PointerDups, PointerOuts, PointerAlls DEF BlockInv
  <2>11. UnrefsOK'
    <3>1. Unrefs' = Unrefs
      BY <2>9, PointerErrors DEF BlockInv
    <3> QED
      BY <1>1, <2>2, <3>1 DEF BlockInv, UnrefsOK
  <2> QED
    BY <2>10, <2>11 DEF BlockInv
<1> QED
  BY <1>2, <1>3

-----------------------------------------------------------------------------
(* The steps from the INODE lines to the INDIRECT lines.                   *)

LEMMA RootStep ==
    ASSUME ScanOK, CsvOK, BlockInv, SetRoot, UNCHANGED csv, exit_b' # 1
    PROVE  BlockInv'
<1>1. /\ block_hash' = block_hash /\ err_list' = err_list
      /\ section = "inode" /\ section' = "dirent" /\ line > Len(csv.inode) /\ line \in Nat
  BY DEF SetRoot, Raise, At1, ScanOK
<1>2. Pointers' = Pointers /\ Lines' = Lines /\ FreeNow' = FreeNow
  BY <1>1, Frozen DEF FreeNow
<1>3. \A m \in Pointers : Past(m) /\ Past(m)'
  <2> SUFFICES ASSUME NEW m \in Pointers PROVE Past(m) /\ Past(m)'
    OBVIOUS
  <2>1. m[1] < line
    BY <1>1, PointerFacts DEF CsvOK
  <2> QED
    BY <1>1, <2>1 DEF Past
<1>4. SeenPtrs' = SeenPtrs /\ SeenLines' = SeenLines
  BY <1>1, <1>2, <1>3 DEF SeenPtrs, SeenLines
<1>5. Dups' = Dups /\ Outs' = Outs /\ Alls' = Alls /\ Unrefs' = Unrefs
  BY <1>1 DEF Dups, Outs, Alls, Unrefs, Reported
<1> QED
  BY <1>1, <1>2, <1>4, <1>5, Neutral

(* Past the INODE lines every pointer in them has been seen.               *)
LEMMA PointersSeen ==
    /\ section \in {"dirent", "indirect", "done"} => SeenPtrs = Pointers
    /\ section' \in {"dirent", "indirect", "done"} => SeenPtrs' = Pointers'
BY DEF SeenPtrs, Past

LEMMA DirentStep ==
    ASSUME ScanOK, BlockInv, ScanDirent, UNCHANGED csv, exit_b' # 1
    PROVE  BlockInv'
<1> PICK e \in {Sorted(csv.dirent)[line]} :
        LET name == Last(e.name)
            entry == At(inode_hash, e.inode)
        IN  \/ /\ IsSymbol(entry) \/ (entry = Nil /\ e.inode > csv.inodes)
               /\ err_list' = err_list \cup
                      {ErrDir(IF IsSymbol(entry) THEN "unall" ELSE "inv", e.of, e.inode, name)}
               /\ line' = line + 1
               /\ UNCHANGED <<tables, section, num, exit_b>>
            \/ entry = Nil /\ e.inode <= csv.inodes /\ Raise
            \/ /\ IsArray(entry)
               /\ CASE name = "." -> SelfEntry(e.of, e.inode)
                    [] name = ".." /\ e.inode # inode_hash[e.of].parent -> ParentEntry(e.of, e.inode)
                    [] OTHER -> OtherEntry(e.of, e.inode)
               /\ line' = line + 1
               /\ UNCHANGED <<block_hash, section, num, exit_b>>
  BY DEF ScanDirent
<1> DEFINE entry == At(inode_hash, e.inode)
           name == Last(e.name)
           SymbolOrOutside ==
               /\ err_list' = err_list \cup
                      {ErrDir(IF IsSymbol(entry) THEN "unall" ELSE "inv", e.of, e.inode, name)}
               /\ UNCHANGED <<tables, section>>
           InTable ==
               /\ CASE name = "." -> SelfEntry(e.of, e.inode)
                    [] name = ".." /\ e.inode # inode_hash[e.of].parent -> ParentEntry(e.of, e.inode)
                    [] OTHER -> OtherEntry(e.of, e.inode)
               /\ UNCHANGED <<block_hash, section>>
<1>1. section = "dirent" /\ (SymbolOrOutside \/ InTable)
  BY DEF ScanDirent, Raise
<1> HIDE DEF entry, name
<1>2. /\ block_hash' = block_hash /\ section' = "dirent"
  BY <1>1 DEF tables
<1>3. Pointers' = Pointers /\ FreeNow' = FreeNow
  BY <1>1, <1>2, Frozen DEF FreeNow
<1>4. SeenPtrs' = SeenPtrs /\ SeenLines' = SeenLines
  BY <1>1, <1>2, <1>3, PointersSeen DEF SeenLines
<1>5. /\ err_list \subseteq err_list'
      /\ \A x \in err_list' : x \in err_list \/ x.type \in {"dir", "parent"}
  <2>1. CASE SymbolOrOutside
    <3>1. PICK x : err_list' = err_list \cup {x} /\ x.type = "dir"
      BY <2>1, ErrorKinds
    <3> QED
      BY <3>1
  <2>2. CASE InTable
    <3>1. PICK d, i : SelfEntry(d, i) \/ ParentEntry(d, i) \/ OtherEntry(d, i)
      BY <2>2
    <3>2. \/ err_list' = err_list
          \/ \E f, j, k, c : err_list' = err_list \cup {ErrParent(f, j, k, c)}
      <4>1. CASE SelfEntry(d, i)
        BY <4>1 DEF SelfEntry
      <4>2. CASE ParentEntry(d, i)
        BY <4>2 DEF ParentEntry
      <4>3. CASE OtherEntry(d, i)
        BY <4>3 DEF OtherEntry
      <4> QED
        BY <3>1, <4>1, <4>2, <4>3
    <3> QED
      BY <3>2, ErrorKinds
  <2> QED
    BY <1>1, <2>1, <2>2
<1>6. Dups' = Dups /\ Outs' = Outs /\ Alls' = Alls /\ Unrefs' = Unrefs
  <2> DEFINE X == err_list' \ err_list
  <2>1. err_list' = err_list \cup X /\ \A x \in X : x.type \in {"dir", "parent"}
    BY <1>5
  <2> HIDE DEF X
  <2> QED
    BY <2>1, OtherErrors
<1> QED
  BY <1>1, <1>2, <1>3, <1>4, <1>6, Neutral

LEMMA DirentsDoneStep ==
    ASSUME ScanOK, BlockInv, DirentsDone, UNCHANGED csv
    PROVE  BlockInv'
<1>1. /\ block_hash' = block_hash /\ err_list' = err_list
      /\ section = "dirent" /\ section' = "indirect" /\ line' = 1
  BY DEF DirentsDone, At1, tables
<1>2. Pointers' = Pointers /\ Lines' = Lines /\ FreeNow' = FreeNow
  BY <1>1, Frozen DEF FreeNow
<1>3. \A n \in Lines : ~(n < 1)
  BY DEF Lines
<1>4. SeenPtrs' = SeenPtrs /\ SeenLines' = SeenLines
  BY <1>1, <1>2, <1>3, PointersSeen DEF SeenLines
<1>5. Dups' = Dups /\ Outs' = Outs /\ Alls' = Alls /\ Unrefs' = Unrefs
  BY <1>1 DEF Dups, Outs, Alls, Unrefs, Reported
<1> QED
  BY <1>1, <1>2, <1>4, <1>5, Neutral

-----------------------------------------------------------------------------
(* The INDIRECT lines.                                                     *)

(* What is reported of a line.                                             *)
Flags(n) ==
    IF Ref(n) >= csv.blocks THEN {"inv"}
    ELSE IF Ref(n) <= ReservedBlocks THEN {"res"}
    ELSE IF IsArray(At(block_hash, Ref(n))) THEN {"dup"} ELSE {}
ErrOfLine(f, n) ==
    ErrBlock(f, csv.indirect[n].level, Ref(n), Ino(n), csv.indirect[n].offset)
Entry2(n) == Held(csv.indirect[n].level, Ino(n), csv.indirect[n].offset)

(* The step of a line: n is seen, and the table has its entry.             *)
LineSeen(n) ==
    /\ UNCHANGED csv
    /\ n \in Lines \ SeenLines /\ Ref(n) \in Nat
    /\ SeenLines' = SeenLines \cup {n} /\ SeenPtrs' = SeenPtrs /\ FreeNow' = FreeNow
    /\ block_hash' = [b \in {Ref(n)} \cup DOMAIN block_hash |->
                         IF b = Ref(n) THEN Entry2(n) ELSE block_hash[b]]
    /\ err_list' = err_list \cup {ErrOfLine(f, n) : f \in Flags(n)}
    /\ section # "done" /\ section' # "done"

LEMMA LineMentions ==
    ASSUME NEW n, LineSeen(n)
    PROVE  /\ \A k : Blk(k)' = Blk(k) /\ Of(k)' = Of(k) /\ Lev(k)' = Lev(k)
                     /\ Entry1(k)' = Entry1(k) /\ Ref(k)' = Ref(k) /\ Ino(k)' = Ino(k)
           /\ \A b : Mentioned(b)' <=> Mentioned(b) \/ b = Ref(n)
           /\ \A b : Twice(b)' <=> Twice(b) \/ (b = Ref(n) /\ Mentioned(b))
<1>1. \A k : Blk(k)' = Blk(k) /\ Of(k)' = Of(k) /\ Lev(k)' = Lev(k)
             /\ Entry1(k)' = Entry1(k) /\ Ref(k)' = Ref(k) /\ Ino(k)' = Ino(k)
  BY DEF LineSeen, Blk, Of, Lev, Entry1, Ref, Ino
<1>2. \A b : Mentioned(b)' <=> Mentioned(b) \/ b = Ref(n)
  BY <1>1 DEF LineSeen, Mentioned
<1>3. \A b : Twice(b)' <=> Twice(b) \/ (b = Ref(n) /\ Mentioned(b))
  BY <1>1 DEF LineSeen, Twice, Mentioned
<1> QED
  BY <1>1, <1>2, <1>3

LEMMA LineTable ==
    ASSUME TableOK, NEW n, LineSeen(n)
    PROVE  TableOK'
<1> DEFINE b0 == Ref(n)
<1>1. /\ DOMAIN block_hash' = {b0} \cup DOMAIN block_hash
      /\ block_hash'[b0] = Entry2(n)
      /\ \A b \in DOMAIN block_hash \ {b0} : block_hash'[b] = block_hash[b]
  BY DEF LineSeen
<1>2. IsArray(Entry2(n))
  BY DEF IsArray, Entry2, Held
<1>3. /\ csv' = csv /\ FreeNow' = FreeNow /\ SeenPtrs' = SeenPtrs
      /\ SeenLines' = SeenLines \cup {n} /\ SeenLines' # {}
  BY DEF LineSeen
<1>4. /\ \A b : Mentioned(b)' <=> Mentioned(b) \/ b = b0
      /\ \A k : Blk(k)' = Blk(k) /\ Ref(k)' = Ref(k)
  BY LineMentions
<1>5. ASSUME NEW b \in DOMAIN block_hash'
      PROVE  /\ b \in 0 .. csv.blocks' - 1 \/ b \in FreeNow' \/ Mentioned(b)'
             /\ ~Mentioned(b)' =>
                    block_hash'[b] = IF b \in FreeNow' THEN Free ELSE Unreferenced
             /\ Mentioned(b)' => IsArray(block_hash'[b])
  <2> HIDE DEF b0
  <2>1. CASE b = b0
    BY <1>1, <1>2, <1>4, <2>1
  <2>2. CASE b # b0
    BY <1>1, <1>3, <1>4, <2>2 DEF TableOK
  <2> QED
    BY <2>1, <2>2
<1>6. /\ 0 .. csv'.blocks - 1 \subseteq DOMAIN block_hash'
      /\ FreeNow' \subseteq DOMAIN block_hash'
      /\ \A k \in SeenPtrs' : Blk(k)' \in DOMAIN block_hash'
      /\ \A k \in SeenLines' : Ref(k)' \in DOMAIN block_hash'
  BY <1>1, <1>3, <1>4 DEF TableOK
<1> QED
  BY <1>3, <1>5, <1>6 DEF TableOK, IsArray

LEMMA LineErrors ==
    ASSUME TableOK, CsvOK, NEW n, LineSeen(n)
    PROVE  /\ Dups' = Dups \cup IF Ref(n) \in Valid /\ Mentioned(Ref(n))
                                THEN {ErrOfLine("dup", n)} ELSE {}
           /\ \/ Ref(n) \in Valid /\ Outs' = Outs
              \/ Ref(n) \notin Valid /\ \E f : Outs' = Outs \cup {ErrOfLine(f, n)}
           /\ Alls' = Alls /\ Unrefs' = Unrefs
<1> DEFINE X == {ErrOfLine(f, n) : f \in Flags(n)}
<1>1. err_list' = err_list \cup X
  BY DEF LineSeen
<1>2. IsArray(At(block_hash, Ref(n))) <=> Mentioned(Ref(n))
  BY TableSays DEF LineSeen
<1>3. Ref(n) \in Valid <=> ReservedBlocks < Ref(n) /\ Ref(n) < csv.blocks
  BY DEF LineSeen, CsvOK, Valid
<1>4. \/ Ref(n) \notin Valid /\ Flags(n) = {"inv"}
      \/ Ref(n) \notin Valid /\ Flags(n) = {"res"}
      \/ Ref(n) \in Valid /\ Flags(n) = IF Mentioned(Ref(n)) THEN {"dup"} ELSE {}
  BY <1>2, <1>3 DEF Flags, LineSeen, CsvOK
<1>5. \A f : ErrOfLine(f, n).type = "block" /\ ErrOfLine(f, n).flag = f
  BY ErrorKinds DEF ErrOfLine
<1>6. ASSUME NEW f \in {"inv", "res"}, Flags(n) = {f}, Ref(n) \notin Valid
      PROVE  Dups' = Dups /\ Outs' = Outs \cup {ErrOfLine(f, n)} /\ Alls' = Alls
             /\ Unrefs' = Unrefs
  <2>1. err_list' = err_list \cup {ErrOfLine(f, n)}
    BY <1>1, <1>6
  <2> QED
    BY <2>1, <1>5 DEF Dups, Outs, Alls, Unrefs, Reported
<1>7. ASSUME Flags(n) = {"dup"}
      PROVE  Dups' = Dups \cup {ErrOfLine("dup", n)} /\ Outs' = Outs /\ Alls' = Alls
             /\ Unrefs' = Unrefs
  <2>1. err_list' = err_list \cup {ErrOfLine("dup", n)}
    BY <1>1, <1>7
  <2> QED
    BY <2>1, <1>5 DEF Dups, Outs, Alls, Unrefs, Reported
<1>8. ASSUME Flags(n) = {}
      PROVE  Dups' = Dups /\ Outs' = Outs /\ Alls' = Alls /\ Unrefs' = Unrefs
  <2>1. err_list' = err_list
    BY <1>1, <1>8
  <2> QED
    BY <2>1 DEF Dups, Outs, Alls, Unrefs, Reported
<1> QED
  BY <1>4, <1>6, <1>7, <1>8

LEMMA LineDups ==
    ASSUME TableOK, CsvOK, DupsOK, NEW n, LineSeen(n)
    PROVE  DupsOK'
<1>1. /\ Valid' = Valid /\ SeenPtrs' = SeenPtrs /\ SeenLines' = SeenLines \cup {n}
      /\ n \notin SeenLines
  BY Frozen DEF LineSeen
<1>2. /\ \A k : /\ Blk(k)' = Blk(k) /\ Of(k)' = Of(k) /\ Lev(k)' = Lev(k)
                /\ Ref(k)' = Ref(k) /\ Ino(k)' = Ino(k)
      /\ \A b : Twice(b)' <=> Twice(b) \/ (b = Ref(n) /\ Mentioned(b))
  BY LineMentions
<1> DEFINE d == ErrOfLine("dup", n)
<1>3. Dups' = Dups \cup IF Ref(n) \in Valid /\ Mentioned(Ref(n)) THEN {d} ELSE {}
  BY LineErrors
<1>4. d.block = Ref(n) /\ d.inode = Ino(n)
  BY ErrorKinds DEF ErrOfLine
<1> HIDE DEF d
<1>5. ASSUME NEW e \in Dups'
      PROVE  /\ Twice(e.block)'
             /\ \/ \E m \in SeenPtrs' : Blk(m)' = e.block /\ Of(m)' = e.inode
                \/ \E k \in SeenLines' : Ref(k)' = e.block /\ Ino(k)' = e.inode
  <2>1. CASE e \in Dups
    BY <2>1, <1>1, <1>2 DEF DupsOK
  <2>2. CASE e = d /\ Mentioned(Ref(n))
    BY <2>2, <1>1, <1>2, <1>4
  <2> QED
    BY <1>3, <2>1, <2>2
<1>6. ASSUME NEW b \in Valid', Twice(b)'
      PROVE  \E e \in Dups' : e.block = b
  <2>1. CASE Twice(b)
    BY <2>1, <1>1, <1>3 DEF DupsOK
  <2>2. CASE b = Ref(n) /\ Mentioned(b)
    BY <2>2, <1>1, <1>3, <1>4
  <2> QED
    BY <1>2, <1>6, <2>1, <2>2
<1>7. ASSUME NEW j \in SeenPtrs', NEW i \in SeenPtrs', j # i, Blk(j)' = Blk(i)'
      PROVE  \E e \in Dups' : e.block = Blk(j) /\ e.inode = Of(j) /\ e.level = Lev(j)
  <2>1. Blk(j) = Blk(i) /\ Dups \subseteq Dups'
    BY <1>2, <1>3, <1>7
  <2> QED
    BY <1>1, <1>7, <2>1 DEF DupsOK
<1> QED
  BY <1>2, <1>5, <1>6, <1>7 DEF DupsOK

LEMMA LineOuts ==
    ASSUME TableOK, CsvOK, OutsOK, NEW n, LineSeen(n)
    PROVE  OutsOK'
<1>1. /\ Valid' = Valid /\ SeenPtrs' = SeenPtrs /\ SeenLines' = SeenLines \cup {n}
  BY Frozen DEF LineSeen
<1>2. \A k : Blk(k)' = Blk(k) /\ Of(k)' = Of(k) /\ Ref(k)' = Ref(k) /\ Ino(k)' = Ino(k)
  BY LineMentions
<1>3. PICK f : \/ Ref(n) \in Valid /\ Outs' = Outs
               \/ Ref(n) \notin Valid /\ Outs' = Outs \cup {ErrOfLine(f, n)}
  BY LineErrors
<1>4. ErrOfLine(f, n).block = Ref(n) /\ ErrOfLine(f, n).inode = Ino(n)
  BY ErrorKinds DEF ErrOfLine
<1>5. {<<e.inode, e.block>> : e \in Outs'} = {<<e.inode, e.block>> : e \in Outs}
          \cup IF Ref(n) \in Valid THEN {} ELSE {<<Ino(n), Ref(n)>>}
  BY <1>3, <1>4
<1>6. {<<Ino(k), Ref(k)>> : k \in {k \in SeenLines \cup {n} : Ref(k) \notin Valid}}
          = {<<Ino(k), Ref(k)>> : k \in {k \in SeenLines : Ref(k) \notin Valid}}
            \cup IF Ref(n) \in Valid THEN {} ELSE {<<Ino(n), Ref(n)>>}
  OBVIOUS
<1> QED
  BY <1>1, <1>2, <1>5, <1>6 DEF OutsOK

LEMMA IndirectStep ==
    ASSUME ScanOK, CsvOK, BlockInv, ScanIndirect, UNCHANGED csv
    PROVE  BlockInv'
<1> DEFINE n == line
<1>1. /\ section = "indirect" /\ section' = "indirect" /\ line' = line + 1
      /\ n \in Lines
  BY DEF ScanIndirect, ScanOK, Lines, CsvOK
<1>2. Ref(n) \in Nat
  BY <1>1 DEF CsvOK
<1>3. SeenPtrs' = SeenPtrs /\ FreeNow' = FreeNow
  BY <1>1, Frozen, PointersSeen DEF FreeNow
<1>4. SeenLines' = SeenLines \cup {n} /\ n \notin SeenLines
  <2>1. n \in Int /\ \A k \in Lines : k \in Int
    BY <1>1 DEF Lines
  <2>2. \A k \in Lines : (k < line' <=> k < line \/ k = n) /\ ~(n < n)
    BY <1>1, <2>1
  <2>3. Lines' = Lines
    BY Frozen
  <2> QED
    BY <1>1, <2>2, <2>3 DEF SeenLines
<1>5. Index(block_hash, Ref(n)) = Ref(n)
  BY <1>2, TableSays DEF BlockInv
<1>6. block_hash' = [b \in {Ref(n)} \cup DOMAIN block_hash |->
                         IF b = Ref(n) THEN Entry2(n) ELSE block_hash[b]]
  BY <1>5 DEF ScanIndirect, Put, PutAll, Entry2, Ref, Ino
<1>7. err_list' = err_list \cup {ErrOfLine(f, n) : f \in Flags(n)}
  BY DEF ScanIndirect, ErrOfLine, Flags, Ref, Ino
<1> HIDE DEF n
<1>8. LineSeen(n)
  BY <1>1, <1>2, <1>3, <1>4, <1>6, <1>7 DEF LineSeen
<1>9. TableOK' /\ DupsOK' /\ OutsOK'
  BY <1>8, LineTable, LineDups, LineOuts DEF BlockInv
<1>10. Alls' = Alls /\ Unrefs' = Unrefs /\ \A k : Blk(k)' = Blk(k)
  BY <1>8, LineErrors, LineMentions DEF BlockInv
<1>11. AllsOK' /\ UnrefsOK'
  BY <1>1, <1>3, <1>10 DEF BlockInv, AllsOK, UnrefsOK
<1> QED
  BY <1>9, <1>11 DEF BlockInv

-----------------------------------------------------------------------------
(* The end.                                                                *)

(* What the table says at the end of a block that nothing refers to.       *)
LEMMA LeftOver ==
    ASSUME TableOK, CsvOK, FreeNow = ToSet(csv.bfree)
    PROVE  {b \in DOMAIN block_hash : b > ReservedBlocks /\ block_hash[b] = Unreferenced}
               = {b \in Valid : ~Mentioned(b) /\ b \notin FreeNow}
<1>1. ASSUME NEW b
      PROVE  (b \in DOMAIN block_hash /\ b > ReservedBlocks /\ block_hash[b] = Unreferenced)
                 <=> (b \in Valid /\ ~Mentioned(b) /\ b \notin FreeNow)
  <2>1. ~IsArray(Unreferenced) /\ Free # Unreferenced
    BY DEF IsArray, Unreferenced, Free
  <2>2. b \in DOMAIN block_hash /\ block_hash[b] = Unreferenced
            <=> b \in 0 .. csv.blocks - 1 /\ ~Mentioned(b) /\ b \notin FreeNow
    BY <2>1 DEF TableOK
  <2>3. b \in 0 .. csv.blocks - 1 /\ b > ReservedBlocks <=> b \in Valid
    BY DEF CsvOK, Valid
  <2> QED
    BY <2>2, <2>3
<1> QED
  BY <1>1

LEMMA ConcludeStep ==
    ASSUME ScanOK, CsvOK, BlockInv, Conclude, UNCHANGED csv
    PROVE  BlockInv'
<1>1. /\ block_hash' = block_hash /\ section = "indirect" /\ section' = "done"
      /\ err_list' = err_list \cup UnreferencedBlocks \cup InodeErrors
      /\ line > Len(csv.indirect) /\ line \in Nat
  BY DEF Conclude, tables, ScanOK
<1>2. Pointers' = Pointers /\ Lines' = Lines /\ FreeNow' = FreeNow /\ FreeNow = ToSet(csv.bfree)
  BY <1>1, Frozen DEF FreeNow
<1>3. \A n \in Lines : n < line
  BY <1>1 DEF Lines, CsvOK
<1>4. SeenPtrs' = SeenPtrs /\ SeenLines' = SeenLines
  BY <1>1, <1>2, <1>3, PointersSeen DEF SeenLines
<1>5. UnreferencedBlocks = {ErrUnref(b) : b \in {b \in Valid : ~Mentioned(b) /\ b \notin FreeNow}}
  BY <1>2, LeftOver DEF UnreferencedBlocks, BlockInv
<1>6. \A e \in UnreferencedBlocks : e.type = "unref"
  BY ErrorKinds DEF UnreferencedBlocks
<1>7. \A e \in InodeErrors : \/ e.type = "free" /\ e.flag = "unall_ino"
                             \/ e.type = "link"
  BY ErrorKinds DEF InodeErrors
<1>8. Dups' = Dups /\ Outs' = Outs /\ Alls' = Alls
  BY <1>1, <1>6, <1>7 DEF Dups, Outs, Alls, Reported
<1>9. UnrefsOK'
  <2>1. Unrefs = {}
    BY <1>1 DEF BlockInv, UnrefsOK
  <2>2. Unrefs' = UnreferencedBlocks
    BY <1>1, <1>6, <1>7, <2>1 DEF Unrefs
  <2>3. {e.block : e \in UnreferencedBlocks} = {b \in Valid : ~Mentioned(b) /\ b \notin FreeNow}
    BY <1>5, ErrorKinds
  <2>4. Valid' = Valid /\ \A b : Mentioned(b)' <=> Mentioned(b)
    BY <1>4, Frozen DEF Mentioned, Blk, Ref
  <2> QED
    BY <1>1, <1>2, <2>2, <2>3, <2>4 DEF UnrefsOK
<1> QED
  BY <1>1, <1>2, <1>4, <1>8, <1>9, NothingNew DEF BlockInv

-----------------------------------------------------------------------------
(* The invariant.                                                          *)

LEMMA CheckStep ==
    ASSUME CheckInv, [Next]_vars
    PROVE  CheckInv'
<1>1. CASE section = "header" /\ UNCHANGED checkerVars
  <2>1. ScanOK'
    BY <1>1 DEF CheckInv, ScanOK, checkerVars, position
  <2> QED
    BY <1>1, <2>1 DEF CheckInv, checkerVars, position
<1>2. CASE CheckerNext /\ UNCHANGED <<disk, csv, step>>
  <2>1. ScanOK'
    BY <1>2, ScanStep DEF CheckInv
  <2>2. ASSUME CsvOK', exit_b' # 1
        PROVE  BlockInv'
    <3>1. ScanOK /\ CsvOK /\ UNCHANGED csv
      BY <1>2, <2>2, Frozen DEF CheckInv
    <3>2. section # "done"
      BY <1>2 DEF CheckerNext, ScanHeader, ScanBfree, ScanIfree, InodeLineStart, CheckPointer,
                  SetRoot, ScanDirent, DirentsDone, ScanIndirect, Conclude
    <3>3. section # "header" => BlockInv
      BY <3>1, <3>2 DEF CheckInv, ScanOK, Running
    <3>4. CASE ScanHeader
      BY <2>2, <3>1, <3>4, HeaderStep
    <3>5. CASE ScanBfree
      <4>1. section # "header"
        BY <3>5 DEF ScanBfree
      <4> QED
        BY <3>1, <3>3, <3>5, <4>1, BfreeStep
    <3>6. CASE ScanIfree
      <4>1. section # "header"
        BY <3>6 DEF ScanIfree
      <4> QED
        BY <3>1, <3>3, <3>6, <4>1, IfreeStep
    <3>7. CASE InodeLineStart
      <4>1. section # "header"
        BY <3>7 DEF InodeLineStart
      <4> QED
        BY <3>1, <3>3, <3>7, <4>1, LineStartStep
    <3>8. CASE CheckPointer
      <4>1. section # "header"
        BY <3>8 DEF CheckPointer
      <4> QED
        BY <2>2, <3>1, <3>3, <3>8, <4>1, PointerStep
    <3>9. CASE SetRoot
      <4>1. section # "header"
        BY <3>9 DEF SetRoot
      <4> QED
        BY <2>2, <3>1, <3>3, <3>9, <4>1, RootStep
    <3>10. CASE ScanDirent
      <4>1. section # "header"
        BY <3>10 DEF ScanDirent
      <4> QED
        BY <2>2, <3>1, <3>3, <3>10, <4>1, DirentStep
    <3>11. CASE DirentsDone
      <4>1. section # "header"
        BY <3>11 DEF DirentsDone
      <4> QED
        BY <3>1, <3>3, <3>11, <4>1, DirentsDoneStep
    <3>12. CASE ScanIndirect
      <4>1. section # "header"
        BY <3>12 DEF ScanIndirect
      <4> QED
        BY <3>1, <3>3, <3>12, <4>1, IndirectStep
    <3>13. CASE Conclude
      <4>1. section # "header"
        BY <3>13 DEF Conclude
      <4> QED
        BY <3>1, <3>3, <3>13, <4>1, ConcludeStep
    <3> QED
      BY <1>2, <3>4, <3>5, <3>6, <3>7, <3>8, <3>9, <3>10, <3>11, <3>12, <3>13 DEF CheckerNext
  <2> QED
    BY <2>1, <2>2 DEF CheckInv
<1>3. CASE UNCHANGED checkerVars /\ UNCHANGED <<disk, csv, step>>
  <2>1. ScanOK'
    BY <1>3 DEF CheckInv, ScanOK, checkerVars, position
  <2>2. BlockInv => BlockInv'
    <3>1. /\ Pointers' = Pointers /\ Lines' = Lines /\ FreeNow' = FreeNow
          /\ section' = section /\ line' = line /\ num' = num
          /\ block_hash' = block_hash /\ err_list' = err_list /\ csv' = csv
      BY <1>3, Frozen DEF checkerVars, position, tables, FreeNow
    <3>2. SeenPtrs' = SeenPtrs /\ SeenLines' = SeenLines
      BY <3>1 DEF SeenPtrs, SeenLines, Past
    <3>3. Dups' = Dups /\ Outs' = Outs /\ Alls' = Alls /\ Unrefs' = Unrefs /\ Valid' = Valid
      BY <3>1, Frozen DEF Dups, Outs, Alls, Unrefs, Reported
    <3>4. UnrefsOK => UnrefsOK'
      BY <3>1, <3>2, <3>3 DEF UnrefsOK, Mentioned, Blk, Ref
    <3> QED
      BY <3>1, <3>2, <3>3, <3>4, NothingNew DEF BlockInv
  <2>3. CsvOK' => CsvOK
    BY <1>3, Frozen
  <2> QED
    BY <1>3, <2>1, <2>2, <2>3 DEF CheckInv, checkerVars, position
<1> QED
  BY <1>1, <1>2, <1>3, StepKinds DEF CheckInv

LEMMA CheckInvariant == Spec => []CheckInv
<1>1. Init => CheckInv
  BY ScanInit DEF Init, CheckerInit, CheckInv
<1>2. CheckInv /\ [Next]_vars => CheckInv'
  BY CheckStep
<1> QED
  BY <1>1, <1>2, PTL DEF Spec

-----------------------------------------------------------------------------
(* What is on the disk is finite.                                          *)

LEMMA FiniteImage ==
    ASSUME NEW S, IsFiniteSet(S), NEW f, S = DOMAIN f
    PROVE  IsFiniteSet({f[x] : x \in S})
<1> DEFINE T == {f[x] : x \in S}
           g == [x \in S |-> f[x]]
<1>1. g \in Surjection(S, T)
  BY DEF Surjection
<1> HIDE DEF g, T
<1>2. IsFiniteSet(T)
  BY <1>1, FS_Surjection
<1> QED
  BY <1>2 DEF T

LEMMA FiniteFunctions ==
    ASSUME NEW A, IsFiniteSet(A), NEW B, IsFiniteSet(B)
    PROVE  IsFiniteSet([A -> B])
<1> DEFINE Graph(f) == {<<a, f[a]>> : a \in A}
           g == [f \in [A -> B] |-> Graph(f)]
<1>1. ASSUME NEW f \in [A -> B] PROVE Graph(f) \in SUBSET (A \X B)
  OBVIOUS
<1>2. ASSUME NEW f \in [A -> B], NEW h \in [A -> B], Graph(f) = Graph(h)
      PROVE  f = h
  <2>1. ASSUME NEW a \in A PROVE f[a] = h[a]
    <3>1. <<a, f[a]>> \in Graph(h)
      BY <1>2
    <3>2. PICK b \in A : <<a, f[a]>> = <<b, h[b]>>
      BY <3>1
    <3> QED
      BY <3>2
  <2> QED
    BY <2>1
<1> HIDE DEF Graph
<1>3. g \in Injection([A -> B], SUBSET (A \X B))
  BY <1>1, <1>2 DEF Injection, IsInjective
<1> HIDE DEF g
<1>4. IsFiniteSet(SUBSET (A \X B))
  BY FS_Product, FS_SUBSET
<1> QED
  BY <1>3, <1>4, FS_Injection

LEMMA RefsFinite ==
    ASSUME Image
    PROVE  IsFiniteSet(Refs) /\ IsFiniteSet(InUse)
<1> DEFINE Below(m) == [1 .. m -> 0 .. PerBlock - 1]
           Tails(s) == UNION {Below(m) : m \in 0 .. Level(s)}
           From(s) == {<<s>> \o p : p \in Tails(s)}
<1>1. IsFiniteSet(InUse)
  <2>1. disk.inodes \in Nat
    BY ImageNumbers
  <2>2. IsFiniteSet(1 .. disk.inodes) /\ InUse \in SUBSET (1 .. disk.inodes)
    BY <2>1, FS_Interval DEF InUse
  <2> QED
    BY <2>2, FS_Subset
<1>2. IsFiniteSet(Slot) /\ IsFiniteSet(0 .. PerBlock - 1)
  BY ImageAssumption, FS_Interval DEF Slot
<1>3. ASSUME NEW s \in Slot PROVE IsFiniteSet(From(s))
  <2>1. Level(s) \in Nat
    BY ImageAssumption DEF Level, Slot
  <2>2. \A m \in 0 .. Level(s) : IsFiniteSet(Below(m))
    <3> SUFFICES ASSUME NEW m \in 0 .. Level(s) PROVE IsFiniteSet(Below(m))
      OBVIOUS
    <3>1. IsFiniteSet(1 .. m)
      BY <2>1, FS_Interval
    <3> QED
      BY <3>1, <1>2, FiniteFunctions
  <2> HIDE DEF Below
  <2>3. IsFiniteSet({Below(m) : m \in 0 .. Level(s)})
    <3> DEFINE f == [m \in 0 .. Level(s) |-> Below(m)]
    <3>1. IsFiniteSet(0 .. Level(s))
      BY <2>1, FS_Interval
    <3>2. IsFiniteSet({f[m] : m \in 0 .. Level(s)})
      BY <3>1, FiniteImage
    <3>3. {f[m] : m \in 0 .. Level(s)} = {Below(m) : m \in 0 .. Level(s)}
      OBVIOUS
    <3> QED
      BY <3>2, <3>3
  <2>4. IsFiniteSet(Tails(s))
    BY <2>2, <2>3, FS_UNION
  <2> DEFINE f == [p \in Tails(s) |-> <<s>> \o p]
  <2>5. IsFiniteSet({f[p] : p \in Tails(s)})
    <3> HIDE DEF Tails
    <3> QED
      BY <2>4, FiniteImage
  <2>6. {f[p] : p \in Tails(s)} = From(s)
    OBVIOUS
  <2> QED
    BY <2>5, <2>6
<1> HIDE DEF Tails, From, Below
<1>4. IsFiniteSet(Paths)
  <2> DEFINE f == [s \in Slot |-> From(s)]
  <2>1. IsFiniteSet({f[s] : s \in Slot})
    BY <1>2, FiniteImage
  <2>2. {f[s] : s \in Slot} = {From(s) : s \in Slot}
    OBVIOUS
  <2>3. IsFiniteSet(UNION {From(s) : s \in Slot})
    BY <1>3, <2>1, <2>2, FS_UNION
  <2>4. Paths = UNION {From(s) : s \in Slot}
    BY DEF Paths, From, Tails, Below
  <2> QED
    BY <2>3, <2>4
<1>5. IsFiniteSet(InUse \X Paths) /\ Refs \in SUBSET (InUse \X Paths)
  BY <1>1, <1>4, FS_Product DEF Refs
<1> QED
  BY <1>1, <1>5, FS_Subset

-----------------------------------------------------------------------------
(* The pointers in the lines are those on the disk.                        *)

Target(r) == BlockAt(r[1], r[2])
Complete == Image /\ SummaryOK /\ WithinReach

LEMMA InodeLines ==
    ASSUME Complete
    PROVE  /\ Len(csv.inode) \in Nat
           /\ \A n \in 1 .. Len(csv.inode) :
                  LET i == csv.inode[n].of
                  IN  /\ i \in InUse /\ csv.inode[n].type = Inode(i).type
                      /\ csv.inode[n].links = Inode(i).links
                      /\ Inode(i).type # "s" => csv.inode[n].ptr = Inode(i).ptr
           /\ \A i \in InUse : \E n \in 1 .. Len(csv.inode) : csv.inode[n].of = i
           /\ \A n, k \in 1 .. Len(csv.inode) : csv.inode[n].of = csv.inode[k].of => n = k
<1> DEFINE L == {InodeLineOf(i) : i \in InUse}
           D == 1 .. Len(csv.inode)
           f == [n \in D |-> csv.inode[n].of]
<1>1. csv.inode \in Seq(L)
  BY DEF Complete, SummaryOK
<1>2. \A i \in InUse : /\ InodeLineOf(i).of = i /\ InodeLineOf(i).type = Inode(i).type
                       /\ InodeLineOf(i).links = Inode(i).links
                       /\ Inode(i).type # "s" => InodeLineOf(i).ptr = Inode(i).ptr
  BY DEF InodeLineOf, InodeLine
<1> HIDE DEF L
<1>3. Len(csv.inode) \in Nat /\ D = DOMAIN csv.inode /\ \A n \in D : csv.inode[n] \in L
  BY <1>1
<1>4. {csv.inode[n].of : n \in D} = InUse /\ Len(csv.inode) = Cardinality(InUse)
  BY <1>3 DEF Complete, SummaryOK
<1>5. IsFiniteSet(D) /\ Cardinality(D) = Len(csv.inode)
  BY <1>3, FS_Interval
<1> HIDE DEF D
<1>6. f \in Surjection(D, InUse)
  BY <1>4 DEF Surjection
<1>7. f \in Injection(D, InUse)
  BY <1>4, <1>5, <1>6, FS_Surjection
<1>8. \A n, k \in D : csv.inode[n].of = csv.inode[k].of => n = k
  BY <1>7 DEF Injection, IsInjective
<1> QED
  BY <1>2, <1>3, <1>4, <1>8 DEF D, L

LEMMA CompleteIsOK ==
    ASSUME Complete
    PROVE  CsvOK
<1>1. /\ csv.blocks \in Nat /\ csv.inodes \in Nat /\ csv.group[1].inode_table \in Nat
  BY ImageNumbers DEF Complete, SummaryOK, WithinReach
<1>2. ReservedBlocks \in Int /\ ReservedBlocks >= -1
  <2>1. InodeTableSize \in Nat
    BY <1>1 DEF InodeTableSize
  <2> QED
    BY <1>1, <2>1 DEF ReservedBlocks
<1>3. Len(csv.indirect) \in Nat /\ \A n \in Lines : Ref(n) \in Nat
  <2> DEFINE R == [of : Nat, level : 1 .. 3, offset : Nat, block : Nat, ref : Nat]
  <2>1. csv.indirect \in Seq(R)
    BY DEF Complete, SummaryOK
  <2>2. \A l \in R : l.ref \in Nat
    OBVIOUS
  <2> HIDE DEF R
  <2> QED
    BY <2>1, <2>2 DEF Lines, Ref
<1>4. Len(csv.inode) \in Nat
  BY InodeLines
<1>5. ASSUME NEW m \in Pointers PROVE Blk(m) \in Nat
  <2> DEFINE i == csv.inode[m[1]].of
  <2>1. m[1] \in 1 .. Len(csv.inode) /\ m[2] \in Slot /\ csv.inode[m[1]].type # "s"
    BY PointerFacts
  <2>2. i \in InUse /\ csv.inode[m[1]].ptr = Inode(i).ptr
    BY <2>1, InodeLines
  <2>3. Inode(i).ptr[m[2]] \in Nat
    BY <2>1, <2>2 DEF Complete, WithinReach
  <2> QED
    BY <2>2, <2>3 DEF Blk
<1> QED
  BY <1>1, <1>2, <1>3, <1>4, <1>5 DEF CsvOK

(* A reference in an inode is one slot.                                    *)
LEMMA DirectPaths ==
    /\ \A s \in Slot : <<s>> \in Paths /\ Len(<<s>>) = 1 /\ <<s>>[1] = s
    /\ \A p \in Paths : Len(p) = 1 => p[1] \in Slot /\ p = <<p[1]>>
<1>1. ASSUME NEW s \in Slot PROVE <<s>> \in Paths
  <2>1. <<>> \in [1 .. 0 -> 0 .. PerBlock - 1] /\ 0 \in 0 .. Level(s)
    BY ImageAssumption DEF Level, Slot
  <2>2. <<s>> \o <<>> = <<s>>
    OBVIOUS
  <2> DEFINE Tails == UNION {[1 .. m -> 0 .. PerBlock - 1] : m \in 0 .. Level(s)}
  <2>3. <<>> \in Tails
    BY <2>1
  <2>4. <<s>> \in {<<s>> \o p : p \in Tails}
    BY <2>2, <2>3
  <2> QED
    BY <2>4 DEF Paths
<1>2. ASSUME NEW p \in Paths, Len(p) = 1 PROVE p[1] \in Slot /\ p = <<p[1]>>
  <2>1. PICK s \in Slot : \E m \in 0 .. Level(s) : \E q \in [1 .. m -> 0 .. PerBlock - 1] :
            p = <<s>> \o q
    BY DEF Paths
  <2>2. PICK m \in 0 .. Level(s) : \E q \in [1 .. m -> 0 .. PerBlock - 1] :
            p = <<s>> \o q
    BY <2>1
  <2>3. PICK q \in [1 .. m -> 0 .. PerBlock - 1] : p = <<s>> \o q
    BY <2>2
  <2>4. m \in Nat /\ q \in Seq(Int) /\ s \in Int /\ Len(q) = m
    BY <2>2, <2>3, ImageAssumption DEF Level, Slot
  <2>5. m = 0
    BY <1>2, <2>3, <2>4
  <2>6. p[1] = s /\ p = <<s>>
    BY <2>3, <2>4, <2>5
  <2> QED
    BY <2>6
<1> QED
  BY <1>1, <1>2

(* A pointer in an INODE line is a reference.                              *)
RefOf(m) == <<Of(m), <<m[2]>>>>

LEMMA SameDirect ==
    ASSUME Complete
    PROVE  /\ \A m \in Pointers : /\ RefOf(m) \in Refs /\ Direct(RefOf(m))
                                  /\ RefOf(m)[1] = Of(m) /\ Target(RefOf(m)) = Blk(m)
                                  /\ Level(RefOf(m)[2][1]) = Lev(m)
           /\ \A r \in Refs : Direct(r) => \E m \in Pointers : r = RefOf(m)
           /\ \A m, k \in Pointers : RefOf(m) = RefOf(k) => m = k
<1>1. \A i, s : BlockAt(i, <<s>>) = Inode(i).ptr[s]
  BY DEF BlockAt
<1>2. ASSUME NEW m \in Pointers
      PROVE  /\ RefOf(m) \in Refs /\ Direct(RefOf(m))
             /\ RefOf(m)[1] = Of(m) /\ Target(RefOf(m)) = Blk(m)
             /\ Level(RefOf(m)[2][1]) = Lev(m)
  <2>1. m[1] \in 1 .. Len(csv.inode) /\ m[2] \in Slot /\ Blk(m) # 0
        /\ csv.inode[m[1]].type # "s"
    BY PointerFacts
  <2>2. /\ Of(m) \in InUse /\ Inode(Of(m)).type # "s"
        /\ csv.inode[m[1]].ptr = Inode(Of(m)).ptr
    BY <2>1, InodeLines DEF Of
  <2>path. <<m[2]>> \in Paths /\ Len(<<m[2]>>) = 1 /\ <<m[2]>>[1] = m[2]
    BY <2>1, DirectPaths
  <2>4. RefOf(m)[1] = Of(m) /\ RefOf(m)[2] = <<m[2]>> /\ RefOf(m) \in InUse \X Paths
    BY <2>2, <2>path DEF RefOf
  <2>5. BlockAt(Of(m), <<m[2]>>) = Blk(m)
    BY <1>1, <2>2 DEF Blk
  <2> QED
    BY <2>1, <2>2, <2>path, <2>4, <2>5 DEF Refs, Direct, Target, Lev
<1>3. ASSUME NEW r \in Refs, Direct(r) PROVE \E m \in Pointers : r = RefOf(m)
  <2>1. /\ r[1] \in InUse /\ r[2] \in Paths /\ r = <<r[1], r[2]>> /\ Len(r[2]) = 1
        /\ Inode(r[1]).type # "s" /\ BlockAt(r[1], r[2]) # 0
    BY <1>3 DEF Refs, Direct
  <2>2. r[2][1] \in Slot /\ r[2] = <<r[2][1]>>
    BY <2>1, DirectPaths
  <2>3. PICK n \in 1 .. Len(csv.inode) : csv.inode[n].of = r[1]
    BY <2>1, InodeLines
  <2>4. csv.inode[n].type # "s" /\ csv.inode[n].ptr = Inode(r[1]).ptr
    BY <2>1, <2>3, InodeLines
  <2> DEFINE m == <<n, r[2][1]>>
  <2>5. Blk(m) # 0
    BY <1>1, <2>1, <2>2, <2>4 DEF Blk
  <2>6. m \in Pointers
    BY <2>2, <2>4, <2>5 DEF Pointers
  <2>7. r = RefOf(m)
    BY <2>1, <2>2, <2>3 DEF RefOf, Of
  <2> QED
    BY <2>6, <2>7
<1>4. ASSUME NEW m \in Pointers, NEW k \in Pointers, RefOf(m) = RefOf(k)
      PROVE  m = k
  <2>1. Of(m) = Of(k) /\ m[2] = k[2]
    BY <1>4 DEF RefOf
  <2>2. m[1] \in 1 .. Len(csv.inode) /\ k[1] \in 1 .. Len(csv.inode)
        /\ m = <<m[1], m[2]>> /\ k = <<k[1], k[2]>>
    BY PointerFacts
  <2>3. m[1] = k[1]
    BY <2>1, <2>2, InodeLines DEF Of
  <2> QED
    BY <2>1, <2>2, <2>3
<1> QED
  BY <1>2, <1>3, <1>4

(* Two sets of the same size have both two elements or both not.           *)
LEMMA TwoOf ==
    ASSUME NEW S, IsFiniteSet(S), NEW T, IsFiniteSet(T), Cardinality(S) = Cardinality(T),
           NEW x \in S, NEW y \in S, x # y
    PROVE  \E u, v \in T : u # v
<1>1. PICK f : f \in Bijection(S, T)
  BY FS_SameCardinalityBij DEF ExistsBijection
<1>2. f[x] \in T /\ f[y] \in T /\ f[x] # f[y]
  BY <1>1 DEF Bijection, Injection, IsInjective
<1> QED
  BY <1>2

LEMMA SameIndirect ==
    ASSUME Complete
    PROVE  /\ \A n \in Lines : \E r \in IndirectRefs : r[1] = Ino(n) /\ Target(r) = Ref(n)
           /\ \A r \in IndirectRefs : \E n \in Lines : r[1] = Ino(n) /\ Target(r) = Ref(n)
           /\ \A b : (\E n, k \in Lines : n # k /\ Ref(n) = b /\ Ref(k) = b)
                         <=> (\E r, q \in IndirectRefs : r # q /\ Target(r) = b /\ Target(q) = b)
<1> DEFINE W(n) == WithoutOffset(csv.indirect[n])
           V(r) == WithoutOffset(LineOf(r))
           LinesLike(l) == {n \in Lines : W(n) = l}
           RefsLike(l) == {r \in IndirectRefs : V(r) = l}
<1>1. \A n : W(n)[1] = Ino(n) /\ W(n)[4] = Ref(n)
  BY DEF WithoutOffset, Ino, Ref
<1>2. \A r : V(r)[1] = r[1] /\ V(r)[4] = Target(r)
  <2>1. \A r : LineOf(r).of = r[1] /\ LineOf(r).ref = Target(r)
    BY DEF LineOf, Target
  <2> QED
    BY <2>1 DEF WithoutOffset
<1>3. Len(csv.indirect) \in Nat /\ DOMAIN csv.indirect = Lines
  BY DEF Complete, SummaryOK, Lines
<1>4. {W(n) : n \in Lines} = {V(r) : r \in IndirectRefs}
  BY <1>3 DEF Complete, SummaryOK, ToSet
<1>5. \A r \in IndirectRefs : Cardinality(LinesLike(V(r))) = Cardinality(RefsLike(V(r)))
  BY <1>3 DEF Complete, SummaryOK
<1>6. \A l : IsFiniteSet(LinesLike(l)) /\ IsFiniteSet(RefsLike(l))
  <2>1. IsFiniteSet(Lines) /\ IsFiniteSet(IndirectRefs)
    BY <1>3, RefsFinite, FS_Interval, FS_Subset DEF Complete, Lines, IndirectRefs
  <2> QED
    BY <2>1, FS_Subset
<1> HIDE DEF W, V
<1>7. \A n \in Lines : \E r \in IndirectRefs : W(n) = V(r)
  BY <1>4
<1>8. \A r \in IndirectRefs : \E n \in Lines : W(n) = V(r)
  BY <1>4
<1>9. ASSUME NEW b, NEW n \in Lines, NEW k \in Lines, n # k, Ref(n) = b, Ref(k) = b
      PROVE  \E r, q \in IndirectRefs : r # q /\ Target(r) = b /\ Target(q) = b
  <2>1. PICK r \in IndirectRefs : W(n) = V(r)
    BY <1>7
  <2>2. PICK q \in IndirectRefs : W(k) = V(q)
    BY <1>7
  <2>3. Target(r) = b /\ Target(q) = b
    BY <1>1, <1>2, <1>9, <2>1, <2>2
  <2>4. CASE r # q
    BY <2>3, <2>4
  <2>5. CASE r = q
    <3>1. n \in LinesLike(V(r)) /\ k \in LinesLike(V(r))
      BY <2>1, <2>2, <2>5
    <3>2. PICK u \in RefsLike(V(r)), v \in RefsLike(V(r)) : u # v
      <4> DEFINE A == LinesLike(V(r))
                 B == RefsLike(V(r))
      <4>1. IsFiniteSet(A) /\ IsFiniteSet(B) /\ Cardinality(A) = Cardinality(B)
        BY <1>5, <1>6
      <4> HIDE DEF A, B
      <4>2. \E u, v \in B : u # v
        BY <1>9, <3>1, <4>1, TwoOf DEF A
      <4> QED
        BY <4>2 DEF B
    <3>3. Target(u) = b /\ Target(v) = b
      BY <1>2, <2>3, <3>2
    <3> QED
      BY <3>2, <3>3
  <2> QED
    BY <2>4, <2>5
<1>10. ASSUME NEW b, NEW r \in IndirectRefs, NEW q \in IndirectRefs,
              r # q, Target(r) = b, Target(q) = b
       PROVE  \E n, k \in Lines : n # k /\ Ref(n) = b /\ Ref(k) = b
  <2>1. PICK n \in Lines : W(n) = V(r)
    BY <1>8
  <2>2. PICK k \in Lines : W(k) = V(q)
    BY <1>8
  <2>3. Ref(n) = b /\ Ref(k) = b
    BY <1>1, <1>2, <1>10, <2>1, <2>2
  <2>4. CASE n # k
    BY <2>3, <2>4
  <2>5. CASE n = k
    <3>1. r \in RefsLike(V(r)) /\ q \in RefsLike(V(r))
      BY <2>1, <2>2, <2>5
    <3>2. PICK u \in LinesLike(V(r)), v \in LinesLike(V(r)) : u # v
      <4> DEFINE A == LinesLike(V(r))
                 B == RefsLike(V(r))
      <4>1. IsFiniteSet(A) /\ IsFiniteSet(B) /\ Cardinality(B) = Cardinality(A)
        BY <1>5, <1>6
      <4> HIDE DEF A, B
      <4>2. \E u, v \in A : u # v
        BY <1>10, <3>1, <4>1, TwoOf DEF B
      <4> QED
        BY <4>2 DEF A
    <3>3. Ref(u) = b /\ Ref(v) = b
      BY <1>1, <1>2, <1>10, <3>2
    <3> QED
      BY <3>2, <3>3
  <2> QED
    BY <2>4, <2>5
<1>11. \A n \in Lines : \E r \in IndirectRefs : r[1] = Ino(n) /\ Target(r) = Ref(n)
  BY <1>1, <1>2, <1>7
<1>12. \A r \in IndirectRefs : \E n \in Lines : r[1] = Ino(n) /\ Target(r) = Ref(n)
  BY <1>1, <1>2, <1>8
<1> QED
  BY <1>9, <1>10, <1>11, <1>12

-----------------------------------------------------------------------------
(* The errors are those of the disk.                                       *)

LEMMA AtTheEnd ==
    ASSUME CheckInv, CsvOK, exit_b \in {0, 2}
    PROVE  /\ BlockInv /\ section = "done"
           /\ SeenPtrs = Pointers /\ SeenLines = Lines /\ FreeNow = ToSet(csv.bfree)
<1>1. section = "done"
  BY DEF CheckInv, ScanOK, Running
<1>2. BlockInv
  BY <1>1 DEF CheckInv
<1> QED
  BY <1>1, <1>2, PointersSeen DEF SeenLines, FreeNow

LEMMA SameMentioned ==
    ASSUME Complete, SeenPtrs = Pointers, SeenLines = Lines
    PROVE  /\ \A b : Mentioned(b) <=> \E r \in Refs : Target(r) = b
           /\ \A b : Twice(b) <=> \E r, q \in Refs : r # q /\ Target(r) = b /\ Target(q) = b
<1>1. \A r \in Refs : (Direct(r) /\ r \notin IndirectRefs) \/ (~Direct(r) /\ r \in IndirectRefs)
  BY DEF IndirectRefs
<1>2. IndirectRefs \subseteq Refs
  BY DEF IndirectRefs
<1>3. /\ \A m \in Pointers : /\ RefOf(m) \in Refs /\ Direct(RefOf(m))
                             /\ Target(RefOf(m)) = Blk(m)
      /\ \A r \in Refs : Direct(r) => \E m \in Pointers : r = RefOf(m)
      /\ \A m, k \in Pointers : RefOf(m) = RefOf(k) => m = k
  BY SameDirect
<1>4. /\ \A n \in Lines : \E r \in IndirectRefs : Target(r) = Ref(n)
      /\ \A r \in IndirectRefs : \E n \in Lines : Target(r) = Ref(n)
      /\ \A b : (\E n, k \in Lines : n # k /\ Ref(n) = b /\ Ref(k) = b)
                    <=> (\E r, q \in IndirectRefs : r # q /\ Target(r) = b /\ Target(q) = b)
  BY SameIndirect
<1>5. ASSUME NEW b PROVE Mentioned(b) <=> \E r \in Refs : Target(r) = b
  <2>1. (\E m \in Pointers : Blk(m) = b) <=> \E r \in Refs : Direct(r) /\ Target(r) = b
    BY <1>3
  <2>2. (\E n \in Lines : Ref(n) = b) <=> \E r \in IndirectRefs : Target(r) = b
    BY <1>4
  <2> QED
    BY <1>1, <1>2, <2>1, <2>2 DEF Mentioned
<1>6. ASSUME NEW b
      PROVE  Twice(b) <=> \E r, q \in Refs : r # q /\ Target(r) = b /\ Target(q) = b
  <2>1. (\E m, k \in Pointers : m # k /\ Blk(m) = b /\ Blk(k) = b)
            <=> \E r, q \in Refs : /\ Direct(r) /\ Direct(q) /\ r # q
                                   /\ Target(r) = b /\ Target(q) = b
    BY <1>3
  <2>2. (\E m \in Pointers, n \in Lines : Blk(m) = b /\ Ref(n) = b)
            <=> \E r \in Refs, q \in IndirectRefs : Direct(r) /\ Target(r) = b /\ Target(q) = b
    BY <1>3, <1>4
  <2>3. (\E n, k \in Lines : n # k /\ Ref(n) = b /\ Ref(k) = b)
            <=> (\E r, q \in IndirectRefs : r # q /\ Target(r) = b /\ Target(q) = b)
    BY <1>4
  <2>4. Twice(b) <=> \/ \E m, k \in Pointers : m # k /\ Blk(m) = b /\ Blk(k) = b
                     \/ \E m \in Pointers, n \in Lines : Blk(m) = b /\ Ref(n) = b
                     \/ \E n, k \in Lines : n # k /\ Ref(n) = b /\ Ref(k) = b
    BY DEF Twice
  <2> QED
    BY <1>1, <1>2, <2>1, <2>2, <2>3, <2>4
<1> QED
  BY <1>5, <1>6

LEMMA BlocksAtTheEnd ==
    ASSUME CheckInv, Image, SummaryOK
    PROVE  BlocksReported
<1> DEFINE target == [r \in Refs |-> BlockAt(r[1], r[2])]
           to(b) == {r \in DOMAIN target : target[r] = b}
           dups == {e \in Reported("block", {"dup"}) : e.block \in Valid}
<1> SUFFICES ASSUME Analysed
             PROVE  /\ {e.block : e \in {e \in err_list : e.type = "unref"}}
                         = {b \in Valid : to(b) = {} /\ b \notin FreeBlocks}
                    /\ {e.block : e \in dups} = {b \in Valid : \E r, q \in to(b) : r # q}
                    /\ \A e \in dups : \E r \in to(e.block) : r[1] = e.inode
                    /\ \A r, q \in {r \in DOMAIN target : Direct(r)} :
                           r # q /\ target[r] = target[q] =>
                               \E e \in Reported("block", {"dup"}) :
                                   /\ e.block = target[r] /\ e.inode = r[1]
                                   /\ e.level = Level(r[2][1])
                    /\ {e.element : e \in Reported("free", {"all_blk"})} \cap Valid
                           = {b \in Valid \cap FreeBlocks : \E r \in to(b) : Direct(r)}
                    /\ {<<e.inode, e.block>> : e \in Reported("block", {"res", "inv"})}
                           = {<<r[1], target[r]>> : r \in {r \in DOMAIN target : target[r] \notin Valid}}
  BY DEF BlocksReported, Valid, SummaryOK
<1>1. Complete /\ CsvOK
  BY CompleteIsOK DEF Complete, Analysed
<1>2. /\ BlockInv /\ section = "done"
      /\ SeenPtrs = Pointers /\ SeenLines = Lines /\ FreeNow = FreeBlocks
  BY <1>1, AtTheEnd DEF Analysed, SummaryOK
<1>3. /\ DOMAIN target = Refs /\ \A r \in Refs : target[r] = Target(r)
      /\ \A b : to(b) = {r \in Refs : Target(r) = b}
  BY DEF Target
<1>4. /\ \A b : Mentioned(b) <=> \E r \in Refs : Target(r) = b
      /\ \A b : Twice(b) <=> \E r, q \in Refs : r # q /\ Target(r) = b /\ Target(q) = b
  BY <1>1, <1>2, SameMentioned
<1>5. /\ \A m \in Pointers : /\ RefOf(m) \in Refs /\ Direct(RefOf(m))
                             /\ RefOf(m)[1] = Of(m) /\ Target(RefOf(m)) = Blk(m)
                             /\ Level(RefOf(m)[2][1]) = Lev(m)
      /\ \A r \in Refs : Direct(r) => \E m \in Pointers : r = RefOf(m)
  BY <1>1, SameDirect
<1>6. /\ \A n \in Lines : \E r \in IndirectRefs : r[1] = Ino(n) /\ Target(r) = Ref(n)
      /\ \A r \in IndirectRefs : \E n \in Lines : r[1] = Ino(n) /\ Target(r) = Ref(n)
      /\ IndirectRefs \subseteq Refs /\ \A r \in Refs : Direct(r) \/ r \in IndirectRefs
  BY <1>1, SameIndirect DEF IndirectRefs
<1> HIDE DEF target, to
<1>7. {e.block : e \in Unrefs} = {b \in Valid : to(b) = {} /\ b \notin FreeBlocks}
  <2>1. \A b : to(b) = {} <=> ~Mentioned(b)
    BY <1>3, <1>4
  <2> QED
    BY <1>2, <2>1 DEF BlockInv, UnrefsOK
<1>8. {e.block : e \in dups} = {b \in Valid : \E r, q \in to(b) : r # q}
  <2>1. \A b : (\E r, q \in to(b) : r # q) <=> Twice(b)
    BY <1>3, <1>4
  <2>2. dups = {e \in Dups : e.block \in Valid}
    BY DEF Dups
  <2>dups. \A e \in Dups : Twice(e.block)
    BY <1>2 DEF BlockInv, DupsOK
  <2>4. \A b \in Valid : Twice(b) => \E e \in Dups : e.block = b
    BY <1>2 DEF BlockInv, DupsOK
  <2> QED
    BY <2>1, <2>2, <2>dups, <2>4
<1>9. ASSUME NEW e \in dups PROVE \E r \in to(e.block) : r[1] = e.inode
  <2>1. \/ \E m \in Pointers : Blk(m) = e.block /\ Of(m) = e.inode
        \/ \E n \in Lines : Ref(n) = e.block /\ Ino(n) = e.inode
    BY <1>2 DEF BlockInv, DupsOK, Dups
  <2> QED
    BY <1>3, <1>5, <1>6, <2>1
<1>10. ASSUME NEW r \in Refs, NEW q \in Refs, Direct(r), Direct(q), r # q, target[r] = target[q]
       PROVE  \E e \in Dups : /\ e.block = target[r] /\ e.inode = r[1]
                              /\ e.level = Level(r[2][1])
  <2>1. PICK m \in Pointers : r = RefOf(m)
    BY <1>5, <1>10
  <2>2. PICK k \in Pointers : q = RefOf(k)
    BY <1>5, <1>10
  <2>3. m # k /\ Blk(m) = Blk(k)
    BY <1>3, <1>5, <1>10, <2>1, <2>2
  <2>4. \E e \in Dups : e.block = Blk(m) /\ e.inode = Of(m) /\ e.level = Lev(m)
    BY <1>2, <2>3 DEF BlockInv, DupsOK
  <2> QED
    BY <1>3, <1>5, <2>1, <2>4
<1>11. {e.element : e \in Alls} \cap Valid
           = {b \in Valid \cap FreeBlocks : \E r \in to(b) : Direct(r)}
  <2>1. \A b : (\E r \in to(b) : Direct(r)) <=> \E m \in Pointers : Blk(m) = b
    BY <1>3, <1>5
  <2> QED
    BY <1>2, <2>1 DEF BlockInv, AllsOK
<1>12. {<<e.inode, e.block>> : e \in Outs}
           = {<<r[1], target[r]>> : r \in {r \in DOMAIN target : target[r] \notin Valid}}
  <2>1. {<<e.inode, e.block>> : e \in Outs} =
            {<<Of(m), Blk(m)>> : m \in {m \in Pointers : Blk(m) \notin Valid}}
            \cup {<<Ino(n), Ref(n)>> : n \in {n \in Lines : Ref(n) \notin Valid}}
    BY <1>2 DEF BlockInv, OutsOK
  <2>2. {<<r[1], target[r]>> : r \in {r \in DOMAIN target : target[r] \notin Valid}}
            = {<<r[1], Target(r)>> : r \in {r \in Refs : Target(r) \notin Valid}}
    BY <1>3
  <2>pointer. ASSUME NEW m \in Pointers, Blk(m) \notin Valid
        PROVE  \E r \in Refs : Target(r) \notin Valid /\ <<Of(m), Blk(m)>> = <<r[1], Target(r)>>
    BY <1>5, <2>pointer
  <2>4. ASSUME NEW n \in Lines, Ref(n) \notin Valid
        PROVE  \E r \in Refs : Target(r) \notin Valid /\ <<Ino(n), Ref(n)>> = <<r[1], Target(r)>>
    BY <1>6, <2>4
  <2>5. ASSUME NEW r \in Refs, Target(r) \notin Valid
        PROVE  \/ \E m \in Pointers : Blk(m) \notin Valid /\ <<Of(m), Blk(m)>> = <<r[1], Target(r)>>
               \/ \E n \in Lines : Ref(n) \notin Valid /\ <<Ino(n), Ref(n)>> = <<r[1], Target(r)>>
    <3>1. CASE Direct(r)
      BY <1>5, <2>5, <3>1
    <3>2. CASE r \in IndirectRefs
      BY <1>6, <2>5, <3>2
    <3> QED
      BY <1>6, <3>1, <3>2
  <2> QED
    BY <2>1, <2>2, <2>pointer, <2>4, <2>5
<1> QED
  BY <1>3, <1>7, <1>8, <1>9, <1>10, <1>11, <1>12 DEF Unrefs, Dups, Alls, Outs

-----------------------------------------------------------------------------
(* The theorems.                                                           *)

(* Whatever the summary is, as long as its block numbers are natural       *)
(* numbers: when it has been analysed, all of its lines have been seen,    *)
(* and the errors about blocks are those they contain, however the lines   *)
(* of two references come after each other.  INODE and INDIRECT lines of   *)
(* lab3b.rb.                                                               *)
LinesReported ==
    CsvOK /\ exit_b \in {0, 2} =>
        /\ SeenPtrs = Pointers /\ SeenLines = Lines /\ FreeNow = ToSet(csv.bfree)
        /\ DupsOK /\ OutsOK /\ AllsOK /\ UnrefsOK

THEOREM CheckerReportsLines == Spec => []LinesReported
<1>1. CheckInv => LinesReported
  BY AtTheEnd DEF LinesReported, BlockInv
<1> QED
  BY <1>1, CheckInvariant, PTL

(* Nothing is analysed that has not been printed.                          *)
AnalysedPrinted == section # "header" /\ exit_b # 1 => csv.printed

LEMMA AnalysedInvariant == Spec => []AnalysedPrinted
<1>1. Init => AnalysedPrinted
  BY DEF Init, CheckerInit, AnalysedPrinted
<1>2. CheckInv /\ AnalysedPrinted /\ [Next]_vars => AnalysedPrinted'
  <2> SUFFICES ASSUME CheckInv, AnalysedPrinted, [Next]_vars PROVE AnalysedPrinted'
    OBVIOUS
  <2>1. CASE section = "header" /\ UNCHANGED checkerVars
    BY <2>1 DEF AnalysedPrinted, checkerVars, position
  <2>2. CASE CheckerNext /\ UNCHANGED <<disk, csv, step>>
    <3>1. CASE ScanHeader
      BY <2>2, <3>1 DEF ScanHeader, Raise, AnalysedPrinted
    <3>2. CASE ~ScanHeader
      <4>1. section \notin {"header", "done"}
        BY <2>2, <3>2 DEF CheckerNext, ScanBfree, ScanIfree, InodeLineStart, CheckPointer,
                          SetRoot, ScanDirent, DirentsDone, ScanIndirect, Conclude
      <4>2. exit_b # 1
        BY <4>1 DEF CheckInv, ScanOK, Running
      <4> QED
        BY <2>2, <4>1, <4>2 DEF AnalysedPrinted
    <3> QED
      BY <3>1, <3>2
  <2>3. CASE UNCHANGED checkerVars /\ UNCHANGED <<disk, csv, step>>
    BY <2>3 DEF AnalysedPrinted, checkerVars, position
  <2> QED
    BY <2>1, <2>2, <2>3, StepKinds DEF CheckInv
<1> QED
  BY <1>1, <1>2, CheckInvariant, PTL DEF Spec

(* The checker leaves the reader alone: what is proved of lab3a by itself  *)
(* is true of the two programs one after the other.                        *)
LEMMA ReaderGoesOn == Spec => ReaderSpec
<1>1. Init => ReaderInit
  BY DEF Init
<1>2. [Next]_vars => [ReaderNext]_readerVars
  BY DEF Next, vars
<1> QED
  BY <1>1, <1>2, PTL DEF Spec, ReaderSpec

(* The summary of every image within reach is exact, however many blocks,  *)
(* inodes, entries and pointers it has, and however they are laid out; the *)
(* groups of any image have the sizes that they should.  scan_image,       *)
(* print_csv.                                                              *)
THEOREM SummaryIsExact == Spec => []SummaryExact
<1>1. Summarised => SummaryExact
  BY DEF Summarised, SummaryExact
<1> QED
  BY <1>1, ReaderGoesOn, ReaderSummary, PTL

(* The errors about blocks are those of the disk: what the two programs    *)
(* promise together, of every image within reach.                          *)
THEOREM CheckerReportsBlocks == Spec => []BlocksReported
<1>1. CheckInv /\ AnalysedPrinted /\ ReaderInv /\ Summarised => BlocksReported
  <2> SUFFICES ASSUME CheckInv, AnalysedPrinted, ReaderInv, Summarised PROVE BlocksReported
    OBVIOUS
  <2>1. CASE Analysed
    <3>1. exit_b # 1 /\ section = "done"
      BY <2>1 DEF Analysed, CheckInv, ScanOK, Running
    <3>2. Image /\ SummaryOK
      BY <2>1, <3>1 DEF AnalysedPrinted, Summarised, Analysed, ReaderInv
    <3> QED
      BY <3>2, BlocksAtTheEnd
  <2>2. CASE ~Analysed
    BY <2>2 DEF BlocksReported
  <2> QED
    BY <2>1, <2>2
<1> QED
  BY <1>1, CheckInvariant, AnalysedInvariant, ReaderGoesOn, ReaderInvariant, ReaderSummary, PTL

-----------------------------------------------------------------------------
(*                   LAB3B: THE INODES AND THEIR ENTRIES                   *)

(* The DIRENT lines as they are sorted.  TextBefore is the order of keys:  *)
(* a number moved to the left of ten digits, and how many it has.          *)
TextKey(n) == n * 10 ^ (10 - Width(n)) * 10 + Width(n)

LEMMA PowersOfTen ==
    /\ 10 ^ 0 = 1 /\ 10 ^ 1 = 10 /\ 10 ^ 2 = 100 /\ 10 ^ 3 = 1000 /\ 10 ^ 4 = 10000
    /\ 10 ^ 5 = 100000 /\ 10 ^ 6 = 1000000 /\ 10 ^ 7 = 10000000 /\ 10 ^ 8 = 100000000
    /\ 10 ^ 9 = 1000000000
OBVIOUS

LEMMA PowerSums ==
    /\ \A a \in 0 .. 9 : 10 ^ a \in Nat \ {0}
    /\ \A a, b \in 0 .. 9 : a + b <= 9 => 10 ^ (a + b) = 10 ^ a * 10 ^ b
<1> DEFINE p(a) == 10 ^ a
<1>1. /\ p(0) = 1 /\ p(1) = 10 /\ p(2) = 100 /\ p(3) = 1000 /\ p(4) = 10000
      /\ p(5) = 100000 /\ p(6) = 1000000 /\ p(7) = 10000000 /\ p(8) = 100000000
      /\ p(9) = 1000000000
  BY PowersOfTen
<1> HIDE DEF p
<1>2. \A a \in 0 .. 9 : p(a) \in Nat \ {0}
  BY <1>1
<1>3. \A a, b \in 0 .. 9 : a + b <= 9 => p(a + b) = p(a) * p(b)
  <2> SUFFICES ASSUME NEW a \in 0 .. 9, NEW b \in 0 .. 9, a + b <= 9
               PROVE  p(a + b) = p(a) * p(b)
    OBVIOUS
  <2>1. a = 0 => p(a + b) = p(a) * p(b)
    BY <1>1, <1>2
  <2>2. a = 1 => p(a + b) = p(a) * p(b)
    BY <1>1, <1>2
  <2>two. a = 2 => p(a + b) = p(a) * p(b)
    BY <1>1, <1>2
  <2>4. a = 3 => p(a + b) = p(a) * p(b)
    BY <1>1, <1>2
  <2>5. a = 4 => p(a + b) = p(a) * p(b)
    BY <1>1, <1>2
  <2>6. a = 5 => p(a + b) = p(a) * p(b)
    BY <1>1, <1>2
  <2>7. a = 6 => p(a + b) = p(a) * p(b)
    BY <1>1, <1>2
  <2>8. a = 7 => p(a + b) = p(a) * p(b)
    BY <1>1, <1>2
  <2>9. a = 8 \/ a = 9 => p(a + b) = p(a) * p(b)
    BY <1>1, <1>2
  <2> QED
    BY <2>1, <2>2, <2>two, <2>4, <2>5, <2>6, <2>7, <2>8, <2>9
<1> QED
  BY <1>2, <1>3 DEF p

LEMMA WidthType == \A n \in Nat : Width(n) \in 1 .. 10
<1> SUFFICES ASSUME NEW n \in Nat PROVE Width(n) \in 1 .. 10
  OBVIOUS
<1> DEFINE p(a) == 10 ^ a
           fits(w) == (w = 1 \/ p(w - 1) <= n) /\ (w = 10 \/ n < p(w))
<1>1. \E w \in 1 .. 10 : fits(w)
  <2>1. \A a \in 0 .. 9 : p(a) \in Nat
    BY PowerSums
  <2> HIDE DEF p
  <2>2. fits(1) \/ p(1) <= n
    BY <2>1
  <2>3. p(1) <= n => fits(2) \/ p(2) <= n
    BY <2>1
  <2>4. p(2) <= n => fits(3) \/ p(3) <= n
    BY <2>1
  <2>5. p(3) <= n => fits(4) \/ p(4) <= n
    BY <2>1
  <2>6. p(4) <= n => fits(5) \/ p(5) <= n
    BY <2>1
  <2>7. p(5) <= n => fits(6) \/ p(6) <= n
    BY <2>1
  <2>8. p(6) <= n => fits(7) \/ p(7) <= n
    BY <2>1
  <2>9. p(7) <= n => fits(8) \/ p(8) <= n
    BY <2>1
  <2>10. p(8) <= n => fits(9) \/ p(9) <= n
    BY <2>1
  <2>11. p(9) <= n => fits(10)
    BY <2>1
  <2> HIDE DEF fits
  <2> QED
    BY <2>2, <2>3, <2>4, <2>5, <2>6, <2>7, <2>8, <2>9, <2>10, <2>11
<1>2. Width(n) = CHOOSE w \in 1 .. 10 : fits(w)
  BY DEF Width
<1> HIDE DEF fits
<1> QED
  BY <1>1, <1>2

(* A number against one with at least as many digits.                      *)
LEMMA ShorterFirst ==
    ASSUME NEW m \in Nat, NEW n \in Nat, Width(m) <= Width(n)
    PROVE  LET top == n \div 10 ^ (Width(n) - Width(m))
           IN  /\ TextKey(m) < TextKey(n) <=> m < top \/ (m = top /\ m < n)
               /\ TextKey(m) = TextKey(n) => m = n
               /\ TextKey(m) \in Nat /\ TextKey(n) \in Nat
               /\ top \in Nat
<1> DEFINE w == Width(m)
           v == Width(n)
           K == 10 ^ (v - w)
           P == 10 ^ (10 - v)
           x == m * K
           top == n \div K
<1>1. w \in 1 .. 10 /\ v \in 1 .. 10 /\ w <= v /\ (m = n => w = v)
  BY WidthType
<1>2. K \in Nat \ {0} /\ P \in Nat \ {0} /\ 10 ^ (10 - w) = K * P /\ (w = v => K = 1)
  <2> HIDE DEF w, v
  <2>1. v - w \in 0 .. 9 /\ 10 - v \in 0 .. 9 /\ (v - w) + (10 - v) = 10 - w /\ 10 - w <= 9
    BY <1>1
  <2>2. K \in Nat \ {0} /\ P \in Nat \ {0} /\ 10 ^ (10 - w) = K * P
    BY <2>1, PowerSums
  <2>3. w = v => K = 1
    BY <1>1, PowersOfTen
  <2> QED
    BY <2>2, <2>3
<1>3. TextKey(m) = m * (K * P) * 10 + w /\ TextKey(n) = n * P * 10 + v
  BY <1>2 DEF TextKey
<1> HIDE DEF w, v, K, P
<1>4. x \in Nat /\ m <= x /\ m * (K * P) = x * P /\ (K = 1 => x = m)
  BY <1>2
<1>5. TextKey(m) = x * P * 10 + w
  BY <1>3, <1>4
<1>6. top \in Nat /\ top * K <= n /\ n < top * K + K
  BY <1>2
<1>7. /\ m < top => x < n
      /\ m = top => x <= n
      /\ m > top => x > n
  <2> HIDE DEF top
  <2>1. \A a, b \in Nat : a < b => a * K + K <= b * K
    BY <1>2
  <2>2. top * K \in Nat /\ K \in Nat \ {0}
    BY <1>2, <1>6
  <2> QED
    BY <1>4, <1>6, <2>1, <2>2
<1> HIDE DEF x, top
<1>8. \A a, b \in Nat : a < b => a * P + P <= b * P
  BY <1>2
<1>9. x * P \in Nat /\ n * P \in Nat
  BY <1>2, <1>4
<1>10. /\ x < n => TextKey(m) < TextKey(n)
       /\ x > n => TextKey(m) > TextKey(n)
       /\ x = n => (TextKey(m) < TextKey(n) <=> w < v) /\ (TextKey(m) = TextKey(n) <=> w = v)
  <2> DEFINE s == x * P
             t == n * P
  <2>1. s \in Nat /\ t \in Nat /\ P \in Nat \ {0}
    BY <1>2, <1>9
  <2>2. (x < n => s + P <= t) /\ (n < x => t + P <= s) /\ (x = n => s = t)
    BY <1>4, <1>8
  <2>3. TextKey(m) = s * 10 + w /\ TextKey(n) = t * 10 + v
    BY <1>3, <1>5
  <2> HIDE DEF s, t
  <2> QED
    BY <1>1, <2>1, <2>2, <2>3
<1>11. x = n => (w = v <=> m = n) /\ (w < v <=> m < n)
  BY <1>1, <1>2, <1>4
<1>12. TextKey(m) \in Nat /\ TextKey(n) \in Nat
  <2> DEFINE s == x * P
             t == n * P
  <2>1. s \in Nat /\ t \in Nat /\ TextKey(m) = s * 10 + w /\ TextKey(n) = t * 10 + v
    BY <1>3, <1>5, <1>9
  <2> HIDE DEF s, t
  <2> QED
    BY <1>1, <2>1
<1>13. TextKey(m) < TextKey(n) <=> m < top \/ (m = top /\ m < n)
  BY <1>4, <1>6, <1>7, <1>10, <1>11, <1>12
<1>14. TextKey(m) = TextKey(n) => m = n
  BY <1>4, <1>10, <1>11, <1>12
<1> QED
  BY <1>6, <1>12, <1>13, <1>14 DEF top, K, w, v

(* A number is known from its key.                                         *)
LEMMA TextKeyFacts ==
    /\ \A m \in Nat : TextKey(m) \in Nat
    /\ \A m, n \in Nat : TextKey(m) = TextKey(n) => m = n
    /\ \A m, n \in Nat : TextBefore(m, n) <=> TextKey(m) < TextKey(n)
<1>1. \A n \in Nat : Width(n) \in 1 .. 10
  BY WidthType
<1>2. ASSUME NEW m \in Nat PROVE TextKey(m) \in Nat
  BY <1>1, ShorterFirst
<1>3. ASSUME NEW m \in Nat, NEW n \in Nat, TextKey(m) = TextKey(n) PROVE m = n
  <2>1. CASE Width(m) <= Width(n)
    BY <1>3, <2>1, ShorterFirst
  <2>2. CASE Width(n) <= Width(m)
    BY <1>3, <2>2, ShorterFirst
  <2> QED
    BY <1>1, <2>1, <2>2
<1>4. ASSUME NEW m \in Nat, NEW n \in Nat PROVE TextBefore(m, n) <=> TextKey(m) < TextKey(n)
  <2> DEFINE w == Width(m)
             v == Width(n)
             short == Min({w, v})
             top(i) == i \div 10 ^ (Width(i) - short)
  <2>1. TextBefore(m, n) <=> top(m) < top(n) \/ (top(m) = top(n) /\ m < n)
    BY DEF TextBefore
  <2>2. w \in 1 .. 10 /\ v \in 1 .. 10 /\ 10 ^ 0 = 1
    BY <1>1, PowersOfTen
  <2>3. CASE w <= v
    <3>1. short = w
      BY <2>2, <2>3 DEF Min
    <3>2. top(m) = m
      <4>1. Width(m) - short = 0
        BY <2>2, <3>1
      <4>2. 10 ^ (Width(m) - short) = 1
        BY <2>2, <4>1
      <4>3. m \div 1 = m
        OBVIOUS
      <4> QED
        BY <4>2, <4>3
    <3>3. top(n) = n \div 10 ^ (Width(n) - Width(m))
      BY <3>1
    <3> QED
      BY <2>1, <2>3, <3>2, <3>3, ShorterFirst
  <2>4. CASE v < w
    <3>1. short = v
      BY <2>2, <2>4 DEF Min
    <3>2. top(n) = n
      <4>1. Width(n) - short = 0
        BY <2>2, <3>1
      <4>2. 10 ^ (Width(n) - short) = 1
        BY <2>2, <4>1
      <4>3. n \div 1 = n
        OBVIOUS
      <4> QED
        BY <4>2, <4>3
    <3>3. top(m) = m \div 10 ^ (Width(m) - Width(n))
      BY <3>1
    <3>4. Width(n) <= Width(m)
      BY <2>2, <2>4
    <3>5. /\ TextKey(n) < TextKey(m) <=> n < top(m) \/ (n = top(m) /\ n < m)
          /\ TextKey(m) \in Nat /\ TextKey(n) \in Nat /\ top(m) \in Nat
      BY <3>3, <3>4, ShorterFirst
    <3>6. TextKey(m) # TextKey(n) /\ m # n
      BY <1>3, <2>2, <2>4
    <3> HIDE DEF top
    <3> QED
      BY <2>1, <3>2, <3>5, <3>6
  <2> QED
    BY <2>2, <2>3, <2>4
<1> QED
  BY <1>2, <1>3, <1>4

Ordered(K, u) ==
    /\ \A x \in K : u[x] \in SUBSET K /\ x \in u[x]
    /\ \A x, y \in K : x # y => \/ u[x] \subseteq u[y] /\ y \notin u[x]
                                \/ u[y] \subseteq u[x] /\ x \notin u[y]
AtRank(K, u, k) == CHOOSE x \in K : Cardinality(u[x]) = k

LEMMA Ranks ==
    ASSUME NEW K, IsFiniteSet(K), NEW u, Ordered(K, u)
    PROVE  /\ \A k \in 1 .. Cardinality(K) : /\ AtRank(K, u, k) \in K
                                             /\ Cardinality(u[AtRank(K, u, k)]) = k
           /\ \A x \in K : \E k \in 1 .. Cardinality(K) : AtRank(K, u, k) = x
           /\ \A j, k \in 1 .. Cardinality(K) : j < k => AtRank(K, u, j) \in u[AtRank(K, u, k)]
<1> DEFINE N == Cardinality(K)
           rank(x) == Cardinality(u[x])
           r == [x \in K |-> rank(x)]
<1>1. N \in Nat
  BY FS_CardinalityType
<1>2. ASSUME NEW x \in K
      PROVE  IsFiniteSet(u[x]) /\ rank(x) \in 1 .. N
  <2>1. u[x] \subseteq K /\ x \in u[x]
    BY DEF Ordered
  <2>2. IsFiniteSet(u[x]) /\ rank(x) <= N /\ rank(x) \in Nat
    BY <2>1, FS_Subset, FS_CardinalityType
  <2>3. rank(x) # 0
    BY <2>1, <2>2, FS_EmptySet
  <2> QED
    BY <1>1, <2>2, <2>3
<1>3. ASSUME NEW x \in K, NEW y \in K, u[x] \subseteq u[y], y \notin u[x] PROVE rank(x) < rank(y)
  <2>1. u[x] # u[y]
    BY <1>3 DEF Ordered
  <2>2. IsFiniteSet(u[y])
    BY <1>2
  <2>3. rank(x) <= rank(y) /\ rank(x) # rank(y)
    BY <1>3, <2>1, <2>2, FS_Subset
  <2>4. rank(x) \in Nat /\ rank(y) \in Nat
    BY <1>2
  <2> HIDE DEF rank
  <2> QED
    BY <2>3, <2>4
<1>4. ASSUME NEW x \in K, NEW y \in K, x # y
      PROVE  \/ rank(x) < rank(y) /\ u[x] \subseteq u[y]
             \/ rank(y) < rank(x) /\ u[y] \subseteq u[x]
  BY <1>3, <1>4 DEF Ordered
<1>5. \A x, y \in K : rank(x) = rank(y) => x = y
  <2> SUFFICES ASSUME NEW x \in K, NEW y \in K, rank(x) = rank(y), x # y PROVE FALSE
    OBVIOUS
  <2>1. rank(x) \in Nat /\ rank(y) \in Nat
    BY <1>2
  <2>2. rank(x) < rank(y) \/ rank(y) < rank(x)
    BY <1>4
  <2> HIDE DEF rank
  <2> QED
    BY <2>1, <2>2
<1>6. \A k \in 1 .. N : \E x \in K : rank(x) = k
  <2>1. r \in [K -> 1 .. N] /\ r \in Injection(K, 1 .. N)
    <3>1. r \in [K -> 1 .. N]
      BY <1>2
    <3>2. IsInjective(r)
      BY <1>5 DEF IsInjective
    <3> QED
      BY <3>1, <3>2 DEF Injection
  <2>2. IsFiniteSet(1 .. N) /\ Cardinality(1 .. N) = N
    BY <1>1, FS_Interval
  <2>3. r \in Surjection(K, 1 .. N)
    <3> HIDE DEF r
    <3> QED
      BY <2>1, <2>2, FS_Injection
  <2> QED
    BY <2>3 DEF Surjection
<1> DEFINE at(k) == AtRank(K, u, k)
<1>7. ASSUME NEW k \in 1 .. N PROVE at(k) \in K /\ rank(at(k)) = k
  BY <1>6 DEF AtRank
<1>8. ASSUME NEW x \in K PROVE at(rank(x)) = x
  <2>1. at(rank(x)) \in K /\ rank(at(rank(x))) = rank(x)
    BY <1>2, <1>7
  <2> HIDE DEF rank, at
  <2> QED
    BY <1>5, <2>1
<1>9. ASSUME NEW j \in 1 .. N, NEW k \in 1 .. N, j < k PROVE at(j) \in u[at(k)]
  <2>1. /\ at(j) \in K /\ rank(at(j)) = j /\ at(j) \in u[at(j)]
        /\ at(k) \in K /\ rank(at(k)) = k
    BY <1>7 DEF Ordered
  <2>2. at(j) # at(k) /\ ~(k < j)
    <3> HIDE DEF at, rank, N
    <3>1. at(j) # at(k)
      BY <1>9, <2>1
    <3> QED
      BY <1>9, <1>1, <3>1
  <2>3. u[at(j)] \subseteq u[at(k)]
    <3> HIDE DEF at, rank
    <3> QED
      BY <1>4, <2>1, <2>2
  <2> QED
    BY <2>1, <2>3
<1> HIDE DEF at, rank
<1>10. \A x \in K : \E k \in 1 .. N : at(k) = x
  BY <1>2, <1>8
<1> QED
  BY <1>7, <1>9, <1>10 DEF at, rank

(* The lines in another order.                                             *)
Permutes(a, n) ==
    /\ a \in [1 .. n -> 1 .. n]
    /\ \A j, k \in 1 .. n : a[j] = a[k] => j = k
    /\ \A m \in 1 .. n : \E k \in 1 .. n : a[k] = m

LEMMA ListsPermuted ==
    ASSUME NEW s, NEW S, NEW f, Lists(s, S, f), NEW t, NEW a, Permutes(a, Len(s)),
           t = [k \in 1 .. Len(s) |-> s[a[k]]]
    PROVE  Lists(t, S, f) /\ Len(t) = Len(s)
<1>1. PICK g : Numbers(g, s, S, f)
  BY DEF Lists
<1>2. Len(s) \in Nat /\ \A n \in 1 .. Len(s) : s[n] \in {f[x] : x \in S}
  BY DEF Lists
<1>3. t \in Seq({f[x] : x \in S}) /\ Len(t) = Len(s)
  <2>1. t \in [1 .. Len(s) -> {f[x] : x \in S}]
    BY <1>2 DEF Permutes
  <2> QED
    BY <1>2, <2>1, SeqFromFcn
<1> USE DEF Permutes
<1> DEFINE h == [k \in 1 .. Len(s) |-> g[a[k]]]
<1>4. Numbers(h, t, S, f)
  <2>1. h \in [1 .. Len(t) -> S]
    BY <1>1, <1>3 DEF Numbers
  <2>2. ASSUME NEW j \in 1 .. Len(t), NEW k \in 1 .. Len(t), h[j] = h[k] PROVE j = k
    <3>1. a[j] \in 1 .. Len(s) /\ a[k] \in 1 .. Len(s) /\ g[a[j]] = g[a[k]]
      BY <1>3, <2>2
    <3>2. a[j] = a[k]
      BY <1>1, <3>1 DEF Numbers
    <3> QED
      BY <1>3, <3>2
  <2>onto. ASSUME NEW x \in S PROVE \E k \in 1 .. Len(t) : h[k] = x
    <3>1. PICK n \in 1 .. Len(s) : g[n] = x
      BY <1>1 DEF Numbers
    <3>2. PICK k \in 1 .. Len(s) : a[k] = n
      OBVIOUS
    <3> QED
      BY <1>3, <3>1, <3>2
  <2>4. \A k \in 1 .. Len(t) : t[k] = f[h[k]]
    BY <1>1, <1>3 DEF Numbers
  <2> QED
    BY <2>1, <2>2, <2>onto, <2>4 DEF Numbers
<1> QED
  BY <1>3, <1>4 DEF Lists

LEMMA SortedLists ==
    ASSUME NEW lines, NEW S, NEW f, Lists(lines, S, f),
           \A n \in 1 .. Len(lines) : lines[n].of \in Nat /\ lines[n].offset \in Nat
    PROVE  /\ Lists(Sorted(lines), S, f) /\ Len(Sorted(lines)) = Len(lines)
           /\ \A j, k \in 1 .. Len(lines) :
                  j < k => TextKey(Sorted(lines)[j].of) <= TextKey(Sorted(lines)[k].of)
<1> DEFINE D == 1 .. Len(lines)
           key(n) == <<lines[n].of, lines[n].offset, n>>
           K == {key(n) : n \in D}
           upto(x) == {y \in K : \/ TextBefore(y[1], x[1])
                                 \/ y[1] = x[1] /\ TextBefore(y[2], x[2])
                                 \/ y[1] = x[1] /\ y[2] = x[2] /\ y[3] <= x[3]}
           u == [x \in K |-> upto(x)]
           r(k) == CHOOSE x \in K : Cardinality(upto(x)) = k
           a == [k \in D |-> r(k)[3]]
<1>1. Len(lines) \in Nat /\ DOMAIN lines = D
  BY ListsFacts
<1>2. Sorted(lines) = [k \in D |-> lines[r(k)[3]]]
  BY <1>1 DEF Sorted
<1>3. \A n \in D : /\ key(n)[1] = lines[n].of /\ key(n)[1] \in Nat
                   /\ key(n)[2] \in Nat /\ key(n)[3] = n /\ key(n) \in K
  OBVIOUS
<1>4. ASSUME NEW x \in K
      PROVE  /\ x[1] \in Nat /\ x[2] \in Nat /\ x[3] \in D /\ x[3] \in Nat
             /\ x = key(x[3]) /\ x[1] = lines[x[3]].of
  <2>1. PICK n \in D : x = key(n)
    BY <1>4
  <2> HIDE DEF key, K
  <2>2. n \in Nat
    BY <1>1
  <2> QED
    BY <1>3, <2>1, <2>2
<1>5. IsFiniteSet(K) /\ Cardinality(K) = Len(lines)
  <2> DEFINE b == [n \in D |-> key(n)]
  <2>1. b \in Bijection(D, K)
    <3> HIDE DEF key
    <3>1. \A m, n \in D : key(m) = key(n) => m = n
      BY <1>3
    <3> QED
      BY <1>3, <3>1 DEF Bijection, Injection, Surjection, IsInjective
  <2>2. IsFiniteSet(D) /\ Cardinality(D) = Len(lines)
    BY <1>1, OneTo
  <2>3. ExistsBijection(D, K)
    BY <2>1 DEF ExistsBijection
  <2> HIDE DEF D, K, b
  <2> QED
    BY <2>2, <2>3, FS_Bijection
<1>6. Ordered(K, u)
  <2> DEFINE s(x) == TextKey(x[1])
             t(x) == TextKey(x[2])
  <2> HIDE DEF K, key, D
  <2>1. \A x \in K : u[x] \in SUBSET K /\ x \in u[x]
    BY <1>4
  <2>3. \A x \in K : s(x) \in Nat /\ t(x) \in Nat /\ x[3] \in Nat
    BY <1>4, TextKeyFacts
  <2>4. \A x, y \in K : /\ TextBefore(y[1], x[1]) <=> s(y) < s(x)
                        /\ TextBefore(y[2], x[2]) <=> t(y) < t(x)
                        /\ y[1] = x[1] <=> s(y) = s(x)
                        /\ y[2] = x[2] <=> t(y) = t(x)
    <3>1. ASSUME NEW m \in Nat, NEW n \in Nat
          PROVE  /\ TextBefore(m, n) <=> TextKey(m) < TextKey(n)
                 /\ m = n <=> TextKey(m) = TextKey(n)
      BY TextKeyFacts
    <3>2. \A x \in K : x[1] \in Nat /\ x[2] \in Nat
      BY <1>4
    <3> HIDE DEF u, upto
    <3> QED
      BY <3>1, <3>2
  <2>5. \A x, y \in K : y \in u[x] <=> \/ s(y) < s(x)
                                       \/ s(y) = s(x) /\ t(y) < t(x)
                                       \/ s(y) = s(x) /\ t(y) = t(x) /\ y[3] <= x[3]
    <3> HIDE DEF s, t
    <3>1. \A x, y \in K : y \in u[x] <=> \/ TextBefore(y[1], x[1])
                                         \/ y[1] = x[1] /\ TextBefore(y[2], x[2])
                                         \/ y[1] = x[1] /\ y[2] = x[2] /\ y[3] <= x[3]
      OBVIOUS
    <3> HIDE DEF u, upto
    <3> QED
      BY <2>4, <3>1
  <2> HIDE DEF s, t
  <2>2. ASSUME NEW x \in K, NEW y \in K, x # y
        PROVE  \/ u[x] \subseteq u[y] /\ y \notin u[x]
               \/ u[y] \subseteq u[x] /\ x \notin u[y]
    <3>1. x[3] # y[3]
      BY <1>4, <2>2
    <3>2. ASSUME NEW v \in K, NEW w \in K,
                 \/ s(v) < s(w)
                 \/ s(v) = s(w) /\ t(v) < t(w)
                 \/ s(v) = s(w) /\ t(v) = t(w) /\ v[3] < w[3]
          PROVE  u[v] \subseteq u[w] /\ w \notin u[v]
      <4> HIDE DEF u, upto
      <4>0. /\ s(v) \in Nat /\ t(v) \in Nat /\ v[3] \in Nat
            /\ s(w) \in Nat /\ t(w) \in Nat /\ w[3] \in Nat
        BY <2>3
      <4>1. ASSUME NEW z \in K, z \in u[v] PROVE z \in u[w]
        <5>1. \/ s(z) < s(v)
              \/ s(z) = s(v) /\ t(z) < t(v)
              \/ s(z) = s(v) /\ t(z) = t(v) /\ z[3] <= v[3]
          BY <2>5, <4>1
        <5>2. s(z) \in Nat /\ t(z) \in Nat /\ z[3] \in Nat
          BY <2>3
        <5>3. \/ s(z) < s(w)
              \/ s(z) = s(w) /\ t(z) < t(w)
              \/ s(z) = s(w) /\ t(z) = t(w) /\ z[3] <= w[3]
          BY <3>2, <4>0, <5>1, <5>2
        <5> QED
          BY <2>5, <5>3
      <4>2. w \notin u[v]
        <5>1. ~ \/ s(w) < s(v)
                \/ s(w) = s(v) /\ t(w) < t(v)
                \/ s(w) = s(v) /\ t(w) = t(v) /\ w[3] <= v[3]
          BY <3>2, <4>0
        <5>2. w \in u[v] <=> \/ s(w) < s(v)
                             \/ s(w) = s(v) /\ t(w) < t(v)
                             \/ s(w) = s(v) /\ t(w) = t(v) /\ w[3] <= v[3]
          BY <2>5, <3>2
        <5> QED
          BY <5>1, <5>2
      <4> QED
        BY <2>1, <4>1, <4>2
    <3>4. \/ s(x) < s(y) \/ s(y) < s(x)
          \/ s(x) = s(y) /\ (t(x) < t(y) \/ t(y) < t(x))
          \/ s(x) = s(y) /\ t(x) = t(y) /\ (x[3] < y[3] \/ y[3] < x[3])
      BY <2>3, <3>1
    <3> HIDE DEF u
    <3> QED
      BY <3>2, <3>4
  <2> QED
    BY <2>1, <2>2 DEF Ordered
<1> DEFINE at(k) == AtRank(K, u, k)
<1>7. /\ \A k \in D : at(k) \in K /\ Cardinality(u[at(k)]) = k
      /\ \A x \in K : \E k \in D : at(k) = x
      /\ \A j, k \in D : j < k => at(j) \in u[at(k)]
  <2> HIDE DEF K, u
  <2> QED
    BY <1>5, <1>6, Ranks
<1>8. \A x \in K : u[x] = upto(x)
  OBVIOUS
<1> HIDE DEF K, u, upto, at
<1>9. ASSUME NEW k \in D PROVE r(k) = at(k)
  <2>1. at(k) \in K /\ Cardinality(upto(at(k))) = k
    BY <1>7, <1>8
  <2>2. r(k) \in K /\ Cardinality(upto(r(k))) = k
    BY <2>1
  <2> HIDE DEF r
  <2>3. PICK j \in D : at(j) = r(k)
    BY <1>7, <2>2
  <2>4. j = k
    BY <1>7, <1>8, <2>2, <2>3
  <2> QED
    BY <2>3, <2>4
<1> HIDE DEF r
<1>10. /\ a \in [D -> D]
       /\ \A j, k \in D : a[j] = a[k] => j = k
       /\ \A n \in D : \E k \in D : a[k] = n
  <2>1. \A k \in D : a[k] = at(k)[3] /\ at(k) \in K
    BY <1>7, <1>9
  <2> HIDE DEF key, a, D
  <2>2. \A k \in D : a[k] \in D
    BY <1>4, <2>1
  <2>3. \A j, k \in D : at(j) = at(k) => j = k
    BY <1>7
  <2>4. \A j, k \in D : a[j] = a[k] => j = k
    BY <1>4, <2>1, <2>3
  <2>5. ASSUME NEW n \in D PROVE \E k \in D : a[k] = n
    <3>1. key(n) \in K /\ key(n)[3] = n
      BY <1>3
    <3> QED
      BY <1>7, <2>1, <3>1
  <2> QED
    BY <2>2, <2>4, <2>5 DEF a
<1>11. Sorted(lines) = [k \in D |-> lines[a[k]]]
  BY <1>2
<1>12. Lists(Sorted(lines), S, f) /\ Len(Sorted(lines)) = Len(lines)
  <2> DEFINE t == Sorted(lines)
  <2>1. t = [k \in D |-> lines[a[k]]]
    BY <1>11
  <2>3. Permutes(a, Len(lines))
    BY <1>10 DEF Permutes
  <2> HIDE DEF a, t
  <2>2. Lists(t, S, f) /\ Len(t) = Len(lines)
    BY <2>1, <2>3, ListsPermuted
  <2> QED
    BY <2>2 DEF t
<1>13. ASSUME NEW j \in D, NEW k \in D, j < k
       PROVE  TextKey(Sorted(lines)[j].of) <= TextKey(Sorted(lines)[k].of)
  <2>1. at(j) \in u[at(k)] /\ at(j) \in K /\ at(k) \in K
    BY <1>7, <1>13
  <2>2. TextKey(at(j)[1]) <= TextKey(at(k)[1])
    <3>1. TextBefore(at(j)[1], at(k)[1]) \/ at(j)[1] = at(k)[1]
      BY <1>8, <2>1 DEF upto
    <3>2. at(j)[1] \in Nat /\ at(k)[1] \in Nat
      BY <1>4, <2>1
    <3> DEFINE b == at(j)[1]
               c == at(k)[1]
    <3>3. b \in Nat /\ c \in Nat /\ (TextBefore(b, c) \/ b = c)
      BY <3>1, <3>2
    <3> HIDE DEF b, c
    <3>4. TextKey(b) <= TextKey(c)
      BY <3>3, TextKeyFacts
    <3> QED
      BY <3>4 DEF b, c
  <2>3. /\ Sorted(lines)[j] = lines[at(j)[3]]
        /\ Sorted(lines)[k] = lines[at(k)[3]]
    BY <1>2, <1>9
  <2> QED
    BY <1>4, <2>1, <2>2, <2>3
<1> QED
  BY <1>12, <1>13

-----------------------------------------------------------------------------
(* The entries as they are scanned: each place once.                       *)
Scanned == Sorted(csv.dirent)
EntryLines == 1 .. Len(csv.dirent)

NumbersPlaces(g) ==
    /\ g \in [EntryLines -> Places]
    /\ \A j, k \in EntryLines : g[j] = g[k] => j = k
    /\ \A p \in Places : \E k \in EntryLines : g[k] = p
    /\ \A k \in EntryLines : /\ Scanned[k].of = g[k][1]
                             /\ Scanned[k].inode = Entry(g[k]).inode
                             /\ Scanned[k].name = Entry(g[k]).name

LEMMA ScannedPlaces ==
    ASSUME ReaderInv, csv.printed, WithinReach
    PROVE  /\ Len(csv.dirent) \in Nat
           /\ \E g : NumbersPlaces(g)
           /\ \A j, k \in EntryLines :
                  j < k => TextKey(Scanned[j].of) <= TextKey(Scanned[k].of)
<1>1. PICK h : Lists(csv.dirent, Places, h) /\ \A p \in Places : PrintsEntry(h[p], p)
  BY DirentsSummed DEF ReaderInv
<1>2. Image /\ Len(csv.dirent) \in Nat
  BY <1>1, ListsFacts DEF ReaderInv
<1>3. \A p \in Places : /\ h[p].of = p[1] /\ h[p].inode = Entry(p).inode
                        /\ h[p].name = Entry(p).name /\ h[p].offset \in Nat
  <2> SUFFICES ASSUME NEW p \in Places
               PROVE  /\ h[p].of = p[1] /\ h[p].inode = Entry(p).inode
                      /\ h[p].name = Entry(p).name /\ h[p].offset \in Nat
    OBVIOUS
  <2>1. PrintsEntry(h[p], p)
    BY <1>1
  <2> DEFINE o == h[p].offset
  <2>2. o \in Nat /\ h[p] = [of |-> p[1], offset |-> o, inode |-> Entry(p).inode, name |-> Entry(p).name]
    BY <2>1 DEF PrintsEntry
  <2> HIDE DEF o
  <2> QED
    BY <2>2
<1>4. \A p \in Places : p[1] \in Nat
  BY <1>2, PlacesAre, ImageNumbers DEF Dirs, InUse
<1>5. \A n \in EntryLines : csv.dirent[n].of \in Nat /\ csv.dirent[n].offset \in Nat
  <2>1. \A n \in EntryLines : \E p \in Places : csv.dirent[n] = h[p]
    BY <1>1, ListsFacts DEF EntryLines
  <2> QED
    BY <1>3, <1>4, <2>1
<1>6. /\ Lists(Scanned, Places, h) /\ Len(Scanned) = Len(csv.dirent)
      /\ \A j, k \in EntryLines : j < k => TextKey(Scanned[j].of) <= TextKey(Scanned[k].of)
  BY <1>1, <1>5, SortedLists DEF EntryLines, Scanned
<1>7. PICK g : Numbers(g, Scanned, Places, h)
  BY <1>6 DEF Lists
<1>8. NumbersPlaces(g)
  BY <1>3, <1>6, <1>7 DEF Numbers, NumbersPlaces, EntryLines
<1> QED
  BY <1>2, <1>6, <1>8

(* What the steps of the checker use of a complete summary.                *)
Given ==
    /\ Complete
    /\ FreeInodes \subseteq Nat \ {0}
    /\ \A i \in InUse : Inode(i).links \in Nat
    /\ Len(csv.dirent) \in Nat
    /\ \A k \in EntryLines :
           /\ Scanned[k].of \in InUse /\ Scanned[k].inode \in Nat \ {0}
           /\ Last(Scanned[k].name) = Scanned[k].name[1]
    /\ \A j, k \in EntryLines : j < k => TextKey(Scanned[j].of) <= TextKey(Scanned[k].of)

LEMMA GivenByReader ==
    ASSUME ReaderInv, csv.printed, WithinReach
    PROVE  Given
<1>1. Complete
  BY SummaryPrinted DEF ReaderInv, Complete, FreeRead, BfreeRead, IfreeRead
<1>2. PICK g : NumbersPlaces(g)
  BY ScannedPlaces
<1>3. \A p \in Places : /\ p[1] \in InUse
                        /\ Entry(p).inode \in Nat \ {0} /\ Last(Entry(p).name) = Entry(p).name[1]
  <2> SUFFICES ASSUME NEW p \in Places
               PROVE  /\ p[1] \in InUse
                      /\ Entry(p).inode \in Nat \ {0} /\ Last(Entry(p).name) = Entry(p).name[1]
    OBVIOUS
  <2>1. Image /\ p \in Entries
    BY <1>1 DEF Complete, WithinReach
  <2>2. p[1] \in InUse
    BY <2>1, PlacesAre DEF Dirs
  <2>3. Entry(p).inode > 0 /\ Len(Entry(p).name) = 1
    BY <2>1 DEF WithinReach
  <2>4. Entry(p).inode \in Int
    <3>1. EntriesAt(Inode(p[1]).ptr[p[2]]) \in Seq(EntryFields)
      BY <2>1, ImageBlocks
    <3>2. Entry(p) \in EntryFields
      BY <2>1, <3>1, PlacesAre DEF Entry
    <3> QED
      BY <3>2 DEF EntryFields
  <2> QED
    BY <2>2, <2>3, <2>4 DEF Last
<1>4. \A k \in EntryLines :
          /\ Scanned[k].of \in InUse /\ Scanned[k].inode \in Nat \ {0}
          /\ Last(Scanned[k].name) = Scanned[k].name[1]
  BY <1>2, <1>3 DEF NumbersPlaces
<1>5. FreeInodes \subseteq Nat \ {0} /\ \A i \in InUse : Inode(i).links \in Nat
  <2>1. Image /\ GroupsRead
    BY DEF ReaderInv
  <2>2. disk.group[1].inode_bitmap \in DOMAIN disk.clear
    BY <2>1, OneGroup DEF GroupFields
  <2>3. ClearBits("inode_bitmap", disk.inodes_per_group) \subseteq Nat
    BY <2>1, <2>2, ImageBlocks DEF ClearBits
  <2>4. FreeInodes \subseteq Nat \ {0}
    BY <2>3 DEF FreeInodes
  <2>5. \A i \in InUse : Inode(i) \in InodeFields
    BY <2>1, InodeTable
  <2> QED
    BY <2>4, <2>5 DEF InodeFields
<1> QED
  BY <1>1, <1>4, <1>5, ScannedPlaces DEF Given

-----------------------------------------------------------------------------
(* What is known of the inodes, and reported, when some INODE lines and    *)
(* some entries have been seen.                                            *)

SeenNodes ==
    {csv.inode[n].of : n \in {n \in 1 .. Len(csv.inode) :
        \/ section \in {"dirent", "indirect", "done"}
        \/ section = "inode" /\ (n < line \/ (n = line /\ num > 0))}}
SeenEntries ==
    {k \in EntryLines : \/ section \in {"indirect", "done"}
                        \/ section = "dirent" /\ k < line}
IFreeNow == IF section \in {"bfree", "ifree"} THEN {} ELSE FreeInodes

EntriesOf(K, i) == {k \in K : Scanned[k].inode = i}

AllInos == Reported("free", {"all_ino"})
UnallInos == Reported("free", {"unall_ino"})
DirErrs == Reported("dir", {"unall", "inv"})
LinkErrs == {e \in err_list : e.type = "link"}

NodeEntries == [is : {"array"}, linkcount : Nat, links : Nat, parent : Nat]

(* The table of inodes counts the entries seen so far.                     *)
NodesOK ==
    /\ DOMAIN inode_hash = 0 .. csv.inodes \cup IFreeNow
    /\ \A i \in DOMAIN inode_hash \ SeenNodes :
           inode_hash[i] = IF i \in IFreeNow THEN Free ELSE Unreferenced
    /\ \A i \in SeenNodes : /\ inode_hash[i] \in NodeEntries
                            /\ inode_hash[i].linkcount = Inode(i).links
                            /\ inode_hash[i].links = Cardinality(EntriesOf(SeenEntries, i))

AllInosOK == {e.element : e \in AllInos} = SeenNodes \cap IFreeNow

DirErrsOK ==
    {<<e.dir, e.inode>> : e \in DirErrs} =
        {<<Scanned[k].of, Scanned[k].inode>> : k \in {k \in SeenEntries : Scanned[k].inode \notin InUse}}

UnallInosOK ==
    {e.element : e \in UnallInos} =
        IF section = "done" THEN csv.first_ino .. csv.inodes \ (InUse \cup FreeInodes) ELSE {}

LinkErrsOK ==
    {<<e.inode, e.links>> : e \in LinkErrs} =
        IF section = "done"
        THEN {<<i, Cardinality(EntriesOf(EntryLines, i))>> :
                 i \in {i \in InUse : Cardinality(EntriesOf(EntryLines, i)) # Inode(i).links}}
        ELSE {}

InodeInv == NodesOK /\ AllInosOK /\ DirErrsOK /\ UnallInosOK /\ LinkErrsOK

LEMMA StaysGiven ==
    ASSUME UNCHANGED <<disk, csv>>
    PROVE  /\ Scanned' = Scanned /\ EntryLines' = EntryLines
           /\ InUse' = InUse /\ FreeInodes' = FreeInodes
           /\ \A i : Inode(i)' = Inode(i)
           /\ \A K, i : EntriesOf(K, i)' = EntriesOf(K, i)
<1>1. Scanned' = Scanned /\ EntryLines' = EntryLines
  BY DEF Scanned, EntryLines
<1>2. InUse' = InUse /\ FreeInodes' = FreeInodes
  BY DEF InUse, Inode, FreeInodes, ClearBits
<1>3. \A i : Inode(i)' = Inode(i)
  BY DEF Inode
<1>4. \A K, i : EntriesOf(K, i)' = EntriesOf(K, i)
  BY <1>1 DEF EntriesOf
<1> QED
  BY <1>1, <1>2, <1>3, <1>4

(* A step that finds no error about inodes.                                *)
SameErrors ==
    /\ AllInos' = AllInos /\ UnallInos' = UnallInos
    /\ DirErrs' = DirErrs /\ LinkErrs' = LinkErrs

LEMMA OtherErrorsOfBlocks ==
    ASSUME NEW X, err_list' = err_list \cup X,
           \A e \in X : e.type \in {"block", "unref"} \/ (e.type = "free" /\ e.flag = "all_blk")
    PROVE  SameErrors
BY DEF SameErrors, AllInos, UnallInos, DirErrs, LinkErrs, Reported

LEMMA SameList == err_list' = err_list => SameErrors
BY DEF SameErrors, AllInos, UnallInos, DirErrs, LinkErrs, Reported

LEMMA InodesStay ==
    ASSUME InodeInv, UNCHANGED <<disk, csv, inode_hash>>, SameErrors,
           SeenNodes' = SeenNodes, SeenEntries' = SeenEntries, IFreeNow' = IFreeNow,
           section # "done", section' # "done"
    PROVE  InodeInv'
<1>1. /\ Scanned' = Scanned /\ InUse' = InUse
      /\ \A i : Inode(i)' = Inode(i)
      /\ \A K, i : EntriesOf(K, i)' = EntriesOf(K, i)
  BY StaysGiven
<1>2. \A i : EntriesOf(SeenEntries, i)' = EntriesOf(SeenEntries, i)
  BY <1>1 DEF EntriesOf
<1>3. NodesOK'
  BY <1>1, <1>2 DEF InodeInv, NodesOK
<1>4. AllInosOK'
  BY DEF InodeInv, AllInosOK, SameErrors
<1>5. DirErrsOK'
  BY <1>1 DEF InodeInv, DirErrsOK, SameErrors
<1>6. UnallInosOK' /\ LinkErrsOK'
  BY DEF InodeInv, UnallInosOK, LinkErrsOK, SameErrors
<1> QED
  BY <1>3, <1>4, <1>5, <1>6 DEF InodeInv

LEMMA GivenNumbers ==
    ASSUME Given
    PROVE  /\ csv.inodes = disk.inodes /\ csv.inodes \in Nat
           /\ InUse \subseteq 1 .. csv.inodes /\ 1 .. csv.inodes \subseteq Nat
           /\ ToSet(csv.ifree) = FreeInodes /\ FreeInodes \subseteq Nat \ {0}
           /\ \A i \in InUse : Inode(i).links \in Nat
           /\ InUse = {csv.inode[n].of : n \in 1 .. Len(csv.inode)}
<1>1. /\ csv.inodes = disk.inodes /\ csv.inodes \in Nat
      /\ ToSet(csv.ifree) = FreeInodes /\ Image
  BY ImageNumbers DEF Given, Complete, SummaryOK
<1>2. InUse \subseteq 1 .. csv.inodes /\ 1 .. csv.inodes \subseteq Nat
  BY <1>1 DEF InUse
<1>3. FreeInodes \subseteq Nat \ {0} /\ \A i \in InUse : Inode(i).links \in Nat
  BY DEF Given
<1>5. InUse = {csv.inode[n].of : n \in 1 .. Len(csv.inode)}
  BY InodeLines DEF Given
<1> QED
  BY <1>1, <1>2, <1>3, <1>5

(* The steps up to the INODE lines.                                        *)
LEMMA NothingYet ==
    /\ section \in {"bfree", "ifree"} => SeenNodes = {} /\ SeenEntries = {} /\ IFreeNow = {}
    /\ section' \in {"bfree", "ifree"} => SeenNodes' = {} /\ SeenEntries' = {} /\ IFreeNow' = {}
BY DEF SeenNodes, SeenEntries, IFreeNow

LEMMA HeaderInodes ==
    ASSUME ScanOK, Given, ScanHeader, UNCHANGED <<disk, csv>>, exit_b' # 1
    PROVE  InodeInv'
<1>1. /\ inode_hash' = [i \in 0 .. csv.inodes |-> Unreferenced]
      /\ err_list' = {} /\ section' = "bfree" /\ csv' = csv
  BY DEF ScanHeader, Raise, At1, ScanOK
<1>2. SeenNodes' = {} /\ SeenEntries' = {} /\ IFreeNow' = {}
  BY <1>1, NothingYet
<1>3. NodesOK'
  BY <1>1, <1>2 DEF NodesOK
<1>4. AllInos' = {} /\ UnallInos' = {} /\ DirErrs' = {} /\ LinkErrs' = {}
  BY <1>1 DEF AllInos, UnallInos, DirErrs, LinkErrs, Reported
<1> QED
  BY <1>1, <1>2, <1>3, <1>4 DEF InodeInv, AllInosOK, UnallInosOK, DirErrsOK, LinkErrsOK

LEMMA BfreeInodes ==
    ASSUME InodeInv, ScanBfree, UNCHANGED <<disk, csv>>
    PROVE  InodeInv'
<1>1. /\ inode_hash' = inode_hash /\ err_list' = err_list
      /\ section = "bfree" /\ section' = "ifree"
  BY DEF ScanBfree, At1
<1>2. /\ SeenNodes' = SeenNodes /\ SeenEntries' = SeenEntries /\ IFreeNow' = IFreeNow
  BY <1>1, NothingYet
<1> QED
  BY <1>1, <1>2, SameList, InodesStay

LEMMA IfreeInodes ==
    ASSUME Given, InodeInv, ScanIfree, UNCHANGED <<disk, csv>>
    PROVE  InodeInv'
<1>1. /\ inode_hash' = PutAll(inode_hash, FreeInodes, Free) /\ err_list' = err_list
      /\ section = "ifree" /\ section' = "inode" /\ line' = 1 /\ num' = 0
  BY GivenNumbers DEF ScanIfree, At1
<1>2. SeenNodes = {} /\ SeenEntries = {} /\ IFreeNow = {}
  BY <1>1, NothingYet
<1>3. SeenNodes' = {} /\ SeenEntries' = {} /\ IFreeNow' = FreeInodes
  <2>1. Len(csv.inode) \in Nat
    BY InodeLines DEF Given
  <2>2. SeenNodes' = {}
    BY <1>1, <2>1 DEF SeenNodes
  <2>3. SeenEntries' = {}
    BY <1>1 DEF SeenEntries
  <2> QED
    BY <1>1, <2>2, <2>3, StaysGiven DEF IFreeNow
<1>4. SameErrors
  BY <1>1, SameList
<1>5. NodesOK'
  <2>1. DOMAIN inode_hash = 0 .. csv.inodes
        /\ \A i \in DOMAIN inode_hash : inode_hash[i] = Unreferenced
    BY <1>2 DEF InodeInv, NodesOK
  <2>2. /\ DOMAIN inode_hash' = 0 .. csv.inodes \cup FreeInodes
        /\ \A i \in DOMAIN inode_hash' :
               inode_hash'[i] = IF i \in FreeInodes THEN Free ELSE Unreferenced
    BY <1>1, <2>1 DEF PutAll
  <2> QED
    BY <1>3, <2>2 DEF NodesOK
<1>6. AllInosOK' /\ DirErrsOK' /\ UnallInosOK' /\ LinkErrsOK'
  BY <1>1, <1>2, <1>3, <1>4
     DEF InodeInv, AllInosOK, UnallInosOK, DirErrsOK, LinkErrsOK, SameErrors
<1> QED
  BY <1>5, <1>6 DEF InodeInv

(* The INODE lines.                                                        *)
LEMMA StartsNode ==
    ASSUME ScanOK, Given, InodeLineStart, UNCHANGED csv
    PROVE  LET i == csv.inode[line].of
           IN  /\ i \in InUse /\ i \notin SeenNodes /\ SeenNodes' = SeenNodes \cup {i}
               /\ csv.inode[line].links = Inode(i).links
<1> DEFINE i == csv.inode[line].of
<1>1. /\ section = "inode" /\ section' = "inode" /\ num = 0 /\ line \in Nat
      /\ line \in 1 .. Len(csv.inode) /\ Len(csv.inode) \in Nat
  BY InodeLines DEF InodeLineStart, ScanOK, Given
<1>2. \/ line' = line + 1 /\ num' = 0
      \/ line' = line /\ num' = 1
  BY <1>1 DEF InodeLineStart
<1>3. /\ SeenNodes = {csv.inode[n].of : n \in {n \in 1 .. Len(csv.inode) : n < line}}
      /\ SeenNodes' = {csv.inode[n].of : n \in {n \in 1 .. Len(csv.inode) : n <= line}}
  BY <1>1, <1>2 DEF SeenNodes
<1>4. i \in InUse /\ csv.inode[line].links = Inode(i).links
  BY <1>1, InodeLines DEF Given
<1>5. i \notin SeenNodes
  BY <1>1, <1>3, InodeLines DEF Given
<1>6. SeenNodes' = SeenNodes \cup {i}
  BY <1>1, <1>3
<1> QED
  BY <1>4, <1>5, <1>6

LEMMA CountedIs ==
    ASSUME NEW n \in Nat
    PROVE  /\ Counted(n) \in NodeEntries
           /\ Counted(n).linkcount = n /\ Counted(n).links = 0 /\ Counted(n).parent = 0
BY DEF Counted, NodeEntries

(* The entry of an inode in use is found at its number.                    *)
LEMMA NodeAt ==
    ASSUME Given, InodeInv, NEW i \in Nat
    PROVE  /\ Index(inode_hash, i) = i
           /\ At(inode_hash, i) = IF i \in DOMAIN inode_hash THEN inode_hash[i] ELSE Nil
           /\ i \in InUse => i \in DOMAIN inode_hash
<1>1. Index(inode_hash, i) = i
  BY DEF Index
<1>2. i \in InUse => i \in DOMAIN inode_hash
  BY GivenNumbers DEF InodeInv, NodesOK
<1> QED
  BY <1>1, <1>2 DEF At

LEMMA LineStartInodes ==
    ASSUME ScanOK, Given, InodeInv, InodeLineStart, UNCHANGED <<disk, csv>>
    PROVE  InodeInv'
<1> DEFINE i == csv.inode[line].of
           X == IF At(inode_hash, i) = Free THEN {ErrFree("all_ino", i)} ELSE {}
<1>1. /\ i \in InUse /\ i \notin SeenNodes /\ SeenNodes' = SeenNodes \cup {i}
      /\ csv.inode[line].links = Inode(i).links
  BY StartsNode
<1>2. /\ section = "inode" /\ section' = "inode" /\ err_list' = err_list \cup X
      /\ inode_hash' = Put(inode_hash, i, Counted(Inode(i).links))
  BY <1>1 DEF InodeLineStart
<1>3. SeenEntries = {} /\ SeenEntries' = {} /\ IFreeNow' = IFreeNow
  BY <1>2, StaysGiven DEF SeenEntries, IFreeNow
<1>4. i \in Nat /\ i \in 0 .. csv.inodes /\ Inode(i).links \in Nat
  BY <1>1, GivenNumbers
<1>5. /\ i \in DOMAIN inode_hash /\ Index(inode_hash, i) = i
      /\ At(inode_hash, i) = inode_hash[i]
  BY <1>1, <1>4, NodeAt
<1>6. inode_hash[i] = IF i \in IFreeNow THEN Free ELSE Unreferenced
  BY <1>1, <1>5 DEF InodeInv, NodesOK
<1> HIDE DEF i
<1>7. /\ DOMAIN inode_hash' = DOMAIN inode_hash
      /\ inode_hash'[i] = Counted(Inode(i).links)
      /\ \A j \in DOMAIN inode_hash \ {i} : inode_hash'[j] = inode_hash[j]
  BY <1>2, <1>5 DEF Put, PutAll
<1>8. NodesOK'
  <2>1. DOMAIN inode_hash' = 0 .. csv'.inodes \cup IFreeNow'
    BY <1>3, <1>7 DEF InodeInv, NodesOK
  <2>2. \A j \in DOMAIN inode_hash' \ SeenNodes' :
            inode_hash'[j] = IF j \in IFreeNow' THEN Free ELSE Unreferenced
    BY <1>1, <1>3, <1>7 DEF InodeInv, NodesOK
  <2>seen. /\ EntriesOf(SeenEntries, i) = {} /\ Cardinality({}) = 0
        /\ \A j : EntriesOf(SeenEntries, j)' = EntriesOf(SeenEntries, j)
    BY <1>3, FS_EmptySet DEF EntriesOf
  <2>4. \A j \in SeenNodes' : /\ inode_hash'[j] \in NodeEntries
                              /\ inode_hash'[j].linkcount = Inode(j).links
                              /\ inode_hash'[j].links = Cardinality(EntriesOf(SeenEntries, j))
    <3>1. \A j \in SeenNodes : j # i /\ j \in DOMAIN inode_hash
      <4>1. SeenNodes \subseteq InUse
        BY GivenNumbers DEF SeenNodes
      <4>2. InUse \subseteq DOMAIN inode_hash
        BY GivenNumbers, NodeAt
      <4> QED
        BY <1>1, <4>1, <4>2
    <3>2. /\ inode_hash'[i] \in NodeEntries
          /\ inode_hash'[i].linkcount = Inode(i).links
          /\ inode_hash'[i].links = Cardinality(EntriesOf(SeenEntries, i))
      BY <1>4, <1>7, <2>seen, CountedIs
    <3>3. ASSUME NEW j \in SeenNodes
          PROVE  /\ inode_hash'[j] \in NodeEntries
                 /\ inode_hash'[j].linkcount = Inode(j).links
                 /\ inode_hash'[j].links = Cardinality(EntriesOf(SeenEntries, j))
      <4>1. inode_hash'[j] = inode_hash[j]
        BY <1>7, <3>1
      <4> QED
        BY <4>1 DEF InodeInv, NodesOK
    <3> QED
      BY <1>1, <3>2, <3>3
  <2> QED
    BY <2>1, <2>2, <2>seen, <2>4, StaysGiven DEF NodesOK
<1>9. AllInosOK'
  <2>1. Free # Unreferenced
    BY DEF Free, Unreferenced
  <2>2. AllInos' = AllInos \cup X
    BY <1>2, ErrorKinds DEF AllInos, Reported
  <2>3. {e.element : e \in X} = {i} \cap IFreeNow
    BY <1>5, <1>6, <2>1, ErrorKinds
  <2> HIDE DEF X
  <2> QED
    BY <1>1, <1>3, <2>2, <2>3 DEF InodeInv, AllInosOK
<1>10. DirErrsOK' /\ UnallInosOK' /\ LinkErrsOK'
  <2>1. UnallInos' = UnallInos /\ DirErrs' = DirErrs /\ LinkErrs' = LinkErrs
    BY <1>2, ErrorKinds DEF UnallInos, DirErrs, LinkErrs, Reported
  <2> QED
    BY <1>2, <1>3, <2>1 DEF InodeInv, UnallInosOK, DirErrsOK, LinkErrsOK
<1> QED
  BY <1>8, <1>9, <1>10 DEF InodeInv

LEMMA PointerInodes ==
    ASSUME ScanOK, Given, InodeInv, CheckPointer, UNCHANGED <<disk, csv>>, exit_b' # 1
    PROVE  InodeInv'
<1> DEFINE e == csv.inode[line]
           block == e.ptr[num - 1]
           level == Level(num - 1)
           X == err_list' \ err_list
<1>1. /\ section = "inode" /\ section' = "inode" /\ inode_hash' = inode_hash
      /\ num > 0 /\ line \in Nat
      /\ (line' = line + 1 /\ num' = 0) \/ (line' = line /\ num' = num + 1)
      /\ num \in Nat
  BY ImageAssumption DEF CheckPointer, ScanOK
<1>2. SeenEntries' = SeenEntries /\ IFreeNow' = IFreeNow
  BY <1>1, StaysGiven DEF SeenEntries, IFreeNow
<1>3. SeenNodes' = SeenNodes
  <2>1. \A n \in Nat : (n < line' \/ (n = line' /\ num' > 0))
                       <=> (n < line \/ (n = line /\ num > 0))
    BY <1>1
  <2>2. \A n \in 1 .. Len(csv.inode) : n \in Nat
    BY InodeLines DEF Given
  <2> QED
    BY <1>1, <2>1, <2>2 DEF SeenNodes
<1>4. err_list' = err_list \cup X
  <2>1. err_list \subseteq err_list'
    BY DEF CheckPointer
  <2> QED
    BY <2>1
<1>5. \A x \in X : x.type \in {"block", "unref"} \/ (x.type = "free" /\ x.flag = "all_blk")
  <2>1. \A x \in X : x \in OutOfRange(block, level, e.of) \cup AlreadyUsed(block, level, e.of)
    BY DEF CheckPointer
  <2>2. \A x \in OutOfRange(block, level, e.of) : x.type = "block"
    BY ErrorKinds DEF OutOfRange
  <2>3. \A x \in AlreadyUsed(block, level, e.of) :
            x.type = "block" \/ (x.type = "free" /\ x.flag = "all_blk")
    BY ErrorKinds DEF AlreadyUsed
  <2> QED
    BY <2>1, <2>2, <2>3
<1>6. SameErrors
  <2> HIDE DEF X
  <2> QED
    BY <1>4, <1>5, OtherErrorsOfBlocks
<1> QED
  BY <1>1, <1>2, <1>3, <1>6, InodesStay

-----------------------------------------------------------------------------
(* The root directory, and the entries.                                    *)

LEMMA RootInodes ==
    ASSUME ScanOK, Given, InodeInv, SetRoot, UNCHANGED <<disk, csv>>, exit_b' # 1
    PROVE  InodeInv'
<1>1. /\ section = "inode" /\ section' = "dirent" /\ line' = 1
      /\ line > Len(csv.inode) /\ line \in Nat /\ Len(csv.inode) \in Nat
      /\ IsArray(At(inode_hash, 2)) /\ err_list' = err_list
      /\ inode_hash' = [inode_hash EXCEPT ![2].parent = 2]
  BY InodeLines DEF SetRoot, Raise, At1, ScanOK, Given
<1>2. SeenNodes' = SeenNodes
  <2>1. \A n \in 1 .. Len(csv.inode) : n < line
    BY <1>1
  <2> QED
    BY <1>1, <2>1 DEF SeenNodes
<1>3. SeenEntries = {} /\ SeenEntries' = {} /\ IFreeNow' = IFreeNow
  BY <1>1, StaysGiven DEF SeenEntries, IFreeNow, EntryLines, Given
<1>4. 2 \in DOMAIN inode_hash /\ IsArray(inode_hash[2])
  <2>1. At(inode_hash, 2) = IF 2 \in DOMAIN inode_hash THEN inode_hash[2] ELSE Nil
    BY NodeAt
  <2> QED
    BY <1>1, <2>1 DEF IsArray, Nil
<1>5. 2 \in SeenNodes
  BY <1>4 DEF InodeInv, NodesOK, IsArray, Free, Unreferenced
<1>6. /\ DOMAIN inode_hash' = DOMAIN inode_hash
      /\ \A j \in DOMAIN inode_hash \ {2} : inode_hash'[j] = inode_hash[j]
      /\ inode_hash'[2] = [inode_hash[2] EXCEPT !.parent = 2]
  BY <1>1, <1>4
<1>7. /\ inode_hash'[2] \in NodeEntries
      /\ inode_hash'[2].linkcount = inode_hash[2].linkcount
      /\ inode_hash'[2].links = inode_hash[2].links
  <2>1. inode_hash[2] \in NodeEntries
    BY <1>5 DEF InodeInv, NodesOK
  <2> QED
    BY <1>6, <2>1 DEF NodeEntries
<1>8. NodesOK'
  <2>1. DOMAIN inode_hash' = 0 .. csv'.inodes \cup IFreeNow'
    BY <1>3, <1>6 DEF InodeInv, NodesOK
  <2>2. \A j \in DOMAIN inode_hash' \ SeenNodes' :
            inode_hash'[j] = IF j \in IFreeNow' THEN Free ELSE Unreferenced
    BY <1>2, <1>3, <1>5, <1>6 DEF InodeInv, NodesOK
  <2>3. \A j : EntriesOf(SeenEntries, j)' = EntriesOf(SeenEntries, j)
    BY <1>3 DEF EntriesOf
  <2>4. ASSUME NEW j \in SeenNodes'
        PROVE  /\ inode_hash'[j] \in NodeEntries
               /\ inode_hash'[j].linkcount = Inode(j)'.links
               /\ inode_hash'[j].links = Cardinality(EntriesOf(SeenEntries, j)')
    <3>1. /\ inode_hash[j] \in NodeEntries
          /\ inode_hash[j].linkcount = Inode(j).links
          /\ inode_hash[j].links = Cardinality(EntriesOf(SeenEntries, j))
      BY <1>2 DEF InodeInv, NodesOK
    <3>2. j \in DOMAIN inode_hash
      <4>1. j \in InUse
        BY <1>2, GivenNumbers DEF SeenNodes
      <4> QED
        BY <4>1, GivenNumbers, NodeAt
    <3>3. Inode(j)' = Inode(j)
      BY StaysGiven
    <3>4. CASE j = 2
      BY <1>7, <2>3, <3>1, <3>3, <3>4
    <3>5. CASE j # 2
      <4>1. inode_hash'[j] = inode_hash[j]
        BY <1>6, <3>2, <3>5
      <4> QED
        BY <2>3, <3>1, <3>3, <4>1
    <3> QED
      BY <3>4, <3>5
  <2> QED
    BY <2>1, <2>2, <2>4 DEF NodesOK
<1>9. SameErrors
  BY <1>1, SameList
<1>10. AllInosOK' /\ DirErrsOK' /\ UnallInosOK' /\ LinkErrsOK'
  BY <1>1, <1>2, <1>3, <1>9
     DEF InodeInv, AllInosOK, UnallInosOK, DirErrsOK, LinkErrsOK, SameErrors
<1> QED
  BY <1>8, <1>10 DEF InodeInv

(* A step of an entry that names an inode in use counts it, and may set a  *)
(* parent.                                                                 *)
Counts(i) ==
    /\ DOMAIN inode_hash' = DOMAIN inode_hash
    /\ \A j \in DOMAIN inode_hash \ InUse : inode_hash'[j] = inode_hash[j]
    /\ \A j \in InUse :
           /\ inode_hash'[j] \in NodeEntries
           /\ inode_hash'[j].linkcount = inode_hash[j].linkcount
           /\ inode_hash'[j].links = inode_hash[j].links + IF j = i THEN 1 ELSE 0
SetsParent(i, c) ==
    \A j \in InUse : inode_hash'[j].parent = IF j = i THEN c ELSE inode_hash[j].parent
SetsNone == \A j \in InUse : inode_hash'[j].parent = inode_hash[j].parent

(* What the entries say so far, and the errors about it.                   *)
ParentErrs == Reported("parent", {"self", "parent"})
Says(k, name) == Scanned[k].name[1] = name
Par(i) == inode_hash[i].parent

LEMMA CountLinkIs ==
    ASSUME NEW i \in InUse, NEW dir \in InUse, NEW c \in Nat,
           Index(inode_hash, i) = i, InUse \subseteq DOMAIN inode_hash,
           \A j \in InUse : inode_hash[j] \in NodeEntries
    PROVE  /\ inode_hash' = CountLink(i) => Counts(i) /\ SetsNone
           /\ inode_hash' = [CountLink(i) EXCEPT ![dir].parent = c]
                  => Counts(i) /\ SetsParent(dir, c)
<1> DEFINE H == CountLink(i)
<1>1. H = [inode_hash EXCEPT ![i].links = @ + 1]
  BY DEF CountLink
<1>2. /\ DOMAIN H = DOMAIN inode_hash
      /\ \A j \in DOMAIN inode_hash : H[j] = IF j = i THEN [inode_hash[i] EXCEPT !.links = @ + 1]
                                                      ELSE inode_hash[j]
  BY <1>1
<1>3. ASSUME NEW j \in InUse
      PROVE  /\ H[j] \in NodeEntries /\ H[j].linkcount = inode_hash[j].linkcount
             /\ H[j].links = inode_hash[j].links + IF j = i THEN 1 ELSE 0
             /\ H[j].parent = inode_hash[j].parent
  <2>1. inode_hash[j] \in NodeEntries
    OBVIOUS
  <2>2. CASE j = i
    <3>1. H[j] = [inode_hash[j] EXCEPT !.links = @ + 1]
      BY <1>2, <2>2
    <3> HIDE DEF H
    <3> QED
      BY <2>1, <2>2, <3>1 DEF NodeEntries
  <2>3. CASE j # i
    <3>1. H[j] = inode_hash[j] /\ inode_hash[j].links \in Nat
      BY <1>2, <2>1, <2>3 DEF NodeEntries
    <3> HIDE DEF H
    <3> QED
      BY <2>1, <2>3, <3>1
  <2> QED
    BY <2>2, <2>3
<1> HIDE DEF H
<1>4. ASSUME inode_hash' = H PROVE Counts(i) /\ SetsNone
  BY <1>2, <1>3, <1>4 DEF Counts, SetsNone
<1>5. ASSUME inode_hash' = [H EXCEPT ![dir].parent = c] PROVE Counts(i) /\ SetsParent(dir, c)
  <2>1. /\ DOMAIN inode_hash' = DOMAIN inode_hash
        /\ \A j \in DOMAIN inode_hash : j # dir => inode_hash'[j] = H[j]
        /\ inode_hash'[dir] = [H[dir] EXCEPT !.parent = c]
    BY <1>2, <1>5
  <2>2. /\ inode_hash'[dir] \in NodeEntries
        /\ inode_hash'[dir].linkcount = H[dir].linkcount
        /\ inode_hash'[dir].links = H[dir].links
        /\ inode_hash'[dir].parent = c
    BY <1>3, <2>1 DEF NodeEntries
  <2>3. \A j \in DOMAIN inode_hash \ InUse : inode_hash'[j] = inode_hash[j]
    BY <1>2, <2>1
  <2>4. ASSUME NEW j \in InUse
        PROVE  /\ inode_hash'[j] \in NodeEntries
               /\ inode_hash'[j].linkcount = H[j].linkcount
               /\ inode_hash'[j].links = H[j].links
               /\ inode_hash'[j].parent = IF j = dir THEN c ELSE H[j].parent
    BY <1>3, <2>1, <2>2
  <2> QED
    BY <1>3, <2>1, <2>3, <2>4 DEF Counts, SetsParent
<1> QED
  BY <1>4, <1>5 DEF H

(* The step of an entry, by what it names.                                 *)
LEMMA EntryStep ==
    ASSUME ScanOK, Given, InodeInv, ScanDirent, UNCHANGED <<disk, csv>>, exit_b' # 1
    PROVE  LET e == Scanned[line]
               known == Par(e.of)
           IN  /\ line \in EntryLines /\ e.of \in InUse /\ e.inode \in Nat \ {0}
               /\ section = "dirent" /\ section' = "dirent"
               /\ SeenEntries' = SeenEntries \cup {line} /\ line \notin SeenEntries
               /\ SeenNodes = InUse /\ SeenNodes' = InUse /\ IFreeNow' = IFreeNow
               /\ e.inode \notin InUse =>
                      /\ inode_hash' = inode_hash
                      /\ \E f \in {"unall", "inv"} :
                             err_list' = err_list \cup {ErrDir(f, e.of, e.inode, e.name[1])}
               /\ e.inode \in InUse =>
                      /\ Counts(e.inode)
                      /\ \/ /\ Says(line, ".") /\ SetsNone
                            /\ err_list' = err_list \cup
                                   IF e.inode = e.of THEN {}
                                   ELSE {ErrParent("self", e.of, e.inode, e.of)}
                         \/ /\ Says(line, "..") /\ e.inode # known /\ SetsParent(e.of, e.inode)
                            /\ \E c : err_list' = err_list \cup
                                   IF known = 0 THEN {} ELSE {ErrParent("parent", e.of, e.inode, c)}
                         \/ /\ ~Says(line, ".") /\ SetsParent(e.inode, e.of)
                            /\ Says(line, "..") => e.inode = known
                            /\ err_list' = err_list \cup
                                   IF Par(e.inode) \in {0, e.of} THEN {}
                                   ELSE {ErrParent("parent", e.inode, Par(e.inode), e.of)}
<1> DEFINE e == Scanned[line]
           entry == At(inode_hash, e.inode)
           name == Last(e.name)
           BadEntry ==
               /\ IsSymbol(entry) \/ (entry = Nil /\ e.inode > csv.inodes)
               /\ err_list' = err_list \cup
                      {ErrDir(IF IsSymbol(entry) THEN "unall" ELSE "inv", e.of, e.inode, name)}
               /\ line' = line + 1
               /\ UNCHANGED <<tables, section, num, exit_b>>
           GoodEntry ==
               /\ IsArray(entry)
               /\ CASE name = "." -> SelfEntry(e.of, e.inode)
                    [] name = ".." /\ e.inode # inode_hash[e.of].parent -> ParentEntry(e.of, e.inode)
                    [] OTHER -> OtherEntry(e.of, e.inode)
               /\ line' = line + 1
               /\ UNCHANGED <<block_hash, section, num, exit_b>>
<1>1. section = "dirent" /\ line <= Len(csv.dirent) /\ (BadEntry \/ GoodEntry)
  BY DEF ScanDirent, Scanned, Raise
<1>2. section' = "dirent" /\ line' = line + 1
  BY <1>1
<1>3. line \in EntryLines /\ line \in Nat /\ Len(csv.dirent) \in Nat
  BY <1>1 DEF ScanOK, EntryLines, Given
<1>4. e.of \in InUse /\ e.inode \in Nat \ {0} /\ name = e.name[1]
  BY <1>3 DEF Given
<1> HIDE DEF e, BadEntry, GoodEntry
<1>5. SeenEntries' = SeenEntries \cup {line} /\ line \notin SeenEntries
  BY <1>1, <1>2, <1>3, StaysGiven DEF SeenEntries, EntryLines
<1>6. SeenNodes = InUse /\ SeenNodes' = InUse /\ IFreeNow' = IFreeNow
  BY <1>1, <1>2, GivenNumbers, StaysGiven DEF SeenNodes, IFreeNow
<1>7. /\ Index(inode_hash, e.inode) = e.inode
      /\ entry = IF e.inode \in DOMAIN inode_hash THEN inode_hash[e.inode] ELSE Nil
      /\ InUse \subseteq DOMAIN inode_hash
  <2>1. InUse \subseteq Nat
    BY GivenNumbers
  <2> QED
    BY <1>4, <2>1, NodeAt
<1>8. \A j \in InUse : inode_hash[j] \in NodeEntries
  BY <1>6 DEF InodeInv, NodesOK
<1>9. IsArray(entry) <=> e.inode \in InUse
  <2>1. CASE e.inode \in InUse
    BY <1>7, <1>8, <2>1 DEF NodeEntries, IsArray
  <2>2. CASE e.inode \notin InUse
    BY <1>6, <1>7, <2>2 DEF InodeInv, NodesOK, IsArray, Free, Unreferenced, Nil
  <2> QED
    BY <2>1, <2>2
<1>10. ASSUME e.inode \notin InUse
       PROVE  /\ inode_hash' = inode_hash
              /\ \E f \in {"unall", "inv"} :
                     err_list' = err_list \cup {ErrDir(f, e.of, e.inode, e.name[1])}
  <2>1. BadEntry
    BY <1>1, <1>9, <1>10 DEF GoodEntry
  <2> HIDE DEF name, entry
  <2> QED
    BY <1>4, <2>1 DEF BadEntry, tables
<1>11. ASSUME e.inode \in InUse
       PROVE  /\ Counts(e.inode)
              /\ \/ /\ name = "." /\ SetsNone
                    /\ err_list' = err_list \cup
                           IF e.inode = e.of THEN {}
                           ELSE {ErrParent("self", e.of, e.inode, e.of)}
                 \/ /\ name = ".." /\ e.inode # Par(e.of) /\ SetsParent(e.of, e.inode)
                    /\ \E c : err_list' = err_list \cup
                           IF Par(e.of) = 0 THEN {} ELSE {ErrParent("parent", e.of, e.inode, c)}
                 \/ /\ name # "." /\ SetsParent(e.inode, e.of)
                    /\ name = ".." => e.inode = Par(e.of)
                    /\ err_list' = err_list \cup
                           IF Par(e.inode) \in {0, e.of} THEN {}
                           ELSE {ErrParent("parent", e.inode, Par(e.inode), e.of)}
  <2>1. GoodEntry
    <3>1. IsArray(entry)
      BY <1>9, <1>11
    <3>2. entry # Nil /\ ~IsSymbol(entry)
      BY <3>1 DEF IsArray, IsSymbol, Nil
    <3> QED
      BY <1>1, <3>2 DEF BadEntry
  <2>2. entry = inode_hash[e.inode] /\ e.of \in Nat
    BY <1>4, <1>7, <1>11, GivenNumbers
  <2>3. /\ inode_hash' = CountLink(e.inode) => Counts(e.inode) /\ SetsNone
        /\ inode_hash' = [CountLink(e.inode) EXCEPT ![e.of].parent = e.inode]
               => Counts(e.inode) /\ SetsParent(e.of, e.inode)
    BY <1>4, <1>7, <1>8, <1>11, CountLinkIs
  <2>4. inode_hash' = [CountLink(e.inode) EXCEPT ![e.inode].parent = e.of]
               => Counts(e.inode) /\ SetsParent(e.inode, e.of)
    BY <1>4, <1>7, <1>8, <1>11, <2>2, CountLinkIs
  <2> HIDE DEF name
  <2>5. CASE name = "."
    <3>1. SelfEntry(e.of, e.inode)
      BY <2>1, <2>5 DEF GoodEntry
    <3> QED
      BY <2>3, <2>5, <3>1 DEF SelfEntry
  <2>6. CASE name = ".." /\ e.inode # Par(e.of)
    <3>1. ParentEntry(e.of, e.inode)
      BY <2>1, <2>6 DEF GoodEntry, Par
    <3> QED
      BY <2>3, <2>6, <3>1 DEF ParentEntry, Par
  <2>7. CASE name # "." /\ (name = ".." => e.inode = Par(e.of))
    <3>1. OtherEntry(e.of, e.inode)
      BY <2>1, <2>7 DEF GoodEntry, Par
    <3> QED
      BY <1>7, <2>2, <2>4, <2>7, <3>1 DEF OtherEntry, Par
  <2> QED
    BY <2>5, <2>6, <2>7
<1> HIDE DEF name, entry
<1>12. \A n : Says(line, n) <=> name = n
  BY <1>4 DEF Says, e
<1> QED
  BY <1>1, <1>2, <1>3, <1>4, <1>5, <1>6, <1>10, <1>11, <1>12 DEF e

(* One more entry.                                                         *)
LEMMA OneMoreEntry ==
    ASSUME Given, NEW K \in SUBSET EntryLines, NEW k \in EntryLines, k \notin K, NEW i
    PROVE  /\ Cardinality(EntriesOf(K \cup {k}, i))
                  = Cardinality(EntriesOf(K, i)) + IF Scanned[k].inode = i THEN 1 ELSE 0
           /\ Cardinality(EntriesOf(K, i)) \in Nat
<1> DEFINE A == EntriesOf(K, i)
<1>1. IsFiniteSet(A)
  <2>1. IsFiniteSet(EntryLines)
    BY OneTo DEF EntryLines, Given
  <2>2. A \subseteq EntryLines
    BY DEF EntriesOf
  <2> HIDE DEF A
  <2> QED
    BY <2>1, <2>2, FS_Subset
<1>2. k \notin A
  BY DEF EntriesOf
<1>3. CASE Scanned[k].inode = i
  <2>1. EntriesOf(K \cup {k}, i) = A \cup {k}
    BY <1>3 DEF EntriesOf
  <2> HIDE DEF A
  <2>2. Cardinality(A \cup {k}) = Cardinality(A) + 1 /\ Cardinality(A) \in Nat
    BY <1>1, <1>2, FS_AddElement, FS_CardinalityType
  <2> QED
    BY <1>3, <2>1, <2>2 DEF A
<1>4. CASE Scanned[k].inode # i
  <2>1. EntriesOf(K \cup {k}, i) = A
    BY <1>4 DEF EntriesOf
  <2> HIDE DEF A
  <2>2. Cardinality(A) \in Nat
    BY <1>1, FS_CardinalityType
  <2> DEFINE c == Cardinality(A)
  <2>3. c = c + 0
    BY <2>2
  <2> QED
    BY <1>4, <2>1, <2>2, <2>3 DEF A
<1> QED
  BY <1>3, <1>4

LEMMA EntryInodes ==
    ASSUME ScanOK, Given, InodeInv, ScanDirent, UNCHANGED <<disk, csv>>, exit_b' # 1
    PROVE  InodeInv'
<1> DEFINE e == Scanned[line]
<1>1. /\ line \in EntryLines /\ e.of \in InUse /\ e.inode \in Nat \ {0}
      /\ section = "dirent" /\ section' = "dirent"
      /\ SeenEntries' = SeenEntries \cup {line} /\ line \notin SeenEntries
      /\ SeenNodes = InUse /\ SeenNodes' = InUse /\ IFreeNow' = IFreeNow
  BY EntryStep
<1>2. e.inode \notin InUse =>
          /\ inode_hash' = inode_hash
          /\ \E f \in {"unall", "inv"} :
                 err_list' = err_list \cup {ErrDir(f, e.of, e.inode, e.name[1])}
  BY EntryStep
<1>3. e.inode \in InUse =>
          /\ Counts(e.inode)
          /\ err_list \subseteq err_list' /\ \A x \in err_list' \ err_list : x.type = "parent"
  <2> SUFFICES ASSUME e.inode \in InUse
               PROVE  /\ Counts(e.inode)
                      /\ err_list \subseteq err_list' /\ \A x \in err_list' \ err_list : x.type = "parent"
    OBVIOUS
  <2>1. Counts(e.inode)
    BY EntryStep
  <2>2. \/ err_list' = err_list
        \/ \E f, j, k, c : err_list' = err_list \cup {ErrParent(f, j, k, c)}
    BY EntryStep
  <2> QED
    BY <2>1, <2>2, ErrorKinds
<1>4. /\ Scanned' = Scanned /\ InUse' = InUse /\ csv'.inodes = csv.inodes
      /\ \A i : Inode(i)' = Inode(i)
      /\ \A K, i : EntriesOf(K, i)' = EntriesOf(K, i)
  BY StaysGiven
<1> HIDE DEF e
<1>5. \A i : /\ Cardinality(EntriesOf(SeenEntries, i)') = Cardinality(EntriesOf(SeenEntries, i))
                                                         + IF e.inode = i THEN 1 ELSE 0
             /\ Cardinality(EntriesOf(SeenEntries, i)) \in Nat
  <2> SUFFICES ASSUME NEW i
               PROVE  /\ Cardinality(EntriesOf(SeenEntries, i)')
                            = Cardinality(EntriesOf(SeenEntries, i)) + IF e.inode = i THEN 1 ELSE 0
                      /\ Cardinality(EntriesOf(SeenEntries, i)) \in Nat
    OBVIOUS
  <2>1. EntriesOf(SeenEntries, i)' = EntriesOf(SeenEntries \cup {line}, i)
    BY <1>1, <1>4 DEF EntriesOf
  <2>2. SeenEntries \in SUBSET EntryLines
    BY DEF SeenEntries
  <2> QED
    BY <1>1, <2>1, <2>2, OneMoreEntry DEF e
<1>6. NodesOK'
  <2>1. /\ DOMAIN inode_hash' = DOMAIN inode_hash
        /\ \A j \in DOMAIN inode_hash \ InUse : inode_hash'[j] = inode_hash[j]
    BY <1>2, <1>3 DEF Counts
  <2>2. ASSUME NEW j \in InUse
        PROVE  /\ inode_hash'[j] \in NodeEntries
               /\ inode_hash'[j].linkcount = Inode(j)'.links
               /\ inode_hash'[j].links = Cardinality(EntriesOf(SeenEntries, j)')
    <3>1. /\ inode_hash[j] \in NodeEntries
          /\ inode_hash[j].linkcount = Inode(j).links
          /\ inode_hash[j].links = Cardinality(EntriesOf(SeenEntries, j))
      BY <1>1 DEF InodeInv, NodesOK
    <3>2. Inode(j)' = Inode(j)
      BY <1>4
    <3>3. CASE e.inode \notin InUse
      <4>1. e.inode # j /\ inode_hash' = inode_hash
        BY <1>2, <3>3
      <4> QED
        BY <1>5, <3>1, <3>2, <4>1
    <3>4. CASE e.inode \in InUse
      <4>1. /\ inode_hash'[j] \in NodeEntries
            /\ inode_hash'[j].linkcount = inode_hash[j].linkcount
            /\ inode_hash'[j].links = inode_hash[j].links + IF j = e.inode THEN 1 ELSE 0
        BY <1>3, <3>4 DEF Counts
      <4> QED
        BY <1>5, <3>1, <3>2, <4>1
    <3> QED
      BY <3>3, <3>4
  <2> QED
    BY <1>1, <1>4, <2>1, <2>2 DEF InodeInv, NodesOK
<1>7. /\ AllInos' = AllInos /\ UnallInos' = UnallInos /\ LinkErrs' = LinkErrs
      /\ e.inode \in InUse => DirErrs' = DirErrs
  <2>1. /\ err_list \subseteq err_list'
        /\ \A x \in err_list' \ err_list : x.type \in {"dir", "parent"}
    BY <1>2, <1>3, ErrorKinds
  <2>2. /\ AllInos' = AllInos /\ UnallInos' = UnallInos /\ LinkErrs' = LinkErrs
    BY <2>1 DEF AllInos, UnallInos, LinkErrs, Reported
  <2>3. e.inode \in InUse => DirErrs' = DirErrs
    BY <1>3 DEF DirErrs, Reported
  <2> QED
    BY <2>2, <2>3
<1>8. DirErrsOK'
  <2> DEFINE pair(k) == <<Scanned[k].of, Scanned[k].inode>>
             wrong == {pair(k) : k \in {k \in SeenEntries : Scanned[k].inode \notin InUse}}
             wrongNext == {pair(k) : k \in {k \in SeenEntries \cup {line} : Scanned[k].inode \notin InUse}}
  <2>1. {<<x.dir, x.inode>> : x \in DirErrs} = wrong
    BY DEF InodeInv, DirErrsOK
  <2>2. CASE e.inode \in InUse
    <3>1. wrongNext = wrong
      BY <2>2 DEF e
    <3> QED
      BY <1>1, <1>4, <1>7, <2>1, <2>2, <3>1 DEF DirErrsOK
  <2>3. CASE e.inode \notin InUse
    <3>1. wrongNext = wrong \cup {<<e.of, e.inode>>}
      BY <2>3 DEF e
    <3>2. PICK f \in {"unall", "inv"} :
              err_list' = err_list \cup {ErrDir(f, e.of, e.inode, e.name[1])}
      BY <1>2, <2>3
    <3> DEFINE x == ErrDir(f, e.of, e.inode, e.name[1])
    <3>3. x.type = "dir" /\ x.flag = f /\ x.dir = e.of /\ x.inode = e.inode
      BY DEF ErrDir
    <3> HIDE DEF x
    <3>4. DirErrs' = DirErrs \cup {x}
      BY <3>2, <3>3 DEF DirErrs, Reported, x
    <3>5. {<<y.dir, y.inode>> : y \in DirErrs'} = wrong \cup {<<e.of, e.inode>>}
      <4> HIDE DEF wrong
      <4> QED
        BY <2>1, <3>3, <3>4
    <3> QED
      BY <1>1, <1>4, <3>1, <3>5 DEF DirErrsOK
  <2> QED
    BY <2>2, <2>3
<1>9. AllInosOK' /\ UnallInosOK' /\ LinkErrsOK'
  BY <1>1, <1>7 DEF InodeInv, AllInosOK, UnallInosOK, LinkErrsOK
<1> QED
  BY <1>6, <1>8, <1>9 DEF InodeInv

LEMMA DirentsDoneInodes ==
    ASSUME ScanOK, Given, InodeInv, DirentsDone, UNCHANGED <<disk, csv>>
    PROVE  InodeInv' /\ SeenEntries' = EntryLines /\ SeenEntries = EntryLines
<1>1. /\ inode_hash' = inode_hash /\ err_list' = err_list /\ section = "dirent"
      /\ section' = "indirect" /\ line > Len(csv.dirent) /\ line \in Nat
  BY DEF DirentsDone, At1, tables, ScanOK
<1>2. SeenNodes' = SeenNodes /\ IFreeNow' = IFreeNow
  BY <1>1, StaysGiven DEF SeenNodes, IFreeNow
<1>3. SeenEntries' = EntryLines /\ SeenEntries = EntryLines
  <2>1. \A k \in EntryLines : k < line
    BY <1>1 DEF EntryLines, Given
  <2> QED
    BY <1>1, <2>1, StaysGiven DEF SeenEntries
<1> QED
  BY <1>1, <1>2, <1>3, SameList, InodesStay

LEMMA IndirectInodes ==
    ASSUME InodeInv, ScanIndirect, UNCHANGED <<disk, csv>>
    PROVE  InodeInv' /\ SeenEntries' = SeenEntries
<1> DEFINE X == err_list' \ err_list
<1>1. /\ inode_hash' = inode_hash /\ section = "indirect" /\ section' = "indirect"
  BY DEF ScanIndirect
<1>2. SeenNodes' = SeenNodes /\ IFreeNow' = IFreeNow /\ SeenEntries' = SeenEntries
  BY <1>1, StaysGiven DEF SeenNodes, IFreeNow, SeenEntries
<1>3. err_list' = err_list \cup X /\ \A x \in X : x.type = "block"
  <2>1. /\ err_list \subseteq err_list'
        /\ \A x \in err_list' : x \in err_list \/ \E f, l, b, i, o : x = ErrBlock(f, l, b, i, o)
    BY DEF ScanIndirect
  <2> QED
    BY <2>1, ErrorKinds
<1>4. SameErrors
  <2> HIDE DEF X
  <2> QED
    BY <1>3, OtherErrorsOfBlocks
<1> QED
  BY <1>1, <1>2, <1>4, InodesStay

LEMMA ConcludeInodes ==
    ASSUME Given, InodeInv, Conclude, UNCHANGED <<disk, csv>>
    PROVE  InodeInv' /\ SeenEntries' = SeenEntries
<1> DEFINE unalls == {i \in DOMAIN inode_hash : i > ReservedInodes /\ inode_hash[i] = Unreferenced}
           wrongs == {i \in DOMAIN inode_hash : /\ IsArray(inode_hash[i])
                                                /\ inode_hash[i].links # inode_hash[i].linkcount}
           linkErr(i) == ErrLink(i, inode_hash[i].links, inode_hash[i].linkcount)
           unallErr(i) == ErrFree("unall_ino", i)
           links(i) == Cardinality(EntriesOf(EntryLines, i))
<1>1. /\ section = "indirect" /\ section' = "done" /\ inode_hash' = inode_hash
      /\ err_list' = err_list \cup UnreferencedBlocks \cup {unallErr(i) : i \in unalls}
                              \cup {linkErr(i) : i \in wrongs}
  BY DEF Conclude, InodeErrors, tables
<1>2. /\ SeenEntries = EntryLines /\ SeenEntries' = SeenEntries
      /\ SeenNodes = InUse /\ SeenNodes' = SeenNodes
      /\ IFreeNow = FreeInodes /\ IFreeNow' = IFreeNow
  BY <1>1, GivenNumbers, StaysGiven DEF SeenEntries, SeenNodes, IFreeNow
<1>3. \A x \in UnreferencedBlocks : x.type = "unref"
  BY ErrorKinds DEF UnreferencedBlocks
<1>4. /\ \A i : unallErr(i).type = "free" /\ unallErr(i).flag = "unall_ino" /\ unallErr(i).element = i
      /\ \A i : /\ linkErr(i).type = "link" /\ linkErr(i).inode = i
                /\ linkErr(i).links = inode_hash[i].links
  BY DEF ErrFree, ErrLink
<1>5. /\ DOMAIN inode_hash = 0 .. csv.inodes \cup FreeInodes
      /\ InUse \subseteq DOMAIN inode_hash
      /\ \A i \in DOMAIN inode_hash \ InUse :
             inode_hash[i] = IF i \in FreeInodes THEN Free ELSE Unreferenced
      /\ \A i \in InUse : /\ inode_hash[i] \in NodeEntries
                          /\ inode_hash[i].linkcount = Inode(i).links
                          /\ inode_hash[i].links = links(i)
  BY <1>2, GivenNumbers DEF InodeInv, NodesOK
<1>6. /\ \A i \in DOMAIN inode_hash : IsArray(inode_hash[i]) <=> i \in InUse
      /\ \A i \in DOMAIN inode_hash :
             inode_hash[i] = Unreferenced <=> i \notin InUse \cup FreeInodes
  <2>1. \A x \in NodeEntries : IsArray(x) /\ x # Unreferenced
    BY DEF NodeEntries, IsArray, Unreferenced
  <2>2. ~IsArray(Free) /\ ~IsArray(Unreferenced) /\ Free # Unreferenced
    BY DEF Free, Unreferenced, IsArray
  <2> QED
    BY <1>5, <2>1, <2>2
<1>7. wrongs = {i \in InUse : links(i) # Inode(i).links}
  <2> HIDE DEF links
  <2> QED
    BY <1>5, <1>6
<1>8. unalls = csv.first_ino .. csv.inodes \ (InUse \cup FreeInodes)
  <2>1. csv.first_ino \in Nat /\ csv.inodes \in Nat
    BY GivenNumbers, DiskAssumption DEF Given, Complete, SummaryOK, Image
  <2>2. \A i \in DOMAIN inode_hash : i \in Nat
    BY <1>5, <2>1, GivenNumbers
  <2> QED
    BY <1>5, <1>6, <2>1, <2>2 DEF ReservedInodes
<1> HIDE DEF unalls, wrongs, unallErr, linkErr
<1>9. /\ AllInos' = AllInos /\ DirErrs' = DirErrs
      /\ UnallInos' = UnallInos \cup {unallErr(i) : i \in unalls}
      /\ LinkErrs' = LinkErrs \cup {linkErr(i) : i \in wrongs}
  <2>1. AllInos' = AllInos /\ DirErrs' = DirErrs
    BY <1>1, <1>3, <1>4 DEF AllInos, DirErrs, Reported
  <2>2. UnallInos' = UnallInos \cup {unallErr(i) : i \in unalls}
    BY <1>1, <1>3, <1>4 DEF UnallInos, Reported
  <2>3. LinkErrs' = LinkErrs \cup {linkErr(i) : i \in wrongs}
    BY <1>1, <1>3, <1>4 DEF LinkErrs
  <2> QED
    BY <2>1, <2>2, <2>3
<1>10. UnallInos = {} /\ LinkErrs = {}
  BY <1>1 DEF InodeInv, UnallInosOK, LinkErrsOK
<1>11. {x.element : x \in UnallInos'} = unalls
  BY <1>4, <1>9, <1>10
<1>12. {<<x.inode, x.links>> : x \in LinkErrs'} = {<<i, links(i)>> : i \in wrongs}
  <2>1. \A i \in wrongs : linkErr(i).inode = i /\ linkErr(i).links = links(i)
    BY <1>4, <1>5, <1>7
  <2> HIDE DEF links
  <2> QED
    BY <1>9, <1>10, <2>1
<1>13. /\ Scanned' = Scanned /\ EntryLines' = EntryLines
       /\ InUse' = InUse /\ FreeInodes' = FreeInodes
       /\ \A i : Inode(i)' = Inode(i)
       /\ \A K, i : EntriesOf(K, i)' = EntriesOf(K, i)
  BY StaysGiven
<1>14. NodesOK'
  <2>1. \A i : EntriesOf(SeenEntries, i)' = EntriesOf(SeenEntries, i)
    BY <1>2, <1>13 DEF EntriesOf
  <2> QED
    BY <1>1, <1>2, <1>13, <2>1 DEF InodeInv, NodesOK
<1>15. AllInosOK' /\ DirErrsOK'
  BY <1>2, <1>9, <1>13 DEF InodeInv, AllInosOK, DirErrsOK
<1>16. UnallInosOK'
  BY <1>1, <1>8, <1>11, <1>13 DEF UnallInosOK
<1>17. LinkErrsOK'
  <2>1. \A i : EntriesOf(EntryLines, i)' = EntriesOf(EntryLines, i)
    BY <1>13 DEF EntriesOf
  <2> QED
    BY <1>1, <1>7, <1>12, <1>13, <2>1 DEF LinkErrsOK
<1> QED
  BY <1>2, <1>14, <1>15, <1>16, <1>17 DEF InodeInv

-----------------------------------------------------------------------------
(* The directories that inodes are said to be in.                          *)

IsName(k) == Scanned[k].name[1] \notin {".", ".."}
KnownBy(k) ==
    \E j \in EntryLines :
        /\ IsName(j) /\ Scanned[j].of = Scanned[k].inode /\ Scanned[j].inode = Scanned[k].of
        /\ TextBefore(Scanned[j].of, Scanned[k].of)

(* Line k says that inode i is in directory c.                             *)
Claims(k, i, c) ==
    \/ IsName(k) /\ Scanned[k].inode = i /\ Scanned[k].of = c
    \/ Says(k, "..") /\ Scanned[k].of = i /\ Scanned[k].inode = c
    \/ Says(k, "..") /\ Scanned[k].inode = i /\ Scanned[k].of = c /\ KnownBy(k)
Claimed(K, i, c) == (i = 2 /\ c = 2) \/ \E k \in K : Claims(k, i, c)

Agree(K) ==
    /\ \A k \in K : Says(k, ".") => Scanned[k].inode = Scanned[k].of
    /\ \A i, c, d : Claimed(K, i, c) /\ Claimed(K, i, d) => c = d

(* The lines of entries that all name inodes in use, with one ".." in a    *)
(* directory.                                                              *)
LinesNamed ==
    /\ \A k \in EntryLines : Scanned[k].inode \in InUse
    /\ \A j, k \in EntryLines :
           Says(j, "..") /\ Says(k, "..") /\ Scanned[j].of = Scanned[k].of => j = k

(* As long as no error is found, the table has the directory that an inode *)
(* was said to be in, and nothing has been said against it.                *)
ParentInv ==
    IF section \in {"bfree", "ifree", "inode"}
    THEN ParentErrs = {} /\ \A i \in SeenNodes : Par(i) = 0
    ELSE IF ParentErrs = {}
    THEN /\ Agree(SeenEntries)
         /\ \A i \in InUse : IF Par(i) = 0 THEN \A c : ~Claimed(SeenEntries, i, c)
                                           ELSE Claimed(SeenEntries, i, Par(i))
    ELSE ~Agree(EntryLines)

LEMMA StaysClaims ==
    ASSUME UNCHANGED <<disk, csv>>
    PROVE  /\ \A K, i, c : Claimed(K, i, c)' <=> Claimed(K, i, c)
           /\ \A K : Agree(K)' <=> Agree(K)
           /\ Agree(EntryLines)' <=> Agree(EntryLines)
           /\ LinesNamed' <=> LinesNamed
           /\ \A i, c : Claimed(SeenEntries, i, c)' <=> Claimed(SeenEntries', i, c)
           /\ Agree(SeenEntries)' <=> Agree(SeenEntries')
<1>1. Scanned' = Scanned /\ EntryLines' = EntryLines /\ InUse' = InUse
  BY StaysGiven
<1>2. \A k, i, c : Claims(k, i, c)' <=> Claims(k, i, c)
  BY <1>1 DEF Claims, IsName, KnownBy, Says
<1>3. \A k, n : Says(k, n)' <=> Says(k, n)
  BY <1>1 DEF Says
<1>4. /\ \A K, i, c : Claimed(K, i, c)' <=> Claimed(K, i, c)
      /\ \A i, c : Claimed(SeenEntries, i, c)' <=> Claimed(SeenEntries', i, c)
      /\ \A i, c : Claimed(EntryLines, i, c)' <=> Claimed(EntryLines, i, c)
  BY <1>1, <1>2 DEF Claimed
<1>5. /\ \A K : Agree(K)' <=> Agree(K)
      /\ Agree(SeenEntries)' <=> Agree(SeenEntries')
      /\ Agree(EntryLines)' <=> Agree(EntryLines)
  BY <1>1, <1>3, <1>4 DEF Agree
<1>6. LinesNamed' <=> LinesNamed
  BY <1>1, <1>3 DEF LinesNamed
<1> QED
  BY <1>4, <1>5, <1>6

LEMMA AgreeFewer ==
    ASSUME NEW K, NEW L \in SUBSET K, Agree(K)
    PROVE  Agree(L)
<1>1. \A i, c : Claimed(L, i, c) => Claimed(K, i, c)
  BY DEF Claimed
<1> QED
  BY <1>1 DEF Agree

(* A claim more: c of i, where the table has Par(i).                       *)
Adds(K, L, i, c) ==
    /\ \A j, d : Claimed(L, j, d) <=> Claimed(K, j, d) \/ (j = i /\ d = c)
    /\ \A k \in L : Says(k, ".") => Scanned[k].inode = Scanned[k].of

Tells(K) ==
    /\ Agree(K)
    /\ \A i \in InUse : IF Par(i) = 0 THEN \A c : ~Claimed(K, i, c) ELSE Claimed(K, i, Par(i))

LEMMA ClaimAdded ==
    ASSUME NEW K, NEW L, NEW i \in InUse, NEW c, c # 0, Tells(K), Adds(K, L, i, c), SetsParent(i, c)
    PROVE  /\ Par(i) \notin {0, c} => ~Agree(L)
           /\ Par(i) \in {0, c} =>
                  /\ Agree(L)
                  /\ \A j \in InUse : IF Par(j)' = 0 THEN \A d : ~Claimed(L, j, d)
                                                     ELSE Claimed(L, j, Par(j)')
<1>1. ASSUME Par(i) \notin {0, c} PROVE ~Agree(L)
  <2>1. Claimed(L, i, Par(i)) /\ Claimed(L, i, c)
    BY <1>1 DEF Tells, Adds
  <2> QED
    BY <1>1, <2>1 DEF Agree
<1>2. ASSUME Par(i) \in {0, c}
      PROVE  \A d : Claimed(K, i, d) => d = c
  BY <1>2 DEF Tells, Agree
<1>3. ASSUME Par(i) \in {0, c} PROVE Agree(L)
  BY <1>2, <1>3 DEF Tells, Agree, Adds
<1>4. ASSUME Par(i) \in {0, c}, NEW j \in InUse
      PROVE  IF Par(j)' = 0 THEN \A d : ~Claimed(L, j, d) ELSE Claimed(L, j, Par(j)')
  <2>1. Par(j)' = IF j = i THEN c ELSE Par(j)
    BY DEF SetsParent, Par
  <2> QED
    BY <2>1 DEF Adds, Tells
<1> QED
  BY <1>1, <1>3, <1>4

(* Of two lines of different directories, the one whose directory is first *)
(* as text is seen first.                                                  *)
LEMMA LinesInOrder ==
    ASSUME Given, NEW j \in EntryLines, NEW k \in EntryLines
    PROVE  /\ TextBefore(Scanned[j].of, Scanned[k].of) => j < k
           /\ j < k /\ Scanned[j].of # Scanned[k].of => TextBefore(Scanned[j].of, Scanned[k].of)
<1> DEFINE a == TextKey(Scanned[j].of)
           b == TextKey(Scanned[k].of)
<1>1. Scanned[j].of \in Nat /\ Scanned[k].of \in Nat
  BY GivenNumbers DEF Given
<1>2. a \in Nat /\ b \in Nat /\ (Scanned[j].of # Scanned[k].of => a # b)
  BY <1>1, TextKeyFacts
<1>3. /\ j < k => a <= b
      /\ k < j => b <= a
      /\ j = k => a = b
  BY DEF Given
<1>4. j \in Nat /\ k \in Nat
  BY DEF EntryLines, Given
<1>5. TextBefore(Scanned[j].of, Scanned[k].of) <=> a < b
  BY <1>1, TextKeyFacts
<1> HIDE DEF a, b
<1> QED
  BY <1>2, <1>3, <1>4, <1>5

(* What line k adds to what is said by the lines before it.                *)
LEMMA NameAdds ==
    ASSUME NEW K, NEW k, IsName(k), Tells(K)
    PROVE  Adds(K, K \cup {k}, Scanned[k].inode, Scanned[k].of)
<1>1. ~Says(k, ".") /\ ~Says(k, "..")
  BY DEF IsName, Says
<1>2. \A j, d : Claims(k, j, d) <=> j = Scanned[k].inode /\ d = Scanned[k].of
  BY <1>1 DEF Claims
<1>3. \A j, d : Claimed(K \cup {k}, j, d) <=> Claimed(K, j, d) \/ Claims(k, j, d)
  BY DEF Claimed
<1> QED
  BY <1>1, <1>2, <1>3 DEF Adds, Tells, Agree

(* A ".." in a directory that nothing is known of.                         *)
LEMMA NewUpAdds ==
    ASSUME Given, NEW k \in EntryLines, Says(k, ".."),
           NEW K, K = {j \in EntryLines : j < k}, Tells(K),
           \A c : ~Claimed(K, Scanned[k].of, c)
    PROVE  Adds(K, K \cup {k}, Scanned[k].of, Scanned[k].inode)
<1>1. ~Says(k, ".") /\ ~IsName(k)
  BY DEF IsName, Says
<1>2. ~KnownBy(k)
  <2> SUFFICES ASSUME NEW j \in EntryLines, IsName(j), Scanned[j].of = Scanned[k].inode,
                      Scanned[j].inode = Scanned[k].of, TextBefore(Scanned[j].of, Scanned[k].of)
               PROVE  FALSE
    BY DEF KnownBy
  <2>1. j \in K
    BY LinesInOrder
  <2>2. Claims(j, Scanned[k].of, Scanned[j].of)
    BY DEF Claims
  <2> QED
    BY <2>1, <2>2 DEF Claimed
<1>3. \A j, d : Claims(k, j, d) <=> j = Scanned[k].of /\ d = Scanned[k].inode
  BY <1>1, <1>2 DEF Claims
<1>4. \A j, d : Claimed(K \cup {k}, j, d) <=> Claimed(K, j, d) \/ Claims(k, j, d)
  BY DEF Claimed
<1> QED
  BY <1>1, <1>3, <1>4 DEF Adds, Tells, Agree

(* A ".." that is what is known already is one more name of the directory  *)
(* above.                                                                  *)
LEMMA KnownUpAdds ==
    ASSUME Given, LinesNamed, NEW k \in EntryLines, Says(k, ".."),
           NEW K, K = {j \in EntryLines : j < k}, Tells(K),
           Claimed(K, Scanned[k].of, Scanned[k].inode)
    PROVE  Adds(K, K \cup {k}, Scanned[k].inode, Scanned[k].of)
<1> DEFINE dir == Scanned[k].of
           inode == Scanned[k].inode
<1>1. ~Says(k, ".") /\ ~IsName(k)
  BY DEF IsName, Says
<1>2. k \notin K
  <2>1. k \in Nat
    BY DEF EntryLines, Given
  <2> QED
    BY <2>1
<1>3. \A j, d : Claimed(K \cup {k}, j, d) <=> Claimed(K, j, d) \/ Claims(k, j, d)
  BY DEF Claimed
<1>4. \A j, d : Claims(k, j, d) <=> \/ j = dir /\ d = inode
                                    \/ j = inode /\ d = dir /\ KnownBy(k)
  BY <1>1 DEF Claims
<1>5. Claimed(K \cup {k}, inode, dir)
  <2>1. CASE dir = 2 /\ inode = 2
    BY <2>1 DEF Claimed
  <2>2. ASSUME NEW j \in K, Claims(j, dir, inode) PROVE Claimed(K \cup {k}, inode, dir)
    <3>1. CASE IsName(j) /\ Scanned[j].inode = dir /\ Scanned[j].of = inode
      <4>1. CASE inode = dir
        BY <1>3, <1>4, <4>1
      <4>2. CASE inode # dir
        <5>1. j < k /\ j \in EntryLines
          OBVIOUS
        <5>2. TextBefore(Scanned[j].of, Scanned[k].of)
          BY <3>1, <4>2, <5>1, LinesInOrder
        <5>3. KnownBy(k)
          BY <3>1, <5>1, <5>2 DEF KnownBy
        <5> QED
          BY <1>3, <1>4, <5>3
      <4> QED
        BY <4>1, <4>2
    <3>2. CASE Says(j, "..") /\ Scanned[j].of = dir /\ Scanned[j].inode = inode
      <4>1. j = k
        BY <3>2 DEF LinesNamed
      <4> QED
        BY <1>2, <4>1
    <3>3. CASE Says(j, "..") /\ Scanned[j].inode = dir /\ Scanned[j].of = inode
      <4>1. Claims(j, inode, dir)
        BY <3>3 DEF Claims
      <4> QED
        BY <4>1 DEF Claimed
    <3> QED
      BY <2>2, <3>1, <3>2, <3>3 DEF Claims
  <2> QED
    BY <2>1, <2>2 DEF Claimed
<1>6. \A j, d : Claimed(K \cup {k}, j, d) <=> Claimed(K, j, d) \/ (j = inode /\ d = dir)
  <2> HIDE DEF dir, inode
  <2>1. Claimed(K, dir, inode)
    BY DEF dir, inode
  <2> QED
    BY <1>3, <1>4, <1>5, <2>1
<1> QED
  BY <1>1, <1>6 DEF Adds, Tells, Agree

(* After an entry without an error more is told, and an error contradicts. *)
LEMMA EntryTells ==
    ASSUME ScanOK, Given, LinesNamed, InodeInv, ScanDirent, UNCHANGED <<disk, csv>>, exit_b' # 1,
           Tells(SeenEntries), ParentErrs = {}
    PROVE  \/ /\ ParentErrs' = {} /\ Agree(SeenEntries')
              /\ \A j \in InUse : IF Par(j)' = 0 THEN \A d : ~Claimed(SeenEntries', j, d)
                                                 ELSE Claimed(SeenEntries', j, Par(j)')
           \/ ParentErrs' # {} /\ ~Agree(SeenEntries')
<1> DEFINE K == SeenEntries
           L == SeenEntries'
           dir == Scanned[line].of
           inode == Scanned[line].inode
           Good == /\ ParentErrs' = {} /\ Agree(L)
                   /\ \A j \in InUse : IF Par(j)' = 0 THEN \A d : ~Claimed(L, j, d)
                                                      ELSE Claimed(L, j, Par(j)')
           Bad == ParentErrs' # {} /\ ~Agree(L)
<1>1. /\ line \in EntryLines /\ dir \in InUse /\ inode \in Nat \ {0} /\ section = "dirent"
      /\ L = K \cup {line}
  BY EntryStep
<1>2. inode \in InUse
  BY <1>1 DEF LinesNamed
<1>3. K = {j \in EntryLines : j < line}
  BY <1>1 DEF SeenEntries
<1>4. dir # 0
  BY <1>1, GivenNumbers
<1>5. ASSUME err_list' = err_list PROVE ParentErrs' = {}
  BY <1>5 DEF ParentErrs, Reported
<1>6. ASSUME NEW f \in {"self", "parent"}, NEW i, NEW j, NEW c,
             err_list' = err_list \cup {ErrParent(f, i, j, c)}
      PROVE  ParentErrs' # {}
  <2>1. ErrParent(f, i, j, c).type = "parent" /\ ErrParent(f, i, j, c).flag = f
    BY DEF ErrParent
  <2> QED
    BY <1>6, <2>1 DEF ParentErrs, Reported
<1>7. \/ /\ Says(line, ".") /\ SetsNone
         /\ err_list' = err_list \cup
                IF inode = dir THEN {} ELSE {ErrParent("self", dir, inode, dir)}
      \/ /\ Says(line, "..") /\ inode # Par(dir) /\ SetsParent(dir, inode)
         /\ \E c : err_list' = err_list \cup
                IF Par(dir) = 0 THEN {} ELSE {ErrParent("parent", dir, inode, c)}
      \/ /\ ~Says(line, ".") /\ SetsParent(inode, dir)
         /\ Says(line, "..") => inode = Par(dir)
         /\ err_list' = err_list \cup
                IF Par(inode) \in {0, dir} THEN {}
                ELSE {ErrParent("parent", inode, Par(inode), dir)}
  BY <1>2, EntryStep
<1> HIDE DEF dir, inode, K, L
<1>8. CASE /\ Says(line, ".") /\ SetsNone
           /\ err_list' = err_list \cup
                  IF inode = dir THEN {} ELSE {ErrParent("self", dir, inode, dir)}
  <2>1. \A j, d : Claimed(L, j, d) <=> Claimed(K, j, d)
    <3>1. \A j, d : ~Claims(line, j, d)
      BY <1>8 DEF Claims, Says, IsName
    <3> QED
      BY <1>1, <3>1 DEF Claimed
  <2>2. CASE inode = dir
    <3>1. ParentErrs' = {}
      BY <1>5, <1>8, <2>2
    <3>2. Agree(L)
      BY <1>1, <2>1, <2>2 DEF Agree, Tells, K, inode, dir
    <3>3. \A j \in InUse : Par(j)' = Par(j)
      BY <1>8 DEF SetsNone, Par
    <3>4. Good
      BY <2>1, <3>1, <3>2, <3>3 DEF Tells, K
    <3> QED
      BY <3>4 DEF L
  <2>3. CASE inode # dir
    <3>1. ParentErrs' # {}
      BY <1>6, <1>8, <2>3
    <3>2. ~Agree(L)
      BY <1>1, <1>8, <2>3 DEF Agree, inode, dir
    <3> QED
      BY <3>1, <3>2 DEF L
  <2> QED
    BY <2>2, <2>3
<1>9. CASE /\ Says(line, "..") /\ inode # Par(dir) /\ SetsParent(dir, inode)
           /\ \E c : err_list' = err_list \cup
                  IF Par(dir) = 0 THEN {} ELSE {ErrParent("parent", dir, inode, c)}
  <2>1. CASE Par(dir) = 0
    <3>1. ParentErrs' = {}
      BY <1>5, <1>9, <2>1
    <3>2. \A c : ~Claimed(K, dir, c)
      BY <1>1, <2>1 DEF Tells, K
    <3>3. Tells(K)
      BY DEF K
    <3>4. Adds(K, L, dir, inode)
      BY <1>1, <1>3, <1>9, <3>2, <3>3, NewUpAdds DEF dir, inode
    <3>5. inode # 0 /\ Par(dir) \in {0, inode} /\ SetsParent(dir, inode)
      BY <1>1, <1>9, <2>1
    <3>6. /\ Agree(L)
          /\ \A j \in InUse : IF Par(j)' = 0 THEN \A d : ~Claimed(L, j, d)
                                             ELSE Claimed(L, j, Par(j)')
      BY <1>1, <3>3, <3>4, <3>5, ClaimAdded
    <3>7. Good
      BY <3>1, <3>6
    <3> QED
      BY <3>7 DEF L
  <2>2. CASE Par(dir) # 0
    <3>1. ParentErrs' # {}
      BY <1>6, <1>9, <2>2
    <3>2. Claimed(K, dir, Par(dir))
      BY <1>1, <2>2 DEF Tells, K
    <3>3. Claimed(L, dir, Par(dir)) /\ Claimed(L, dir, inode)
      BY <1>1, <1>9, <3>2 DEF Claimed, Claims, dir, inode
    <3>4. ~Agree(L)
      BY <1>9, <3>3 DEF Agree
    <3> QED
      BY <3>1, <3>4 DEF L
  <2> QED
    BY <2>1, <2>2
<1>10. CASE /\ ~Says(line, ".") /\ SetsParent(inode, dir)
            /\ Says(line, "..") => inode = Par(dir)
            /\ err_list' = err_list \cup
                   IF Par(inode) \in {0, dir} THEN {}
                   ELSE {ErrParent("parent", inode, Par(inode), dir)}
  <2>1. Tells(K)
    BY DEF K
  <2>2. Adds(K, L, inode, dir)
    <3>1. CASE Says(line, "..")
      <4>1. Claimed(K, dir, inode)
        BY <1>1, <1>10, <3>1 DEF Tells, K
      <4> QED
        BY <1>1, <1>3, <2>1, <3>1, <4>1, KnownUpAdds DEF dir, inode
    <3>2. CASE ~Says(line, "..")
      <4>1. IsName(line)
        BY <1>10, <3>2 DEF IsName, Says
      <4> QED
        BY <1>1, <2>1, <4>1, NameAdds DEF dir, inode
    <3> QED
      BY <3>1, <3>2
  <2>3. /\ Par(inode) \notin {0, dir} => ~Agree(L)
        /\ Par(inode) \in {0, dir} =>
               /\ Agree(L)
               /\ \A j \in InUse : IF Par(j)' = 0 THEN \A d : ~Claimed(L, j, d)
                                                  ELSE Claimed(L, j, Par(j)')
    BY <1>2, <1>4, <1>10, <2>1, <2>2, ClaimAdded
  <2>4. Par(inode) \in {0, dir} => ParentErrs' = {}
    BY <1>5, <1>10
  <2>5. Par(inode) \notin {0, dir} => ParentErrs' # {}
    BY <1>6, <1>10
  <2>6. Good \/ Bad
    BY <2>3, <2>4, <2>5
  <2> QED
    BY <2>6 DEF L
<1> QED
  BY <1>7, <1>8, <1>9, <1>10

LEMMA EntryParents ==
    ASSUME ScanOK, Given, LinesNamed, InodeInv, ParentInv,
           ScanDirent, UNCHANGED <<disk, csv>>, exit_b' # 1
    PROVE  ParentInv'
<1>1. section = "dirent" /\ section' = "dirent"
  BY EntryStep
<1>2. /\ Agree(EntryLines)' <=> Agree(EntryLines)
      /\ Agree(SeenEntries)' <=> Agree(SeenEntries')
      /\ \A i, c : Claimed(SeenEntries, i, c)' <=> Claimed(SeenEntries', i, c)
      /\ InUse' = InUse
  BY StaysClaims, StaysGiven
<1>3. SeenEntries' \subseteq EntryLines
  <2>1. line \in EntryLines /\ SeenEntries' = SeenEntries \cup {line}
    BY EntryStep
  <2> QED
    BY <2>1 DEF SeenEntries
<1>4. CASE ParentErrs = {}
  <2>1. Tells(SeenEntries)
    BY <1>1, <1>4 DEF ParentInv, Tells
  <2>2. CASE /\ ParentErrs' = {} /\ Agree(SeenEntries')
             /\ \A j \in InUse : IF Par(j)' = 0 THEN \A d : ~Claimed(SeenEntries', j, d)
                                                ELSE Claimed(SeenEntries', j, Par(j)')
    <3>1. \A j \in InUse' : IF Par(j)' = 0 THEN \A d : ~Claimed(SeenEntries, j, d)'
                                           ELSE Claimed(SeenEntries, j, Par(j))'
      <4>1. \A j : Claimed(SeenEntries, j, Par(j))' <=> Claimed(SeenEntries', j, Par(j)')
        BY StaysGiven, <1>2 DEF Claimed, Claims, IsName, KnownBy, Says
      <4> QED
        BY <1>2, <2>2, <4>1
    <3> QED
      BY <1>1, <1>2, <2>2, <3>1 DEF ParentInv
  <2>3. CASE ParentErrs' # {} /\ ~Agree(SeenEntries')
    <3>1. ~Agree(EntryLines)
      BY <1>3, <2>3, AgreeFewer
    <3> QED
      BY <1>1, <1>2, <2>3, <3>1 DEF ParentInv
  <2> QED
    BY <1>4, <2>1, <2>2, <2>3, EntryTells
<1>5. CASE ParentErrs # {}
  <2>1. ParentErrs' # {}
    <3>1. err_list \subseteq err_list'
      BY EntryStep
    <3> QED
      BY <1>5, <3>1 DEF ParentErrs, Reported
  <2>2. ~Agree(EntryLines)
    BY <1>1, <1>5 DEF ParentInv
  <2> QED
    BY <1>1, <1>2, <2>1, <2>2 DEF ParentInv
<1> QED
  BY <1>4, <1>5

-----------------------------------------------------------------------------
(* The other steps say nothing of parents.                                 *)
LEMMA NoParentErrors ==
    ASSUME err_list \subseteq err_list', \A e \in err_list' \ err_list : e.type # "parent"
    PROVE  ParentErrs' = ParentErrs
BY DEF ParentErrs, Reported

LEMMA HeaderParents ==
    ASSUME ScanOK, ScanHeader, exit_b' # 1
    PROVE  ParentInv'
<1>1. err_list' = {} /\ section' = "bfree"
  BY DEF ScanHeader, Raise, At1, ScanOK
<1>2. SeenNodes' = {} /\ ParentErrs' = {}
  BY <1>1, NothingYet DEF ParentErrs, Reported
<1> QED
  BY <1>1, <1>2 DEF ParentInv

LEMMA FreeParents ==
    ASSUME Given, ParentInv, ScanBfree \/ ScanIfree, UNCHANGED <<disk, csv>>
    PROVE  ParentInv'
<1>1. /\ section \in {"bfree", "ifree"} /\ err_list' = err_list
      /\ section' \in {"ifree", "inode"}
      /\ section' = "inode" => line' = 1 /\ num' = 0
  BY DEF ScanBfree, ScanIfree, At1
<1>2. SeenNodes' = {}
  <2>1. Len(csv.inode) \in Nat
    BY InodeLines DEF Given
  <2> QED
    BY <1>1, <2>1 DEF SeenNodes
<1>3. ParentErrs' = ParentErrs
  BY <1>1, NoParentErrors
<1> QED
  BY <1>1, <1>2, <1>3 DEF ParentInv

LEMMA LineStartParents ==
    ASSUME ScanOK, Given, InodeInv, ParentInv, InodeLineStart, UNCHANGED <<disk, csv>>
    PROVE  ParentInv'
<1> DEFINE i == csv.inode[line].of
<1>1. /\ i \in InUse /\ i \notin SeenNodes /\ SeenNodes' = SeenNodes \cup {i}
      /\ csv.inode[line].links = Inode(i).links
  BY StartsNode
<1>2. /\ section = "inode" /\ section' = "inode"
      /\ inode_hash' = Put(inode_hash, i, Counted(Inode(i).links))
      /\ err_list \subseteq err_list' /\ \A e \in err_list' \ err_list : e.type # "parent"
  BY <1>1, ErrorKinds DEF InodeLineStart
<1>3. i \in Nat /\ Inode(i).links \in Nat /\ SeenNodes \subseteq InUse /\ InUse \subseteq Nat
  BY <1>1, GivenNumbers DEF SeenNodes
<1>4. Index(inode_hash, i) = i /\ InUse \subseteq DOMAIN inode_hash
  BY <1>3, NodeAt
<1> HIDE DEF i
<1>5. /\ inode_hash'[i] = Counted(Inode(i).links)
      /\ \A j \in InUse \ {i} : inode_hash'[j] = inode_hash[j]
  BY <1>1, <1>2, <1>4 DEF Put, PutAll
<1>6. inode_hash'[i].parent = 0
  BY <1>5 DEF Counted
<1>7. \A j \in SeenNodes : inode_hash'[j] = inode_hash[j]
  BY <1>1, <1>3, <1>5
<1>8. ParentErrs' = ParentErrs
  BY <1>2, NoParentErrors
<1> QED
  BY <1>1, <1>2, <1>6, <1>7, <1>8 DEF ParentInv, Par

LEMMA PointerParents ==
    ASSUME ScanOK, Given, ParentInv, CheckPointer, UNCHANGED <<disk, csv>>, exit_b' # 1
    PROVE  ParentInv'
<1> DEFINE e == csv.inode[line]
           block == e.ptr[num - 1]
           level == Level(num - 1)
<1>1. /\ section = "inode" /\ section' = "inode" /\ inode_hash' = inode_hash
      /\ num > 0 /\ num \in Nat /\ line \in Nat
      /\ (line' = line + 1 /\ num' = 0) \/ (line' = line /\ num' = num + 1)
      /\ err_list \subseteq err_list'
  BY ImageAssumption DEF CheckPointer, ScanOK
<1>2. \A x \in err_list' \ err_list : x.type # "parent"
  <2>1. \A x \in err_list' \ err_list :
            x \in OutOfRange(block, level, e.of) \cup AlreadyUsed(block, level, e.of)
    BY DEF CheckPointer
  <2>2. \A x \in OutOfRange(block, level, e.of) : x.type = "block"
    BY ErrorKinds DEF OutOfRange
  <2>3. \A x \in AlreadyUsed(block, level, e.of) : x.type \in {"block", "free"}
    BY ErrorKinds DEF AlreadyUsed
  <2> QED
    BY <2>1, <2>2, <2>3
<1>3. SeenNodes' = SeenNodes
  <2>1. \A n \in Nat : (n < line' \/ (n = line' /\ num' > 0))
                       <=> (n < line \/ (n = line /\ num > 0))
    BY <1>1
  <2>2. \A n \in 1 .. Len(csv.inode) : n \in Nat
    BY InodeLines DEF Given
  <2> QED
    BY <1>1, <2>1, <2>2 DEF SeenNodes
<1>4. ParentErrs' = ParentErrs
  BY <1>1, <1>2, NoParentErrors
<1> QED
  BY <1>1, <1>3, <1>4 DEF ParentInv, Par

(* Before the entries only the root is known to be in a directory.         *)
LEMMA RootParents ==
    ASSUME ScanOK, Given, InodeInv, ParentInv, SetRoot, UNCHANGED <<disk, csv>>, exit_b' # 1
    PROVE  ParentInv'
<1>1. /\ section = "inode" /\ section' = "dirent" /\ line' = 1
      /\ line > Len(csv.inode) /\ line \in Nat /\ Len(csv.inode) \in Nat
      /\ err_list' = err_list
      /\ IsArray(At(inode_hash, 2)) /\ inode_hash' = [inode_hash EXCEPT ![2].parent = 2]
  BY InodeLines DEF SetRoot, Raise, At1, ScanOK, Given
<1>2. SeenNodes = InUse
  <2>1. \A n \in 1 .. Len(csv.inode) : n < line
    BY <1>1
  <2> QED
    BY <1>1, <2>1, GivenNumbers DEF SeenNodes
<1>3. SeenEntries' = {}
  BY <1>1 DEF SeenEntries, EntryLines, Given
<1>4. ParentErrs' = {} /\ \A i \in InUse : Par(i) = 0
  <2>1. ParentErrs' = ParentErrs
    BY <1>1, NoParentErrors
  <2> QED
    BY <1>1, <1>2, <2>1 DEF ParentInv
<1>5. InUse \subseteq DOMAIN inode_hash
  BY GivenNumbers, NodeAt
<1>6. \A i \in InUse : Par(i)' = IF i = 2 THEN 2 ELSE 0
  <2>1. \A i \in InUse : inode_hash[i] \in NodeEntries
    BY <1>2 DEF InodeInv, NodesOK
  <2>2. ASSUME NEW i \in InUse PROVE Par(i)' = IF i = 2 THEN 2 ELSE 0
    <3>1. CASE i = 2
      <4>1. inode_hash'[2] = [inode_hash[2] EXCEPT !.parent = 2]
        BY <1>1, <1>5, <3>1
      <4> QED
        BY <2>1, <3>1, <4>1 DEF Par, NodeEntries
    <3>2. CASE i # 2
      BY <1>1, <1>4, <1>5, <3>2 DEF Par
    <3> QED
      BY <3>1, <3>2
  <2> QED
    BY <2>2
<1>7. /\ \A i, c : Claimed(SeenEntries, i, c)' <=> Claimed({}, i, c)
      /\ Agree(SeenEntries)' <=> Agree({})
      /\ InUse' = InUse
  <2>1. \A i, c : Claimed(SeenEntries, i, c)' <=> Claimed(SeenEntries', i, c)
    BY StaysClaims
  <2> QED
    BY <1>3, <2>1, StaysClaims, StaysGiven
<1>8. Agree({}) /\ \A i, c : Claimed({}, i, c) <=> i = 2 /\ c = 2
  BY DEF Agree, Claimed
<1>9. \A i \in InUse' : IF Par(i)' = 0 THEN \A c : ~Claimed(SeenEntries, i, c)'
                                       ELSE Claimed(SeenEntries, i, Par(i))'
  <2>1. \A i : Claimed(SeenEntries, i, Par(i))' <=> Claimed({}, i, Par(i)')
    BY <1>3, StaysGiven DEF Claimed
  <2> QED
    BY <1>6, <1>7, <1>8, <2>1
<1> QED
  BY <1>1, <1>4, <1>7, <1>8, <1>9 DEF ParentInv

LEMMA LaterParents ==
    ASSUME Given, ParentInv, UNCHANGED <<disk, csv, inode_hash>>,
           section \in {"dirent", "indirect"}, section' \in {"indirect", "done"},
           SeenEntries' = SeenEntries, err_list \subseteq err_list',
           \A e \in err_list' \ err_list : e.type # "parent"
    PROVE  ParentInv'
<1>1. ParentErrs' = ParentErrs
  BY NoParentErrors
<1>2. /\ Agree(EntryLines)' <=> Agree(EntryLines)
      /\ Agree(SeenEntries)' <=> Agree(SeenEntries)
      /\ \A i, c : Claimed(SeenEntries, i, c)' <=> Claimed(SeenEntries, i, c)
      /\ InUse' = InUse /\ \A i : Par(i)' = Par(i)
  BY StaysClaims, StaysGiven DEF Par
<1>3. \A i : Claimed(SeenEntries, i, Par(i))' <=> Claimed(SeenEntries, i, Par(i))
  BY StaysGiven, <1>2 DEF Claimed, Claims, IsName, KnownBy, Says
<1> QED
  BY <1>1, <1>2, <1>3 DEF ParentInv

LEMMA LastParents ==
    ASSUME ScanOK, Given, InodeInv, ParentInv, DirentsDone \/ ScanIndirect \/ Conclude,
           UNCHANGED <<disk, csv>>
    PROVE  ParentInv'
<1>1. SeenEntries' = SeenEntries
  BY DirentsDoneInodes, IndirectInodes, ConcludeInodes
<1>2. /\ section \in {"dirent", "indirect"} /\ section' \in {"indirect", "done"}
      /\ inode_hash' = inode_hash /\ err_list \subseteq err_list'
  BY DEF DirentsDone, ScanIndirect, Conclude, At1, tables
<1>3. \A e \in err_list' \ err_list : e.type # "parent"
  <2>1. CASE DirentsDone
    BY <2>1 DEF DirentsDone
  <2>2. CASE ScanIndirect
    <3>1. \A x \in err_list' \ err_list : \E f, l, b, i, o : x = ErrBlock(f, l, b, i, o)
      BY <2>2 DEF ScanIndirect
    <3> QED
      BY <3>1, ErrorKinds
  <2>3. CASE Conclude
    <3>1. \A x \in err_list' \ err_list : \/ \E b : x = ErrUnref(b)
                                          \/ \E f, b : x = ErrFree(f, b)
                                          \/ \E i, n, k : x = ErrLink(i, n, k)
      BY <2>3 DEF Conclude, UnreferencedBlocks, InodeErrors
    <3>2. /\ \A b : ErrUnref(b).type = "unref"
          /\ \A f, b : ErrFree(f, b).type = "free"
          /\ \A i, n, k : ErrLink(i, n, k).type = "link"
      BY ErrorKinds
    <3> QED
      BY <3>1, <3>2
  <2> QED
    BY <2>1, <2>2, <2>3
<1> QED
  BY <1>1, <1>2, <1>3, LaterParents

-----------------------------------------------------------------------------
(* The invariant of an analysis of a complete summary.                     *)
NodesInv ==
    WithinReach /\ section # "header" /\ exit_b # 1 =>
        InodeInv /\ (LinesNamed => ParentInv)

LEMMA ReachStays ==
    ASSUME disk' = disk
    PROVE  WithinReach' => WithinReach
<1>1. /\ NumGroups' = NumGroups /\ SameGroups' = SameGroups
      /\ FreeBlocks' = FreeBlocks /\ FreeInodes' = FreeInodes /\ InUse' = InUse
      /\ \A b : PointersAt(b)' = PointersAt(b)
      /\ \A i : Inode(i)' = Inode(i)
  BY DEF NumGroups, SameGroups, FreeBlocks, FreeInodes, ClearBits, InUse, Inode, PointersAt
<1>2. \A i, p : BlockAt(i, p)' = BlockAt(i, p)
  BY DEF BlockAt, PointersAt, Inode
<1>3. Refs' = Refs
  BY <1>1, <1>2 DEF Refs
<1>4. Places' = Places /\ \A p : Entry(p)' = Entry(p)
  BY DEF Places, Entry, DirBlocks, Dirs, EntriesAt, InUse, Inode
<1>5. Entries' = Entries
  BY <1>4 DEF Entries
<1>6. PointersAt(0)' = PointersAt(0)
  BY DEF PointersAt
<1>7. \A r \in Refs : BlockAt(r[1], r[2])' = BlockAt(r[1], r[2])
  BY DEF BlockAt, PointersAt, Inode
<1> QED
  BY <1>1, <1>3, <1>4, <1>5, <1>6, <1>7 DEF WithinReach

LEMMA NodesStay ==
    ASSUME UNCHANGED checkerVars, UNCHANGED <<disk, csv>>
    PROVE  (InodeInv => InodeInv') /\ (ParentInv => ParentInv')
<1>1. /\ section' = section /\ line' = line /\ num' = num
      /\ inode_hash' = inode_hash /\ err_list' = err_list
  BY DEF checkerVars, position, tables
<1>2. SeenNodes' = SeenNodes /\ SeenEntries' = SeenEntries /\ IFreeNow' = IFreeNow
  BY <1>1, StaysGiven DEF SeenNodes, SeenEntries, IFreeNow
<1>3. SameErrors /\ ParentErrs' = ParentErrs
  BY <1>1, SameList, NoParentErrors
<1>4. /\ Scanned' = Scanned /\ EntryLines' = EntryLines
      /\ InUse' = InUse /\ FreeInodes' = FreeInodes
      /\ \A i : Inode(i)' = Inode(i)
      /\ \A i : EntriesOf(SeenEntries, i)' = EntriesOf(SeenEntries, i)
      /\ \A i : EntriesOf(EntryLines, i)' = EntriesOf(EntryLines, i)
  BY <1>2, StaysGiven DEF EntriesOf
<1>5. NodesOK => NodesOK'
  BY <1>1, <1>2, <1>4 DEF NodesOK
<1>6. AllInosOK /\ DirErrsOK => AllInosOK' /\ DirErrsOK'
  BY <1>2, <1>3, <1>4 DEF AllInosOK, DirErrsOK, SameErrors
<1>7. UnallInosOK /\ LinkErrsOK => UnallInosOK' /\ LinkErrsOK'
  BY <1>1, <1>3, <1>4 DEF UnallInosOK, LinkErrsOK, SameErrors
<1>8. /\ Agree(EntryLines)' <=> Agree(EntryLines)
      /\ Agree(SeenEntries)' <=> Agree(SeenEntries)
      /\ \A i, c : Claimed(SeenEntries, i, c)' <=> Claimed(SeenEntries, i, c)
      /\ \A i : Par(i)' = Par(i)
  BY <1>1, <1>2, StaysClaims DEF Par
<1>9. \A i : Claimed(SeenEntries, i, Par(i))' <=> Claimed(SeenEntries, i, Par(i))
  BY <1>2, <1>4, <1>8 DEF Claimed, Claims, IsName, KnownBy, Says
<1>10. ParentInv => ParentInv'
  BY <1>1, <1>2, <1>3, <1>4, <1>8, <1>9 DEF ParentInv
<1> QED
  BY <1>5, <1>6, <1>7, <1>10 DEF InodeInv

LEMMA NodesStep ==
    ASSUME CheckInv, AnalysedPrinted, ReaderInv, NodesInv, [Next]_vars
    PROVE  NodesInv'
<1>1. CASE section = "header" /\ UNCHANGED checkerVars
  BY <1>1 DEF NodesInv, checkerVars, position
<1>2. CASE CheckerNext /\ UNCHANGED <<disk, csv, step>>
  <2> SUFFICES ASSUME WithinReach', exit_b' # 1
               PROVE  InodeInv' /\ (LinesNamed' => ParentInv')
    BY DEF NodesInv
  <2>1. /\ ScanOK /\ WithinReach /\ UNCHANGED <<disk, csv>>
        /\ LinesNamed' <=> LinesNamed
    BY <1>2, ReachStays, StaysClaims DEF CheckInv
  <2>2. section # "done"
    BY <1>2 DEF CheckerNext, ScanHeader, ScanBfree, ScanIfree, InodeLineStart, CheckPointer,
                SetRoot, ScanDirent, DirentsDone, ScanIndirect, Conclude
  <2>3. exit_b # 1
    BY <2>1, <2>2 DEF ScanOK, Running
  <2>4. CASE ScanHeader
    <3>1. csv.printed
      BY <2>4 DEF ScanHeader, Raise
    <3>2. Given
      BY <2>1, <3>1, GivenByReader
    <3> QED
      BY <2>1, <2>4, <3>2, HeaderInodes, HeaderParents
  <2>5. CASE ~ScanHeader
    <3>1. CheckerNext /\ section # "header"
      BY <1>2, <2>5 DEF CheckerNext, ScanBfree, ScanIfree, InodeLineStart, CheckPointer,
                        SetRoot, ScanDirent, DirentsDone, ScanIndirect, Conclude
    <3>2. Given /\ InodeInv /\ (LinesNamed => ParentInv)
      BY <2>1, <2>3, <3>1, GivenByReader DEF AnalysedPrinted, NodesInv
    <3>3. CASE ScanBfree
      BY <2>1, <3>2, <3>3, BfreeInodes, FreeParents
    <3>4. CASE ScanIfree
      BY <2>1, <3>2, <3>4, IfreeInodes, FreeParents
    <3>5. CASE InodeLineStart
      BY <2>1, <3>2, <3>5, LineStartInodes, LineStartParents
    <3>6. CASE CheckPointer
      BY <2>1, <3>2, <3>6, PointerInodes, PointerParents
    <3>7. CASE SetRoot
      BY <2>1, <3>2, <3>7, RootInodes, RootParents
    <3>8. CASE ScanDirent
      BY <2>1, <3>2, <3>8, EntryInodes, EntryParents
    <3>9. CASE DirentsDone
      BY <2>1, <3>2, <3>9, DirentsDoneInodes, LastParents
    <3>10. CASE ScanIndirect
      BY <2>1, <3>2, <3>10, IndirectInodes, LastParents
    <3>11. CASE Conclude
      BY <2>1, <3>2, <3>11, ConcludeInodes, LastParents
    <3> QED
      BY <2>5, <3>1, <3>3, <3>4, <3>5, <3>6, <3>7, <3>8, <3>9, <3>10, <3>11 DEF CheckerNext
  <2> QED
    BY <2>4, <2>5
<1>3. CASE UNCHANGED checkerVars /\ UNCHANGED <<disk, csv, step>>
  <2>1. /\ section' = section /\ exit_b' = exit_b
        /\ InodeInv => InodeInv' /\ (ParentInv => ParentInv')
    BY <1>3, NodesStay DEF checkerVars, position
  <2>2. (WithinReach' => WithinReach) /\ (LinesNamed' => LinesNamed)
    BY <1>3, ReachStays, StaysClaims
  <2>inodes. InodeInv => InodeInv'
    BY <1>3, NodesStay
  <2>4. ParentInv => ParentInv'
    BY <1>3, NodesStay
  <2> QED
    BY <2>1, <2>2, <2>inodes, <2>4 DEF NodesInv
<1> QED
  BY <1>1, <1>2, <1>3, StepKinds DEF CheckInv

LEMMA NodesInvariant == Spec => []NodesInv
<1>1. Init => NodesInv
  BY DEF Init, CheckerInit, NodesInv
<1>2. CheckInv /\ AnalysedPrinted /\ ReaderInv /\ NodesInv /\ [Next]_vars => NodesInv'
  BY NodesStep
<1> QED
  BY <1>1, <1>2, CheckInvariant, AnalysedInvariant, ReaderGoesOn, ReaderInvariant, PTL DEF Spec

-----------------------------------------------------------------------------
(* The errors about inodes are those of the disk.                          *)

LEMMA NodesAtTheEnd ==
    ASSUME CheckInv, AnalysedPrinted, ReaderInv, NodesInv, Analysed
    PROVE  /\ Given /\ section = "done" /\ SeenEntries = EntryLines
           /\ SeenNodes = InUse /\ IFreeNow = FreeInodes
           /\ InodeInv /\ (LinesNamed => ParentInv)
           /\ \E g : NumbersPlaces(g)
           /\ Entries = Places
<1>1. section = "done" /\ exit_b # 1 /\ WithinReach
  BY DEF Analysed, CheckInv, ScanOK, Running
<1>2. csv.printed
  BY <1>1 DEF AnalysedPrinted
<1>3. Given /\ \E g : NumbersPlaces(g)
  BY <1>1, <1>2, GivenByReader, ScannedPlaces
<1>4. InodeInv /\ (LinesNamed => ParentInv) /\ Entries = Places
  BY <1>1 DEF NodesInv, WithinReach
<1>5. SeenEntries = EntryLines /\ SeenNodes = InUse /\ IFreeNow = FreeInodes
  BY <1>1, <1>3, GivenNumbers DEF SeenEntries, SeenNodes, IFreeNow
<1> QED
  BY <1>1, <1>3, <1>4, <1>5

(* An inode is counted once for each of its entries.                       *)
LEMMA SameLinks ==
    ASSUME Given, NEW g, NumbersPlaces(g), NEW i
    PROVE  Cardinality(EntriesOf(EntryLines, i)) = Cardinality({p \in Places : Entry(p).inode = i})
<1> DEFINE A == EntriesOf(EntryLines, i)
           B == {p \in Places : Entry(p).inode = i}
           h == [k \in A |-> g[k]]
<1>1. IsFiniteSet(A)
  <2>1. IsFiniteSet(EntryLines) /\ A \subseteq EntryLines
    BY OneTo DEF EntryLines, Given, EntriesOf
  <2> HIDE DEF A
  <2> QED
    BY <2>1, FS_Subset
<1>2. \A k \in EntryLines : k \in A <=> g[k] \in B
  BY DEF NumbersPlaces, EntriesOf
<1>3. A \subseteq EntryLines /\ B \subseteq Places
  BY DEF EntriesOf
<1> HIDE DEF A, B
<1>4. h \in Bijection(A, B)
  <2>1. h \in [A -> B]
    BY <1>2, <1>3
  <2>2. \A j, k \in A : h[j] = h[k] => j = k
    BY <1>3 DEF NumbersPlaces
  <2>3. \A p \in B : \E k \in A : h[k] = p
    BY <1>2, <1>3 DEF NumbersPlaces
  <2> HIDE DEF h
  <2> QED
    BY <2>1, <2>2, <2>3 DEF Bijection, Injection, Surjection, IsInjective
<1>5. ExistsBijection(A, B)
  BY <1>4 DEF ExistsBijection
<1> QED
  BY <1>1, <1>5, FS_Bijection DEF A, B

LEMMA InodesAtTheEnd ==
    ASSUME CheckInv, AnalysedPrinted, ReaderInv, NodesInv
    PROVE  InodesReported
<1> DEFINE links(i) == Cardinality({p \in Entries : Entry(p).inode = i})
<1> SUFFICES ASSUME Analysed
             PROVE  /\ {e.element : e \in Reported("free", {"all_ino"})} = InUse \cap FreeInodes
                    /\ {e.element : e \in Reported("free", {"unall_ino"})}
                           = disk.first_ino .. disk.inodes \ (InUse \cup FreeInodes)
                    /\ {<<e.inode, e.links>> : e \in {e \in err_list : e.type = "link"}}
                           = {<<i, links(i)>> : i \in {i \in InUse : links(i) # Inode(i).links}}
                    /\ {<<e.dir, e.inode>> : e \in Reported("dir", {"unall", "inv"})}
                           = {<<p[1], Entry(p).inode>> :
                                 p \in {p \in Entries : Entry(p).inode \notin InUse}}
  BY DEF InodesReported
<1>1. /\ Given /\ section = "done" /\ SeenEntries = EntryLines
      /\ SeenNodes = InUse /\ IFreeNow = FreeInodes
      /\ InodeInv /\ Entries = Places
  BY NodesAtTheEnd
<1>2. PICK g : NumbersPlaces(g)
  BY NodesAtTheEnd
<1>3. {e.element : e \in Reported("free", {"all_ino"})} = InUse \cap FreeInodes
  BY <1>1 DEF InodeInv, AllInosOK, AllInos
<1>4. {e.element : e \in Reported("free", {"unall_ino"})}
          = disk.first_ino .. disk.inodes \ (InUse \cup FreeInodes)
  <2>1. csv.first_ino = disk.first_ino /\ csv.inodes = disk.inodes
    BY <1>1 DEF Given, Complete, SummaryOK
  <2> QED
    BY <1>1, <2>1 DEF InodeInv, UnallInosOK, UnallInos
<1>5. {<<e.inode, e.links>> : e \in {e \in err_list : e.type = "link"}}
          = {<<i, links(i)>> : i \in {i \in InUse : links(i) # Inode(i).links}}
  <2>1. \A i : links(i) = Cardinality(EntriesOf(EntryLines, i))
    BY <1>1, <1>2, SameLinks
  <2> HIDE DEF links
  <2> QED
    BY <1>1, <2>1 DEF InodeInv, LinkErrsOK, LinkErrs
<1>6. {<<e.dir, e.inode>> : e \in Reported("dir", {"unall", "inv"})}
          = {<<p[1], Entry(p).inode>> : p \in {p \in Entries : Entry(p).inode \notin InUse}}
  <2>1. {<<e.dir, e.inode>> : e \in DirErrs} =
            {<<Scanned[k].of, Scanned[k].inode>> :
                k \in {k \in EntryLines : Scanned[k].inode \notin InUse}}
    BY <1>1 DEF InodeInv, DirErrsOK
  <2>2. {<<Scanned[k].of, Scanned[k].inode>> :
                k \in {k \in EntryLines : Scanned[k].inode \notin InUse}}
        = {<<p[1], Entry(p).inode>> : p \in {p \in Places : Entry(p).inode \notin InUse}}
    BY <1>2 DEF NumbersPlaces
  <2> QED
    BY <1>1, <2>1, <2>2 DEF DirErrs
<1> QED
  BY <1>3, <1>4, <1>5, <1>6

(* The errors about parents are those of the disk.                         *)
LEMMA SameClaims ==
    ASSUME Entries = Places, NEW g, NumbersPlaces(g)
    PROVE  /\ \A i, c : Claimed(EntryLines, i, c) <=> c \in ParentsOf(i)
           /\ \A k \in EntryLines : \A n : Says(k, n) <=> Name(g[k]) = n
<1>1. /\ \A k \in EntryLines : /\ g[k] \in Entries /\ Scanned[k].of = g[k][1]
                               /\ Scanned[k].inode = Entry(g[k]).inode
                               /\ Scanned[k].name[1] = Name(g[k])
      /\ \A p \in Entries : \E k \in EntryLines : g[k] = p
  BY DEF NumbersPlaces, Name
<1>2. \A k \in EntryLines : IsName(k) <=> g[k] \in Names
  BY <1>1 DEF IsName, Names
<1>3. \A k \in EntryLines : Says(k, "..") <=> g[k] \in Ups
  BY <1>1 DEF Says, Ups
<1>4. ASSUME NEW k \in EntryLines PROVE KnownBy(k) <=> Known(g[k])
  <2>1. ASSUME KnownBy(k) PROVE Known(g[k])
    <3>1. PICK j \in EntryLines :
              /\ IsName(j) /\ Scanned[j].of = Scanned[k].inode /\ Scanned[j].inode = Scanned[k].of
              /\ TextBefore(Scanned[j].of, Scanned[k].of)
      BY <2>1 DEF KnownBy
    <3>2. g[j] \in Names
      BY <1>2, <3>1
    <3>3. /\ g[j][1] = Entry(g[k]).inode /\ Entry(g[j]).inode = g[k][1]
          /\ TextBefore(g[j][1], g[k][1])
      BY <1>1, <3>1
    <3> QED
      BY <3>2, <3>3 DEF Known
  <2>2. ASSUME Known(g[k]) PROVE KnownBy(k)
    <3>1. PICK q \in Names : /\ q[1] = Entry(g[k]).inode /\ Entry(q).inode = g[k][1]
                             /\ TextBefore(q[1], g[k][1])
      BY <2>2 DEF Known
    <3>2. PICK j \in EntryLines : g[j] = q
      BY <1>1 DEF Names
    <3>3. IsName(j)
      BY <1>2, <3>2
    <3>4. /\ Scanned[j].of = Scanned[k].inode /\ Scanned[j].inode = Scanned[k].of
          /\ TextBefore(Scanned[j].of, Scanned[k].of)
      BY <1>1, <3>1, <3>2
    <3> QED
      BY <3>3, <3>4 DEF KnownBy
  <2> QED
    BY <2>1, <2>2
<1> DEFINE claim(p, i, c) == \/ p \in Names /\ Entry(p).inode = i /\ p[1] = c
                             \/ p \in Ups /\ p[1] = i /\ Entry(p).inode = c
                             \/ p \in Ups /\ Entry(p).inode = i /\ p[1] = c /\ Known(p)
<1>5. \A k \in EntryLines : \A i, c : Claims(k, i, c) <=> claim(g[k], i, c)
  BY <1>1, <1>2, <1>3, <1>4 DEF Claims
<1>6. \A i, c : c \in ParentsOf(i) <=> (i = 2 /\ c = 2) \/ \E p \in Entries : claim(p, i, c)
  BY DEF ParentsOf, Names, Ups
<1> HIDE DEF claim
<1>7. \A i, c : Claimed(EntryLines, i, c) <=> c \in ParentsOf(i)
  BY <1>1, <1>5, <1>6 DEF Claimed
<1> QED
  BY <1>1, <1>7 DEF Says

LEMMA SameAgreement ==
    ASSUME Entries = Places, NEW g, NumbersPlaces(g),
           \A p \in Entries : p[1] \in InUse /\ Entry(p).inode \in InUse
    PROVE  Agree(EntryLines) <=> OneParent
<1>1. /\ \A i, c : Claimed(EntryLines, i, c) <=> c \in ParentsOf(i)
      /\ \A k \in EntryLines : \A n : Says(k, n) <=> Name(g[k]) = n
  BY SameClaims
<1>2. (\A k \in EntryLines : Says(k, ".") => Scanned[k].inode = Scanned[k].of)
          <=> \A p \in Entries : Name(p) = "." => Entry(p).inode = p[1]
  BY <1>1 DEF NumbersPlaces
<1>3. \A i, c : c \in ParentsOf(i) => i \in InUse \/ (i = 2 /\ c = 2)
  BY DEF ParentsOf, Names, Ups
<1>4. (\A i, c, d : Claimed(EntryLines, i, c) /\ Claimed(EntryLines, i, d) => c = d)
          <=> \A i \in InUse : \A c, d \in ParentsOf(i) : c = d
  BY <1>1, <1>3
<1> QED
  BY <1>2, <1>4 DEF Agree, OneParent

LEMMA ParentsAtTheEnd ==
    ASSUME CheckInv, AnalysedPrinted, ReaderInv, NodesInv
    PROVE  ParentsReported
<1> SUFFICES ASSUME Analysed, \A p \in Entries : Entry(p).inode \in InUse,
                    \A p, q \in Ups : p[1] = q[1] => p = q
             PROVE  Reported("parent", {"self", "parent"}) = {} <=> OneParent
  BY DEF ParentsReported
<1>1. /\ Given /\ section = "done" /\ SeenEntries = EntryLines
      /\ LinesNamed => ParentInv
      /\ Entries = Places
  BY NodesAtTheEnd
<1>2. PICK g : NumbersPlaces(g)
  BY NodesAtTheEnd
<1>3. \A k \in EntryLines : \A n : Says(k, n) <=> Name(g[k]) = n
  BY <1>1, <1>2, SameClaims
<1>4. LinesNamed
  <2>1. \A k \in EntryLines : Scanned[k].inode \in InUse
    BY <1>1, <1>2 DEF NumbersPlaces
  <2>2. ASSUME NEW j \in EntryLines, NEW k \in EntryLines,
               Says(j, ".."), Says(k, ".."), Scanned[j].of = Scanned[k].of
        PROVE  j = k
    <3>1. g[j] \in Ups /\ g[k] \in Ups
      BY <1>1, <1>2, <1>3, <2>2 DEF NumbersPlaces, Ups
    <3>2. g[j][1] = g[k][1]
      BY <1>2, <2>2 DEF NumbersPlaces
    <3> QED
      BY <1>2, <3>1, <3>2 DEF NumbersPlaces
  <2> QED
    BY <2>1, <2>2 DEF LinesNamed
<1>5. \A p \in Entries : p[1] \in InUse /\ Entry(p).inode \in InUse
  BY <1>1, PlacesAre DEF Dirs
<1>6. Agree(EntryLines) <=> OneParent
  BY <1>1, <1>2, <1>5, SameAgreement
<1>7. ParentErrs = {} <=> Agree(EntryLines)
  BY <1>1, <1>4 DEF ParentInv
<1> QED
  BY <1>6, <1>7 DEF ParentErrs

(* The errors about inodes are those of the disk, of every image within    *)
(* reach: an entry is counted for the inode it names, once, in whatever    *)
(* order the lines come.  IFREE, INODE and DIRENT lines of lab3b.rb, and   *)
(* what it prints of the table in the end.                                 *)
THEOREM CheckerReportsInodes == Spec => []InodesReported
<1>1. CheckInv /\ AnalysedPrinted /\ ReaderInv /\ NodesInv => InodesReported
  BY InodesAtTheEnd
<1> QED
  BY <1>1, CheckInvariant, AnalysedInvariant, ReaderGoesOn, ReaderInvariant, NodesInvariant, PTL

(* An error about parents is reported exactly if two entries contradict    *)
(* each other, or one contradicts the root, though the table keeps only    *)
(* the last claim about an inode.  DIRENT lines of lab3b.rb.               *)
THEOREM CheckerReportsParents == Spec => []ParentsReported
<1>1. CheckInv /\ AnalysedPrinted /\ ReaderInv /\ NodesInv => ParentsReported
  BY ParentsAtTheEnd
<1> QED
  BY <1>1, CheckInvariant, AnalysedInvariant, ReaderGoesOn, ReaderInvariant, NodesInvariant, PTL

=============================================================================
