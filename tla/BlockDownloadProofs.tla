------------------------- MODULE BlockDownloadProofs -------------------------
(***************************************************************************)
(* BookkeepingExact, StallerOwesBlock and CommonIsFull of BlockDownload    *)
(* for any block tree, peers, window and limits.                           *)
(***************************************************************************)
EXTENDS BlockDownload, FiniteSetTheorems, SequenceTheorems, WellFoundedInduction, TLAPS

-----------------------------------------------------------------------------
(* Natural numbers: least elements, and what follows for functions that are *)
(* defined by recursion. The invariant of a recursion is given by a set for *)
(* each argument.                                                           *)

LEMMA Least ==
  ASSUME NEW T \in SUBSET Nat, T # {}
  PROVE  \E n \in T : \A m \in T : n <= m
<1>1. PICK n \in T : \A m \in T : ~(<<m, n>> \in OpToRel(<, Nat))
  BY NatLessThanWellFounded, WFMin
<1>2. \A m \in T : ~(m < n)
  BY <1>1 DEF OpToRel
<1>3. QED
  BY <1>2

LEMMA Induction ==
  ASSUME NEW lo \in Nat, NEW hi \in Nat, NEW g, NEW S,
         g[lo] \in S[lo],
         \A k \in (lo + 1)..hi : g[k - 1] \in S[k - 1] => g[k] \in S[k]
  PROVE  \A k \in lo..hi : g[k] \in S[k]
<1> DEFINE T == {k \in lo..hi : g[k] \notin S[k]}
<1> SUFFICES ASSUME T # {} PROVE FALSE
  OBVIOUS
<1>1. PICK k \in T : \A m \in T : k <= m
  <2>1. T \in SUBSET Nat
    OBVIOUS
  <2>2. QED
    BY <2>1, Least
<1>2. k # lo
  OBVIOUS
<1>3. k \in (lo + 1)..hi /\ k - 1 \in lo..hi /\ ~(k <= k - 1)
  BY <1>2
<1>4. k - 1 \notin T
  BY <1>1, <1>3
<1>5. QED
  BY <1>3, <1>4

Solution(lo, hi, x0, step) ==
  CHOOSE f : f = [k \in lo..hi |-> IF k = lo THEN x0 ELSE step[<<k, f[k - 1]>>]]

LEMMA Recursion ==
  ASSUME NEW lo \in Nat, NEW hi \in Nat, lo <= hi, NEW x0, NEW step
  PROVE  /\ Solution(lo, hi, x0, step) = [k \in lo..hi |-> Solution(lo, hi, x0, step)[k]]
         /\ \A k \in lo..hi : Solution(lo, hi, x0, step)[k] =
                               IF k = lo THEN x0 ELSE step[<<k, Solution(lo, hi, x0, step)[k - 1]>>]
<1>1. \E g : g = [k \in lo..hi |-> IF k = lo THEN x0 ELSE step[<<k, g[k - 1]>>]]
  <2> HIDE DEF Solution
  <2> DEFINE Solves(f, h) == f = [k \in lo..h |-> IF k = lo THEN x0 ELSE step[<<k, f[k - 1]>>]]
             T == {h \in lo..hi : ~\E f : Solves(f, h)}
  <2> SUFFICES ASSUME T # {} PROVE FALSE
    <3>1. hi \in lo..hi
      OBVIOUS
    <3>2. QED
      BY <3>1
  <2>1. PICK h \in T : \A m \in T : h <= m
    <3>1. T \in SUBSET Nat
      OBVIOUS
    <3>2. QED
      BY <3>1, Least
  <2>2. h # lo
    <3> SUFFICES ASSUME h = lo PROVE FALSE
      OBVIOUS
    <3> DEFINE f == [k \in lo..lo |-> x0]
    <3>1. Solves(f, lo)
      OBVIOUS
    <3>2. QED
      BY <3>1
  <2>3. h - 1 \in lo..hi /\ ~(h <= h - 1) /\ h \in lo..hi
    BY <2>2
  <2>4. PICK g : Solves(g, h - 1)
    BY <2>1, <2>3
  <2> DEFINE f == [k \in lo..h |-> IF k = h THEN step[<<h, g[h - 1]>>] ELSE g[k]]
  <2>5. ASSUME NEW k \in lo..h
        PROVE  f[k] = IF k = lo THEN x0 ELSE step[<<k, f[k - 1]>>]
    <3>1. CASE k = h
      <4>1. h - 1 \in lo..h /\ h - 1 # h
        BY <2>3
      <4>2. f[h - 1] = g[h - 1]
        BY <4>1
      <4>3. QED
        BY <2>2, <3>1, <4>2
    <3>2. CASE k # h
      <4>1. k \in lo..(h - 1)
        BY <2>3, <3>2
      <4>2. f[k] = g[k]
        BY <3>2
      <4>3. g[k] = IF k = lo THEN x0 ELSE step[<<k, g[k - 1]>>]
        BY <2>4, <4>1
      <4>4. k # lo => k - 1 \in lo..h /\ k - 1 # h
        BY <2>3, <4>1
      <4>5. k # lo => f[k - 1] = g[k - 1]
        BY <4>4
      <4>6. QED
        BY <4>2, <4>3, <4>5
    <3>3. QED
      BY <3>1, <3>2
  <2>6. Solves(f, h)
    BY <2>5
  <2>7. QED
    BY <2>6
<1>2. PICK f : f = Solution(lo, hi, x0, step)
  OBVIOUS
<1>3. f = [k \in lo..hi |-> IF k = lo THEN x0 ELSE step[<<k, f[k - 1]>>]]
  BY <1>1, <1>2 DEF Solution
<1> HIDE DEF Solution
<1>4. QED
  BY <1>2, <1>3

(* Max and Min of FiniteSetsExt *)
LEMMA MaxIn ==
  ASSUME NEW n \in Nat, NEW S \in SUBSET (1..n), S # {}
  PROVE  Max(S) \in S
<1> DEFINE T == {n - k : k \in S}
<1>1. T \in SUBSET Nat /\ T # {}
  <2>1. \A k \in S : n - k \in Nat
    OBVIOUS
  <2>2. QED
    BY <2>1
<1> HIDE DEF T
<1>2. PICK m \in T : \A x \in T : m <= x
  BY <1>1, Least
<1> USE DEF T
<1>3. PICK k \in S : m = n - k
  OBVIOUS
<1>4. \A y \in S : k >= y
  <2> SUFFICES ASSUME NEW y \in S PROVE k >= y
    OBVIOUS
  <2>1. n - y \in T
    OBVIOUS
  <2>2. n - k <= n - y
    BY <1>2, <1>3, <2>1
  <2>3. QED
    BY <2>2
<1>5. QED
  BY <1>4 DEF Max

LEMMA MinIn ==
  ASSUME NEW S \in SUBSET Nat, S # {}
  PROVE  Min(S) \in S /\ \A x \in S : Min(S) <= x
<1>1. PICK m \in S : \A x \in S : m <= x
  BY Least
<1>2. QED
  BY <1>1 DEF Min

LEMMA MinPair ==
  ASSUME NEW a \in Nat, NEW b \in Nat
  PROVE  Min({a, b}) \in {a, b} /\ Min({a, b}) <= a /\ Min({a, b}) <= b
BY MinIn

-----------------------------------------------------------------------------
(* Injective sequences and their ranges *)

LEMMA InjectiveIf ==
  ASSUME NEW s, NEW n, DOMAIN s = 1..n, \A k \in 1..n, l \in 1..n : s[k] = s[l] => k = l
  PROVE  IsInjective(s)
BY DEF IsInjective

LEMMA InjectiveAt ==
  ASSUME NEW s, IsInjective(s), NEW n, DOMAIN s = 1..n
  PROVE  \A k \in 1..n, l \in 1..n : s[k] = s[l] => k = l
BY DEF IsInjective

LEMMA RangeAt ==
  ASSUME NEW s, NEW n, DOMAIN s = 1..n
  PROVE  \A x : x \in Range(s) <=> \E k \in 1..n : x = s[k]
BY DEF Range

-----------------------------------------------------------------------------
(* The block tree *)

LEMMA PathFacts ==
  ASSUME NEW b \in Blocks
  PROVE  /\ Path[b] \in Seq(Blocks) /\ Len(Path[b]) \in Nat \ {0} /\ DOMAIN Path[b] = 1..Len(Path[b])
         /\ \A k \in 1..Len(Path[b]) : Path[b][k] \in Blocks
         /\ Path[b][1] = Genesis /\ Path[b][Len(Path[b])] = b
         /\ \A a : a \in Ancestors(b) <=> \E k \in 1..Len(Path[b]) : a = Path[b][k]
         /\ Ancestors(b) \subseteq Blocks /\ b \in Ancestors(b)
         /\ Height(b) \in Nat /\ Height(b) + 1 = Len(Path[b])
<1>1. Path[b] \in Seq(Blocks) /\ Path[b] # << >> /\ Path[b][1] = Genesis /\ Path[b][Len(Path[b])] = b
  BY TreeAssumption
<1>2. Len(Path[b]) \in Nat \ {0} /\ DOMAIN Path[b] = 1..Len(Path[b])
  BY <1>1
<1>3. \A k \in 1..Len(Path[b]) : Path[b][k] \in Blocks
  BY <1>1
<1>4. \A a : a \in Ancestors(b) <=> \E k \in 1..Len(Path[b]) : a = Path[b][k]
  BY <1>2 DEF Ancestors, Range
<1>5. Len(Path[b]) \in 1..Len(Path[b])
  BY <1>2
<1>6. b \in Ancestors(b)
  BY <1>1, <1>4, <1>5
<1>7. Height(b) \in Nat /\ Height(b) + 1 = Len(Path[b])
  BY <1>2 DEF Height
<1>8. Ancestors(b) \subseteq Blocks
  BY <1>3, <1>4
<1> HIDE DEF Ancestors, Height
<1>9. QED
  BY ONLY <1>1, <1>2, <1>3, <1>4, <1>6, <1>7, <1>8

LEMMA PrefixFacts ==
  ASSUME NEW b \in Blocks, NEW k \in 1..Len(Path[b])
  PROVE  /\ Len(Path[Path[b][k]]) = k /\ Height(Path[b][k]) = k - 1
         /\ \A i \in 1..k : Path[Path[b][k]][i] = Path[b][i]
         /\ Ancestors(Path[b][k]) \subseteq Ancestors(b)
<1>1. Path[Path[b][k]] = SubSeq(Path[b], 1, k)
  <2>1. k \in DOMAIN Path[b]
    BY PathFacts
  <2>2. QED
    BY <2>1, TreeAssumption
<1>2. /\ Len(Path[b]) \in Nat /\ k \in Nat \ {0} /\ k <= Len(Path[b])
      /\ \A i \in 1..k : i \in 1..Len(Path[b])
  BY PathFacts
<1>3. /\ Len(Path[Path[b][k]]) = k
      /\ \A i \in 1..k : Path[Path[b][k]][i] = Path[b][i]
  BY <1>1, <1>2, PathFacts, SubSeqProperties
<1>4. Ancestors(Path[b][k]) \subseteq Ancestors(b)
  <2>1. PICK a \in Blocks : a = Path[b][k]
    BY PathFacts
  <2> SUFFICES ASSUME NEW x \in Ancestors(a) PROVE x \in Ancestors(b)
    BY <2>1
  <2>2. PICK i \in 1..Len(Path[a]) : x = Path[a][i]
    BY PathFacts
  <2>3. i \in 1..Len(Path[b]) /\ x = Path[b][i]
    BY <1>2, <1>3, <2>1, <2>2
  <2>4. QED
    BY <2>3, PathFacts
<1>5. Height(Path[b][k]) = k - 1
  BY <1>2, <1>3 DEF Height
<1>6. QED
  BY <1>3, <1>4, <1>5

LEMMA PathInjective ==
  ASSUME NEW b \in Blocks
  PROVE  IsInjective(Path[b])
<1> SUFFICES ASSUME NEW k \in 1..Len(Path[b]), NEW l \in 1..Len(Path[b]), Path[b][k] = Path[b][l]
             PROVE  k = l
  <2>1. DOMAIN Path[b] = 1..Len(Path[b])
    BY PathFacts
  <2> HIDE DEF IsInjective
  <2>2. QED
    BY <2>1, InjectiveIf
<1>1. Len(Path[Path[b][k]]) = k /\ Len(Path[Path[b][l]]) = l
  BY PrefixFacts
<1>2. QED
  BY <1>1

LEMMA AncestorsOf ==
  ASSUME NEW b \in Blocks, NEW a \in Ancestors(b)
  PROVE  a \in Blocks /\ Ancestors(a) \subseteq Ancestors(b)
<1>1. PICK k \in 1..Len(Path[b]) : a = Path[b][k]
  BY PathFacts
<1>2. a \in Blocks
  BY <1>1, PathFacts
<1>3. QED
  BY <1>1, <1>2, PrefixFacts

LEMMA AncestorHeight ==
  ASSUME NEW b \in Blocks, NEW a \in Ancestors(b)
  PROVE  Height(a) <= Height(b)
<1>1. PICK k \in 1..Len(Path[b]) : a = Path[b][k]
  BY PathFacts
<1>2. Height(a) = k - 1
  BY <1>1, PrefixFacts
<1>3. Height(b) + 1 = Len(Path[b]) /\ Height(b) \in Nat
  BY PathFacts
<1>4. QED
  BY <1>2, <1>3

LEMMA GenesisPath ==
  Genesis \in Blocks /\ Ancestors(Genesis) = {Genesis} /\ Height(Genesis) = 0
<1>1. Genesis \in Blocks
  BY TreeAssumption
<1>2. 1 \in 1..Len(Path[Genesis]) /\ Path[Genesis][1] = Genesis
  BY <1>1, PathFacts
<1>3. Len(Path[Genesis]) = 1 /\ Height(Genesis) = 0
  <2>1. Len(Path[Path[Genesis][1]]) = 1 /\ Height(Path[Genesis][1]) = 1 - 1
    BY <1>1, <1>2, PrefixFacts
  <2>2. QED
    BY <1>2, <2>1
<1>4. \A k \in 1..1 : k = 1
  OBVIOUS
<1>5. QED
  BY <1>1, <1>2, <1>3, <1>4, PathFacts

LEMMA HaveTxDown ==
  ASSUME NEW d, NEW b \in Blocks, HaveTx(b, d), NEW a \in Ancestors(b)
  PROVE  HaveTx(a, d)
BY AncestorsOf DEF HaveTx

(* The last common ancestor is on both paths. *)
LEMMA CommonAncestor ==
  ASSUME NEW a \in Blocks, NEW b \in Blocks
  PROVE  /\ LastCommonAncestor(a, b) \in Ancestors(a)
         /\ LastCommonAncestor(a, b) \in Ancestors(b)
<1> DEFINE K == {k \in DOMAIN Path[a] \cap DOMAIN Path[b] : Path[a][k] = Path[b][k]}
<1>1. K \in SUBSET (1..Len(Path[a])) /\ Len(Path[a]) \in Nat
  <2>1. DOMAIN Path[a] = 1..Len(Path[a]) /\ Len(Path[a]) \in Nat
    BY PathFacts
  <2>2. K \subseteq DOMAIN Path[a]
    OBVIOUS
  <2> HIDE DEF K
  <2>3. QED
    BY ONLY <2>1, <2>2
<1>2. 1 \in K
  <2>1. \A c \in Blocks : Path[c][1] = Genesis /\ 1 \in 1..Len(Path[c])
    BY PathFacts
  <2>2. \A c \in Blocks : 1 \in DOMAIN Path[c]
    BY <2>1, PathFacts
  <2>3. QED
    BY <2>1, <2>2
<1>3. Max(K) \in K
  BY <1>1, <1>2, MaxIn
<1>4. LastCommonAncestor(a, b) = Path[a][Max(K)]
  BY DEF LastCommonAncestor
<1>5. QED
  BY <1>3, <1>4, PathFacts

-----------------------------------------------------------------------------
(* Sequences of blocks *)

LEMMA RangeOf ==
  ASSUME NEW s \in Seq(Blocks)
  PROVE  /\ DOMAIN s = 1..Len(s) /\ Len(s) \in Nat
         /\ \A x : x \in Range(s) <=> \E k \in 1..Len(s) : x = s[k]
BY DEF Range

LEMMA AppendLists ==
  ASSUME NEW s \in Seq(Blocks), IsInjective(s), NEW b \in Blocks, b \notin Range(s)
  PROVE  /\ Append(s, b) \in Seq(Blocks) /\ IsInjective(Append(s, b))
         /\ Range(Append(s, b)) = Range(s) \cup {b}
         /\ Len(Append(s, b)) = Len(s) + 1
<1>1. PICK r \in Seq(Blocks) : r = Append(s, b)
  BY AppendProperties
<1>2. Len(r) = Len(s) + 1 /\ (\A k \in 1..Len(s) : r[k] = s[k]) /\ r[Len(s) + 1] = b
  BY <1>1, AppendProperties
<1>3. \A k \in 1..Len(r) : k \in 1..Len(s) \/ k = Len(s) + 1
  BY <1>2, RangeOf
<1>4. 1..Len(s) \subseteq 1..Len(r) /\ Len(s) + 1 \in 1..Len(r)
  BY <1>2, RangeOf
<1>5. Range(r) = Range(s) \cup {b}
  BY <1>2, <1>3, <1>4, RangeOf
<1>6. IsInjective(r)
  <2> SUFFICES ASSUME NEW k \in 1..Len(r), NEW l \in 1..Len(r), r[k] = r[l]
               PROVE  k = l
    BY RangeOf DEF IsInjective
  <2>1. \A i \in 1..Len(s) : s[i] # b
    BY RangeOf
  <2>2. CASE k \in 1..Len(s) /\ l \in 1..Len(s)
    BY <1>2, <2>2, RangeOf DEF IsInjective
  <2>3. QED
    BY <1>2, <1>3, <2>1, <2>2
<1>7. QED
  BY <1>1, <1>2, <1>5, <1>6

LEMMA ConcatLists ==
  ASSUME NEW s \in Seq(Blocks), IsInjective(s), NEW r \in Seq(Blocks), IsInjective(r),
         Range(s) \cap Range(r) = {}
  PROVE  /\ s \o r \in Seq(Blocks) /\ IsInjective(s \o r)
         /\ Range(s \o r) = Range(s) \cup Range(r)
         /\ Len(s \o r) = Len(s) + Len(r)
<1>1. PICK q \in Seq(Blocks) : q = s \o r
  BY ConcatProperties
<1>2. /\ Len(q) = Len(s) + Len(r) /\ Len(s) \in Nat /\ Len(r) \in Nat
      /\ \A k \in 1..Len(q) : q[k] = IF k <= Len(s) THEN s[k] ELSE r[k - Len(s)]
  BY <1>1, ConcatProperties
<1>3. ASSUME NEW k \in 1..Len(q)
      PROVE  \/ k \in 1..Len(s) /\ q[k] = s[k]
             \/ k - Len(s) \in 1..Len(r) /\ q[k] = r[k - Len(s)]
  BY <1>2
<1>4. \A k \in 1..Len(s) : k \in 1..Len(q) /\ q[k] = s[k]
  BY <1>2
<1>5. ASSUME NEW k \in 1..Len(r)
      PROVE  k + Len(s) \in 1..Len(q) /\ q[k + Len(s)] = r[k]
  <2>1. k + Len(s) \in 1..Len(q) /\ ~(k + Len(s) <= Len(s)) /\ (k + Len(s)) - Len(s) = k
    BY <1>2
  <2>2. QED
    BY <1>2, <2>1
<1>6. Range(q) = Range(s) \cup Range(r)
  <2>1. /\ \A x : x \in Range(q) <=> \E k \in 1..Len(q) : x = q[k]
        /\ \A x : x \in Range(r) <=> \E k \in 1..Len(r) : x = r[k]
        /\ \A x : x \in Range(s) <=> \E k \in 1..Len(s) : x = s[k]
    BY RangeOf
  <2>2. \A x \in Range(q) : x \in Range(s) \cup Range(r)
    BY <1>3, <2>1
  <2>3. \A x \in Range(s) : x \in Range(q)
    BY <1>4, <2>1
  <2>4. \A x \in Range(r) : x \in Range(q)
    BY <1>5, <2>1
  <2>5. QED
    BY <2>2, <2>3, <2>4
<1>7. IsInjective(q)
  <2> SUFFICES ASSUME NEW k \in 1..Len(q), NEW l \in 1..Len(q), q[k] = q[l]
               PROVE  k = l
    BY RangeOf DEF IsInjective
  <2>1. CASE k \in 1..Len(s) /\ q[k] = s[k] /\ l \in 1..Len(s) /\ q[l] = s[l]
    <3>1. \A i, j \in 1..Len(s) : s[i] = s[j] => i = j
      BY RangeOf DEF IsInjective
    <3>2. QED
      BY <2>1, <3>1
  <2>2. CASE k - Len(s) \in 1..Len(r) /\ q[k] = r[k - Len(s)] /\ l - Len(s) \in 1..Len(r) /\ q[l] = r[l - Len(s)]
    <3>1. \A i, j \in 1..Len(r) : r[i] = r[j] => i = j
      BY RangeOf DEF IsInjective
    <3>2. k - Len(s) = l - Len(s)
      BY <2>2, <3>1
    <3>3. QED
      BY <1>2, <3>2
  <2>3. \A i \in 1..Len(s), j \in 1..Len(r) : s[i] # r[j]
    BY RangeOf
  <2>4. QED
    BY <1>3, <2>1, <2>2, <2>3
<1>8. QED
  BY <1>1, <1>2, <1>6, <1>7

(* Without takes one element out. *)
LEMMA WithoutLists ==
  ASSUME NEW s \in Seq(Blocks), IsInjective(s), NEW b \in Range(s)
  PROVE  /\ Without(s, b) \in Seq(Blocks) /\ IsInjective(Without(s, b))
         /\ Range(Without(s, b)) = Range(s) \ {b}
         /\ Len(Without(s, b)) = Len(s) - 1
<1> DEFINE L == {l \in DOMAIN s : s[l] = b}
           k == Min(L)
<1>1. L \in SUBSET Nat /\ L # {}
  BY RangeOf
<1>2. k \in 1..Len(s) /\ s[k] = b
  BY <1>1, MinIn, RangeOf
<1> HIDE DEF k
<1>3. Without(s, b) = SubSeq(s, 1, k - 1) \o SubSeq(s, k + 1, Len(s))
  BY DEF Without, k
<1>4. PICK u : u = SubSeq(s, 1, k - 1)
  OBVIOUS
<1>5. PICK v : v = SubSeq(s, k + 1, Len(s))
  OBVIOUS
<1>6. Len(s) \in Nat /\ k \in Nat /\ 1 <= k /\ k <= Len(s)
  BY <1>2, RangeOf
<1>7. u \in Seq(Blocks) /\ Len(u) = k - 1 /\ \A i \in 1..(k - 1) : u[i] = s[i]
  <2>1. \A i \in 1..(k - 1) : s[i] \in Blocks
    BY <1>6
  <2>2. k - 1 \in Int /\ 1 \in Int
    BY <1>6
  <2>3. /\ u \in Seq(Blocks) /\ Len(u) = IF 1 <= k - 1 THEN (k - 1) - 1 + 1 ELSE 0
        /\ \A i \in 1..((k - 1) - 1 + 1) : u[i] = s[1 + i - 1]
    BY <1>4, <2>1, <2>2, SubSeqProperties
  <2>4. QED
    BY <1>6, <2>3
<1>8. v \in Seq(Blocks) /\ Len(v) = Len(s) - k /\ \A i \in 1..(Len(s) - k) : v[i] = s[k + i]
  <2>1. \A i \in (k + 1)..Len(s) : s[i] \in Blocks
    BY <1>6
  <2>2. k + 1 \in Int /\ Len(s) \in Int
    BY <1>6
  <2>3. /\ v \in Seq(Blocks) /\ Len(v) = IF k + 1 <= Len(s) THEN Len(s) - (k + 1) + 1 ELSE 0
        /\ \A i \in 1..(Len(s) - (k + 1) + 1) : v[i] = s[(k + 1) + i - 1]
    BY <1>5, <2>1, <2>2, SubSeqProperties
  <2>4. QED
    BY <1>6, <2>3
<1>9. \A i, j \in 1..Len(s) : s[i] = s[j] => i = j
  BY RangeOf DEF IsInjective
<1>10. IsInjective(u)
  <2> SUFFICES ASSUME NEW i \in 1..(k - 1), NEW j \in 1..(k - 1), u[i] = u[j]
               PROVE  i = j
    BY <1>7 DEF IsInjective
  <2>1. i \in 1..Len(s) /\ j \in 1..Len(s)
    BY <1>6
  <2>2. QED
    BY <1>7, <1>9, <2>1
<1>11. IsInjective(v)
  <2> SUFFICES ASSUME NEW i \in 1..(Len(s) - k), NEW j \in 1..(Len(s) - k), v[i] = v[j]
               PROVE  i = j
    BY <1>8, RangeOf DEF IsInjective
  <2>1. k + i \in 1..Len(s) /\ k + j \in 1..Len(s)
    BY <1>6
  <2>2. k + i = k + j
    BY <1>8, <1>9, <2>1
  <2>3. QED
    BY <1>6, <2>2
<1>12. \A x : x \in Range(u) <=> \E i \in 1..(k - 1) : x = s[i]
  BY <1>7, RangeOf
<1>13. \A x : x \in Range(v) <=> \E i \in (k + 1)..Len(s) : x = s[i]
  <2>1. \A i \in (k + 1)..Len(s) : i - k \in 1..(Len(s) - k) /\ k + (i - k) = i
    BY <1>6
  <2>2. \A i \in 1..(Len(s) - k) : k + i \in (k + 1)..Len(s)
    BY <1>6
  <2>3. \A x : x \in Range(v) <=> \E i \in 1..(Len(s) - k) : x = v[i]
    BY <1>8, RangeOf
  <2>4. ASSUME NEW x \in Range(v)
        PROVE  \E i \in (k + 1)..Len(s) : x = s[i]
    <3>1. PICK i \in 1..(Len(s) - k) : x = v[i]
      BY <2>3
    <3>2. QED
      BY <1>8, <2>2, <3>1
  <2>5. ASSUME NEW i \in (k + 1)..Len(s)
        PROVE  s[i] \in Range(v)
    <3>1. v[i - k] = s[i] /\ i - k \in 1..(Len(s) - k)
      BY <1>8, <2>1
    <3>2. QED
      BY <2>3, <3>1
  <2>6. QED
    BY <2>4, <2>5
<1>14. Range(u) \cap Range(v) = {}
  <2> SUFFICES ASSUME NEW i \in 1..(k - 1), NEW j \in (k + 1)..Len(s), s[i] = s[j]
               PROVE  FALSE
    BY <1>12, <1>13
  <2>1. i \in 1..Len(s) /\ j \in 1..Len(s) /\ i # j
    BY <1>6
  <2>2. QED
    BY <1>9, <2>1
<1>15. Range(u) \cup Range(v) = Range(s) \ {b}
  <2>1. \A i \in 1..Len(s) : i \in 1..(k - 1) \/ i \in (k + 1)..Len(s) \/ i = k
    BY <1>6
  <2>2. \A i : i \in 1..(k - 1) \/ i \in (k + 1)..Len(s) => i \in 1..Len(s) /\ i # k
    BY <1>6
  <2>3. \A x : x \in Range(s) <=> \E i \in 1..Len(s) : x = s[i]
    BY RangeOf
  <2>4. QED
    BY <1>2, <1>9, <1>12, <1>13, <2>1, <2>2, <2>3
<1>16. (k - 1) + (Len(s) - k) = Len(s) - 1
  BY <1>6
<1>17. /\ u \o v \in Seq(Blocks) /\ IsInjective(u \o v)
       /\ Range(u \o v) = Range(u) \cup Range(v) /\ Len(u \o v) = Len(u) + Len(v)
  BY <1>7, <1>8, <1>10, <1>11, <1>14, ConcatLists
<1>18. Len(u) + Len(v) = Len(s) - 1
  BY <1>7, <1>8, <1>16
<1>19. PICK w : w = u \o v
  OBVIOUS
<1>20. Without(s, b) = w
  BY <1>3, <1>4, <1>5, <1>19
<1> HIDE DEF L, Without, IsInjective
<1>21. QED
  BY ONLY <1>15, <1>17, <1>18, <1>19, <1>20

(* Keep only keeps elements of S. *)
LEMMA KeepLists ==
  ASSUME NEW s \in Seq(Blocks), IsInjective(s), NEW S
  PROVE  /\ Keep(s, S) \in Seq(Blocks) /\ IsInjective(Keep(s, S))
         /\ Range(Keep(s, S)) \subseteq Range(s) \cap S
<1> DEFINE Next1(k, r) == IF s[k] \in S THEN Append(r, s[k]) ELSE r
           step == [q \in (0..Len(s)) \X Seq(Blocks) |-> Next1(q[1], q[2])]
           Body(f, k) == IF k = 0 THEN << >> ELSE Next1(k, f[k - 1])
           Good == [k \in 0..Len(s) |->
                      {r \in Seq(Blocks) : IsInjective(r) /\ \A x \in Range(r) :
                                             x \in S /\ \E i \in 1..k : x = s[i]}]
<1>1. Len(s) \in Nat /\ 0 \in Nat /\ 0 <= Len(s)
  BY RangeOf
<1>2. PICK f : /\ f = [k \in 0..Len(s) |-> f[k]]
               /\ \A k \in 0..Len(s) : f[k] = IF k = 0 THEN << >> ELSE step[<<k, f[k - 1]>>]
  <2> HIDE DEF step
  <2>1. PICK n, e : n = Len(s) /\ e = << >>
    OBVIOUS
  <2>2. n \in Nat /\ 0 \in Nat /\ 0 <= n
    BY <1>1, <2>1
  <2>3. PICK f : f = Solution(0, n, e, step)
    OBVIOUS
  <2> HIDE DEF Solution
  <2>4. /\ f = [k \in 0..n |-> f[k]]
        /\ \A k \in 0..n : f[k] = IF k = 0 THEN e ELSE step[<<k, f[k - 1]>>]
    BY ONLY <2>2, <2>3, Recursion
  <2>5. QED
    BY <2>1, <2>4
<1>3. << >> \in Good[0]
  <2>1. PICK e : e = << >>
    OBVIOUS
  <2>2. e \in Seq(Blocks) /\ Len(e) = 0
    BY <2>1
  <2>3. DOMAIN e = 1..0 /\ \A k : k \notin 1..0
    BY <2>2, RangeOf
  <2>4. IsInjective(e) /\ Range(e) = {}
    BY <2>3 DEF IsInjective, Range
  <2>5. 0 \in 0..Len(s) /\ \A x : x \notin Range(e)
    BY <1>1, <2>4
  <2> HIDE DEF IsInjective
  <2>6. e \in Good[0]
    BY <2>2, <2>4, <2>5
  <2> HIDE DEF Good
  <2>7. QED
    BY <2>1, <2>6
<1>4. ASSUME NEW k \in (0 + 1)..Len(s), NEW r \in Good[k - 1]
      PROVE  Next1(k, r) \in Good[k]
  <2>1. k \in 1..Len(s) /\ k - 1 \in 0..Len(s) /\ k \in 0..Len(s) /\ \A i \in 1..(k - 1) : i \in 1..k /\ i # k /\ i \in 1..Len(s)
    BY <1>1
  <2>2. r \in Seq(Blocks) /\ IsInjective(r) /\ \A x \in Range(r) : x \in S /\ \E i \in 1..(k - 1) : x = s[i]
    BY <2>1
  <2>3. \A i \in 1..(k - 1) : s[i] # s[k]
    BY <2>1, RangeOf, InjectiveAt
  <2>4. s[k] \notin Range(r) /\ s[k] \in Blocks /\ k \in 1..k
    BY <2>1, <2>2, <2>3
  <2>5. PICK q : q = Append(r, s[k])
    OBVIOUS
  <2>6. q \in Seq(Blocks) /\ IsInjective(q) /\ Range(q) = Range(r) \cup {s[k]}
    BY <2>2, <2>4, <2>5, AppendLists
  <2>7. \A x \in Range(r) : x \in S /\ \E i \in 1..k : x = s[i]
    BY <2>1, <2>2
  <2> HIDE DEF IsInjective
  <2>8. r \in Good[k]
    BY <2>1, <2>2, <2>7
  <2>9. ASSUME s[k] \in S PROVE q \in Good[k]
    BY <2>1, <2>4, <2>6, <2>7, <2>9
  <2> HIDE DEF Good
  <2>10. QED
    BY <2>5, <2>8, <2>9
<1>5. ASSUME NEW k \in (0 + 1)..Len(s), f[k - 1] \in Good[k - 1]
      PROVE  f[k] = Next1(k, f[k - 1])
  <2>1. k \in 0..Len(s) /\ k # 0 /\ k - 1 \in 0..Len(s)
    BY <1>1
  <2>2. f[k] = step[<<k, f[k - 1]>>]
    BY <1>2, <2>1
  <2>3. f[k - 1] \in Seq(Blocks)
    BY <1>5, <2>1
  <2> HIDE DEF Next1, Good
  <2>4. QED
    BY <2>1, <2>2, <2>3
<1>6. \A k \in 0..Len(s) : f[k] \in Good[k]
  <2>1. \A k \in (0 + 1)..Len(s) : f[k - 1] \in Good[k - 1] => f[k] \in Good[k]
    <3> HIDE DEF Next1, Good
    <3>1. QED
      BY <1>4, <1>5
  <2>2. f[0] \in Good[0]
    <3> HIDE DEF Good, step
    <3>1. 0 \in 0..Len(s)
      BY <1>1
    <3>2. f[0] = << >>
      BY <1>2, <3>1
    <3>3. QED
      BY <1>3, <3>2
  <2> HIDE DEF Good
  <2>3. QED
    BY <1>1, <2>1, <2>2, Induction
<1>7. f = [k \in 0..Len(s) |-> Body(f, k)]
  <2>1. ASSUME NEW k \in 0..Len(s)
        PROVE  f[k] = Body(f, k)
    <3>1. CASE k = 0
      BY <1>2, <3>1
    <3>2. CASE k # 0
      <4>1. k \in (0 + 1)..Len(s) /\ k - 1 \in 0..Len(s)
        BY <1>1, <3>2
      <4> HIDE DEF Next1, Good
      <4>2. f[k] = Next1(k, f[k - 1])
        BY <1>5, <1>6, <4>1
      <4>3. QED
        BY <3>2, <4>2
    <3>3. QED
      BY <3>1, <3>2
  <2>2. f = [k \in 0..Len(s) |-> f[k]]
    BY <1>2
  <2> HIDE DEF Body
  <2>3. QED
    BY <2>1, <2>2
<1> DEFINE kept == CHOOSE h : h = [k \in 0..Len(s) |-> Body(h, k)]
<1>8. kept = [k \in 0..Len(s) |-> Body(kept, k)]
  <2> HIDE DEF Body
  <2>1. QED
    BY <1>7
<1>9. Keep(s, S) = kept[Len(s)]
  BY DEF Keep
<1> HIDE DEF kept
<1>10. kept[0] \in Good[0]
  <2> HIDE DEF Good
  <2>1. 0 \in 0..Len(s)
    BY <1>1
  <2>2. kept[0] = << >>
    BY <1>8, <2>1
  <2>3. QED
    BY <1>3, <2>2
<1>11. \A k \in (0 + 1)..Len(s) : kept[k - 1] \in Good[k - 1] => kept[k] \in Good[k]
  <2> SUFFICES ASSUME NEW k \in (0 + 1)..Len(s), kept[k - 1] \in Good[k - 1]
               PROVE  kept[k] \in Good[k]
    OBVIOUS
  <2>1. k \in 0..Len(s) /\ k # 0
    BY <1>1
  <2> HIDE DEF Next1, Good
  <2>2. kept[k] = Next1(k, kept[k - 1])
    BY <1>8, <2>1
  <2>3. QED
    BY <1>4, <2>2
<1>12. Len(s) \in 0..Len(s) /\ kept[Len(s)] \in Good[Len(s)]
  <2>1. Len(s) \in 0..Len(s)
    BY <1>1
  <2> HIDE DEF Good
  <2>2. QED
    BY <1>1, <1>10, <1>11, <2>1, Induction
<1>13. PICK r : r = Keep(s, S)
  OBVIOUS
<1>14. r \in Seq(Blocks) /\ IsInjective(r) /\ \A x \in Range(r) : x \in S /\ \E i \in 1..Len(s) : x = s[i]
  BY <1>9, <1>12, <1>13
<1>15. Range(r) \subseteq Range(s) \cap S
  BY <1>14, RangeOf
<1>16. QED
  BY <1>13, <1>14, <1>15

LEMMA PrefixLists ==
  ASSUME NEW s \in Seq(Blocks), IsInjective(s), NEW m \in 0..Len(s)
  PROVE  /\ SubSeq(s, 1, m) \in Seq(Blocks) /\ IsInjective(SubSeq(s, 1, m))
         /\ Range(SubSeq(s, 1, m)) \subseteq Range(s)
         /\ Len(SubSeq(s, 1, m)) = m
<1>1. Len(s) \in Nat /\ m \in Nat /\ m <= Len(s) /\ \A i \in 1..m : i \in 1..Len(s) /\ s[i] \in Blocks
  BY RangeOf
<1>2. PICK u : u = SubSeq(s, 1, m)
  OBVIOUS
<1>3. u \in Seq(Blocks) /\ Len(u) = m /\ \A i \in 1..m : u[i] = s[i]
  <2>1. /\ u \in Seq(Blocks) /\ Len(u) = IF 1 <= m THEN m - 1 + 1 ELSE 0
        /\ \A i \in 1..(m - 1 + 1) : u[i] = s[1 + i - 1]
    BY <1>1, <1>2, SubSeqProperties
  <2>2. QED
    BY <1>1, <2>1
<1>4. DOMAIN u = 1..m
  BY <1>3, RangeOf
<1>5. IsInjective(u)
  <2>1. \A k \in 1..m, l \in 1..m : u[k] = u[l] => k = l
    BY <1>1, <1>3, RangeOf, InjectiveAt
  <2>2. QED
    BY <1>4, <2>1, InjectiveIf
<1>6. Range(u) \subseteq Range(s)
  <2> SUFFICES ASSUME NEW x \in Range(u) PROVE x \in Range(s)
    OBVIOUS
  <2>1. PICK i \in 1..m : x = u[i]
    BY <1>4, RangeAt
  <2>2. i \in 1..Len(s) /\ x = s[i]
    BY <1>1, <1>3, <2>1
  <2>3. QED
    BY <2>2, RangeOf
<1>7. QED
  BY <1>2, <1>3, <1>5, <1>6

LEMMA RangeCardinality ==
  ASSUME NEW s \in Seq(Blocks)
  PROVE  IsFiniteSet(Range(s)) /\ Cardinality(Range(s)) \in Nat /\ Cardinality(Range(s)) <= Len(s)
<1>1. Len(s) \in Nat /\ DOMAIN s = 1..Len(s)
  BY RangeOf
<1>2. \A x : x \in Range(s) <=> \E k \in 1..Len(s) : x = s[k]
  BY RangeOf
<1>3. s \in [1..Len(s) -> Range(s)]
  <2>1. s = [k \in 1..Len(s) |-> s[k]] /\ \A k \in 1..Len(s) : s[k] \in Range(s)
    BY <1>2
  <2>2. QED
    BY <2>1
<1>4. ExistsSurjection(1..Len(s), Range(s))
  BY <1>2, <1>3 DEF ExistsSurjection, Surjection
<1>5. IsFiniteSet(Range(s))
  BY <1>1, <1>4, FS_NatSurjection
<1>6. QED
  BY <1>1, <1>4, <1>5, FS_SurjCardinalityBound, FS_CardinalityType

-----------------------------------------------------------------------------
(* What a peer is asked for: blocks that are neither stored nor in flight, *)
(* each once, and no more than there is room for.                          *)

Wanted(w, room) ==
  /\ w \in Seq(Blocks) /\ IsInjective(w) /\ Len(w) <= room
  /\ \A b \in Range(w) : b \notin data /\ ~InFlight(b)

LEMMA NothingWanted ==
  ASSUME NEW room \in Nat
  PROVE  Wanted(<< >>, room)
<1>1. PICK e : e = << >>
  OBVIOUS
<1>2. e \in Seq(Blocks) /\ Len(e) = 0 /\ DOMAIN e = {}
  BY <1>1
<1>3. IsInjective(e) /\ Range(e) = {}
  BY <1>2 DEF IsInjective, Range
<1> HIDE DEF IsInjective, Range
<1>4. QED
  BY <1>1, <1>2, <1>3 DEF Wanted

LEMMA DirectFetchWanted ==
  ASSUME NEW b \in Blocks, NEW n, Room(n) \in Nat
  PROVE  Wanted(DirectFetch(n, b), Room(n))
<1> DEFINE branch == Keep(Path[b], Blocks \ Ancestors(tip))
           missing == Keep(branch, {c \in Blocks \ data : ~InFlight(c)})
           m == Min({Len(missing), Room(n)})
<1>1. branch \in Seq(Blocks) /\ IsInjective(branch)
  BY PathFacts, PathInjective, KeepLists
<1> HIDE DEF branch
<1>2. missing \in Seq(Blocks) /\ IsInjective(missing)
  BY <1>1, KeepLists
<1>3. \A c \in Range(missing) : c \notin data /\ ~InFlight(c)
  <2>1. Range(missing) \subseteq {c \in Blocks \ data : ~InFlight(c)}
    BY <1>1, KeepLists
  <2> HIDE DEF missing
  <2>2. QED
    BY <2>1
<1> HIDE DEF missing
<1>4. m \in 0..Len(missing) /\ m <= Room(n)
  <2>1. Len(missing) \in Nat
    BY <1>2
  <2>2. QED
    BY <2>1, MinPair
<1> HIDE DEF m
<1>5. Wanted(SubSeq(missing, 1, m), Room(n))
  <2>1. PICK u : u = SubSeq(missing, 1, m)
    OBVIOUS
  <2>2. u \in Seq(Blocks) /\ IsInjective(u) /\ Len(u) = m /\ Range(u) \subseteq Range(missing)
    BY <1>2, <1>4, <2>1, PrefixLists
  <2> HIDE DEF IsInjective, Range, InFlight
  <2>3. QED
    BY <1>3, <1>4, <2>1, <2>2 DEF Wanted
<1>6. DirectFetch(n, b) = << >> \/ DirectFetch(n, b) = SubSeq(missing, 1, m)
  BY DEF DirectFetch, branch, missing, m
<1>7. QED
  BY <1>5, <1>6, NothingWanted

-----------------------------------------------------------------------------
(* FindNextBlocksToDownload *)

LEMMA CommonStartFull ==
  ASSUME tip \in Blocks, HaveTx(tip, data), NEW n, n.best \in Blocks,
         n.common \in Blocks \cup {None}, n.common # None => HaveTx(n.common, data)
  PROVE  /\ CommonStart(n) \in Ancestors(n.best)
         /\ CommonStart(n) \in Blocks /\ HaveTx(CommonStart(n), data)
<1> DEFINE guess == Path[tip][Min({Height(n.best), Height(tip)}) + 1]
           from == IF n.common # None THEN n.common ELSE guess
<1>1. guess \in Blocks /\ guess \in Ancestors(tip)
  <2> DEFINE m == Min({Height(n.best), Height(tip)})
  <2>1. Height(n.best) \in Nat /\ Height(tip) \in Nat /\ Height(tip) + 1 = Len(Path[tip])
    BY PathFacts
  <2>2. m \in Nat /\ m <= Height(tip)
    BY <2>1, MinPair
  <2> HIDE DEF m
  <2>3. m + 1 \in 1..Len(Path[tip])
    BY <2>1, <2>2
  <2>4. guess = Path[tip][m + 1]
    BY DEF m
  <2> HIDE DEF guess
  <2>5. QED
    BY <2>3, <2>4, PathFacts
<1> HIDE DEF guess
<1>2. from \in Blocks /\ HaveTx(from, data)
  BY <1>1, HaveTxDown
<1> HIDE DEF from
<1>3. CommonStart(n) = LastCommonAncestor(from, n.best)
  BY DEF CommonStart, from, guess
<1>4. CommonStart(n) \in Ancestors(from) /\ CommonStart(n) \in Ancestors(n.best)
  BY <1>2, <1>3, CommonAncestor
<1>5. QED
  BY <1>2, <1>4, HaveTxDown, AncestorsOf

(* The peer holds back a block: one that we wait for. *)
Waited(q) == \E b \in Blocks : mapBlocksInFlight[b] = q

(* What the walk of peer p with state n has found, when it has come to height k *)
WalkState == [common : Blocks, fetch : Seq(Blocks), waiting : Peers \cup {None},
              staller : Peers \cup {None}, done : BOOLEAN]

Walked(p, n, k) ==
  {w \in WalkState :
    /\ HaveTx(w.common, data)
    /\ Wanted(w.fetch, Room(n)) /\ (~w.done => Len(w.fetch) < Room(n))
    /\ \A x \in Range(w.fetch) : \E i \in 1..(k + 1) : x = Path[n.best][i]
    /\ w.waiting # None => Waited(w.waiting)
    /\ w.staller # None => w.staller # p /\ Waited(w.staller)}

LEMMA WalkBlockKeeps ==
  ASSUME mapBlocksInFlight \in [Blocks -> Peers \cup {None}],
         NEW p, NEW n, n.best \in Blocks, Room(n) \in Nat, NEW end,
         NEW k \in 1..Height(n.best), NEW w \in Walked(p, n, k - 1)
  PROVE  WalkBlock(p, n, end, w, Path[n.best][k + 1]) \in Walked(p, n, k)
<1>1. PICK b \in Blocks : b = Path[n.best][k + 1]
  <2>1. k + 1 \in 1..Len(Path[n.best])
    BY PathFacts
  <2>2. QED
    BY <2>1, PathFacts
<1>2. k \in Nat /\ Height(n.best) \in Nat /\ k <= Height(n.best) /\ Height(n.best) + 1 = Len(Path[n.best])
  BY PathFacts
<1>3. /\ w \in WalkState /\ HaveTx(w.common, data)
      /\ Wanted(w.fetch, Room(n)) /\ (~w.done => Len(w.fetch) < Room(n))
      /\ \A x \in Range(w.fetch) : \E i \in 1..k : x = Path[n.best][i]
      /\ w.waiting # None => Waited(w.waiting)
      /\ w.staller # None => w.staller # p /\ Waited(w.staller)
  BY <1>2 DEF Walked
<1>4. \A x \in Range(w.fetch) : \E i \in 1..(k + 1) : x = Path[n.best][i]
  <2>1. \A i \in 1..k : i \in 1..(k + 1)
    BY <1>2
  <2>2. QED
    BY <1>3, <2>1
<1>5. b \notin Range(w.fetch)
  <2>1. \A i \in 1..k : i \in 1..Len(Path[n.best]) /\ k + 1 \in 1..Len(Path[n.best]) /\ i # k + 1
    BY <1>2
  <2>2. \A i \in 1..k : Path[n.best][i] # Path[n.best][k + 1]
    BY <2>1, PathFacts, PathInjective, InjectiveAt
  <2>3. QED
    BY <1>1, <1>3, <2>2
<1>6. w \in Walked(p, n, k)
  BY <1>3, <1>4 DEF Walked
<1>7. CASE w.done \/ b \in failed
  <2>1. WalkBlock(p, n, end, w, b) \in {w, [w EXCEPT !.done = TRUE]}
    BY <1>7 DEF WalkBlock
  <2>2. [w EXCEPT !.done = TRUE] \in Walked(p, n, k)
    BY <1>3, <1>4 DEF Walked, WalkState
  <2>3. QED
    BY <1>1, <1>6, <2>1, <2>2
<1>8. CASE ~w.done /\ b \notin failed /\ b \in data
  <2>1. WalkBlock(p, n, end, w, b) = [w EXCEPT !.common = IF HaveTx(b, data) THEN b ELSE @]
    BY <1>8 DEF WalkBlock
  <2> HIDE DEF HaveTx
  <2>2. [w EXCEPT !.common = IF HaveTx(b, data) THEN b ELSE @] \in Walked(p, n, k)
    BY <1>3, <1>4 DEF Walked, WalkState
  <2>3. QED
    BY <1>1, <2>1, <2>2
<1>9. CASE ~w.done /\ b \notin failed /\ b \notin data /\ InFlight(b)
  <2>1. WalkBlock(p, n, end, w, b) = [w EXCEPT !.waiting = IF @ = None THEN mapBlocksInFlight[b] ELSE @]
    BY <1>9 DEF WalkBlock
  <2>2. mapBlocksInFlight[b] \in Peers /\ Waited(mapBlocksInFlight[b])
    BY <1>9 DEF InFlight, Waited
  <2>3. [w EXCEPT !.waiting = IF @ = None THEN mapBlocksInFlight[b] ELSE @] \in Walked(p, n, k)
    BY <1>3, <1>4, <2>2 DEF Walked, WalkState
  <2>4. QED
    BY <1>1, <2>1, <2>3
<1>10. CASE ~w.done /\ b \notin failed /\ b \notin data /\ ~InFlight(b) /\ Height(b) > end
  <2>1. WalkBlock(p, n, end, w, b) = [w EXCEPT !.done = TRUE, !.staller = StallerAt(p, w)]
    BY <1>10 DEF WalkBlock
  <2>2. /\ StallerAt(p, w) \in Peers \cup {None}
        /\ StallerAt(p, w) # None => StallerAt(p, w) # p /\ Waited(StallerAt(p, w))
    BY <1>3 DEF StallerAt, WalkState
  <2>3. [w EXCEPT !.done = TRUE, !.staller = StallerAt(p, w)] \in Walked(p, n, k)
    BY <1>3, <1>4, <2>2 DEF Walked, WalkState
  <2>4. QED
    BY <1>1, <2>1, <2>3
<1>11. CASE ~w.done /\ b \notin failed /\ b \notin data /\ ~InFlight(b) /\ ~(Height(b) > end)
  <2>1. PICK q : q = Append(w.fetch, b)
    OBVIOUS
  <2>2. WalkBlock(p, n, end, w, b) = [w EXCEPT !.fetch = q, !.done = (Len(w.fetch) + 1 = Room(n))]
    BY <1>11, <2>1 DEF WalkBlock
  <2>3. /\ w.fetch \in Seq(Blocks) /\ IsInjective(w.fetch) /\ Len(w.fetch) < Room(n)
        /\ \A x \in Range(w.fetch) : x \notin data /\ ~InFlight(x)
    BY <1>3, <1>11 DEF Wanted
  <2>4. /\ q \in Seq(Blocks) /\ IsInjective(q) /\ Range(q) = Range(w.fetch) \cup {b}
        /\ Len(q) = Len(w.fetch) + 1
    BY <1>5, <2>1, <2>3, AppendLists
  <2>5. Wanted(q, Room(n)) /\ (Len(w.fetch) + 1 # Room(n) => Len(q) < Room(n))
    <3>1. Len(w.fetch) \in Nat
      BY <2>3
    <3>2. Len(q) <= Room(n) /\ (Len(w.fetch) + 1 # Room(n) => Len(q) < Room(n))
      BY <2>3, <2>4, <3>1
    <3>3. \A x \in Range(q) : x \notin data /\ ~InFlight(x)
      BY <1>11, <2>3, <2>4
    <3>4. QED
      BY <2>4, <3>2, <3>3 DEF Wanted
  <2>6. \A x \in Range(q) : \E i \in 1..(k + 1) : x = Path[n.best][i]
    <3>1. k + 1 \in 1..(k + 1)
      BY <1>2
    <3>2. QED
      BY <1>1, <1>4, <2>4, <3>1
  <2>7. [w EXCEPT !.fetch = q, !.done = (Len(w.fetch) + 1 = Room(n))] \in Walked(p, n, k)
    <3> HIDE DEF Wanted, Waited, HaveTx
    <3>1. QED
      BY <1>3, <2>4, <2>5, <2>6 DEF Walked, WalkState
  <2>8. QED
    BY <1>1, <2>2, <2>7
<1>12. QED
  BY <1>7, <1>8, <1>9, <1>10, <1>11

LEMMA FindNextWalked ==
  ASSUME mapBlocksInFlight \in [Blocks -> Peers \cup {None}],
         NEW p, NEW n, n.best \in Blocks, Room(n) \in Nat \ {0},
         NEW start \in Blocks, start \in Ancestors(n.best), HaveTx(start, data)
  PROVE  \E k : FindNextBlocksToDownload(p, n, start) \in Walked(p, n, k)
<1> DEFINE lo == Height(start)
           end == lo + WINDOW
           last == Min({Height(n.best), end + 1})
           w0 == [common |-> start, fetch |-> << >>, waiting |-> None, staller |-> None, done |-> FALSE]
           Next1(k, w) == WalkBlock(p, n, end, w, Path[n.best][k + 1])
           step == [q \in (lo..last) \X WalkState |-> Next1(q[1], q[2])]
           Body(f, k) == IF k = lo THEN w0 ELSE Next1(k, f[k - 1])
           Good == [k \in lo..last |-> Walked(p, n, k)]
<1>1. lo \in Nat /\ last \in Nat /\ lo <= last /\ last <= Height(n.best) /\ Height(n.best) \in Nat
  <2>1. lo \in Nat /\ Height(n.best) \in Nat /\ lo <= Height(n.best)
    BY PathFacts, AncestorHeight
  <2> HIDE DEF lo
  <2>2. end + 1 \in Nat /\ lo <= end + 1
    BY <2>1, LimitAssumption
  <2> HIDE DEF end
  <2>3. last \in {Height(n.best), end + 1} /\ last <= Height(n.best)
    BY <2>1, <2>2, MinPair
  <2>4. QED
    BY <2>1, <2>2, <2>3
<1> HIDE DEF lo, end, last
<1>2. w0 \in Good[lo]
  <2>1. Wanted(<< >>, Room(n))
    BY NothingWanted
  <2>2. PICK e : e = << >>
    OBVIOUS
  <2>3. e \in Seq(Blocks) /\ Len(e) < Room(n) /\ Range(e) = {}
    BY <2>2 DEF Range
  <2>4. [common |-> start, fetch |-> e, waiting |-> None, staller |-> None, done |-> FALSE] \in Walked(p, n, lo)
    BY <2>1, <2>2, <2>3 DEF Walked, WalkState
  <2>5. w0 \in Walked(p, n, lo)
    BY <2>2, <2>4
  <2> HIDE DEF w0
  <2>6. QED
    BY <1>1, <2>5
<1>3. ASSUME NEW k \in (lo + 1)..last, NEW w \in Good[k - 1]
      PROVE  Next1(k, w) \in Good[k]
  <2>1. k \in 1..Height(n.best) /\ k \in lo..last /\ k - 1 \in lo..last
    BY <1>1
  <2>2. w \in Walked(p, n, k - 1)
    BY <2>1
  <2>3. Next1(k, w) \in Walked(p, n, k)
    BY <2>1, <2>2, WalkBlockKeeps
  <2> HIDE DEF Next1
  <2>4. QED
    BY <2>1, <2>3
<1>4. \A k \in lo..last : \A w \in Good[k] : w \in WalkState
  BY DEF Walked
<1> HIDE DEF Good, w0, Next1
<1>5. PICK f : /\ f = [k \in lo..last |-> f[k]]
               /\ \A k \in lo..last : f[k] = IF k = lo THEN w0 ELSE step[<<k, f[k - 1]>>]
  <2> HIDE DEF step
  <2>1. PICK f : f = Solution(lo, last, w0, step)
    OBVIOUS
  <2> HIDE DEF Solution
  <2>2. /\ f = [k \in lo..last |-> f[k]]
        /\ \A k \in lo..last : f[k] = IF k = lo THEN w0 ELSE step[<<k, f[k - 1]>>]
    BY ONLY <1>1, <2>1, Recursion
  <2>3. QED
    BY <2>2
<1>6. ASSUME NEW k \in (lo + 1)..last, f[k - 1] \in Good[k - 1]
      PROVE  f[k] = Next1(k, f[k - 1])
  <2>1. k \in lo..last /\ k # lo /\ k - 1 \in lo..last
    BY <1>1
  <2>2. f[k] = step[<<k, f[k - 1]>>]
    BY <1>5, <2>1
  <2>3. f[k - 1] \in WalkState
    BY <1>4, <1>6, <2>1
  <2>4. QED
    BY <2>1, <2>2, <2>3
<1> HIDE DEF step
<1>7. \A k \in lo..last : f[k] \in Good[k]
  <2>1. \A k \in (lo + 1)..last : f[k - 1] \in Good[k - 1] => f[k] \in Good[k]
    BY <1>3, <1>6
  <2>2. lo \in lo..last
    BY <1>1
  <2>3. f[lo] \in Good[lo]
    BY <1>2, <1>5, <2>2
  <2>4. QED
    BY <1>1, <2>1, <2>3, Induction
<1>8. f = [k \in lo..last |-> Body(f, k)]
  <2>1. ASSUME NEW k \in lo..last
        PROVE  f[k] = Body(f, k)
    <3>1. CASE k = lo
      BY <1>5, <3>1
    <3>2. CASE k # lo
      <4>1. k \in (lo + 1)..last /\ k - 1 \in lo..last
        BY <1>1, <3>2
      <4>2. QED
        BY <1>6, <1>7, <3>2, <4>1
    <3>3. QED
      BY <3>1, <3>2
  <2> HIDE DEF Body
  <2>2. QED
    BY <1>5, <2>1
<1> DEFINE walk == CHOOSE h : h = [k \in lo..last |-> Body(h, k)]
<1>9. walk = [k \in lo..last |-> Body(walk, k)]
  <2> HIDE DEF Body
  <2>1. QED
    BY <1>8
<1>10. FindNextBlocksToDownload(p, n, start) = walk[last]
  BY DEF FindNextBlocksToDownload, walk, Next1, w0, lo, end, last
<1> HIDE DEF walk
<1>11. walk[lo] \in Good[lo]
  <2>1. lo \in lo..last
    BY <1>1
  <2>2. QED
    BY <1>2, <1>9, <2>1
<1>12. \A k \in (lo + 1)..last : walk[k - 1] \in Good[k - 1] => walk[k] \in Good[k]
  <2> SUFFICES ASSUME NEW k \in (lo + 1)..last, walk[k - 1] \in Good[k - 1]
               PROVE  walk[k] \in Good[k]
    OBVIOUS
  <2>1. k \in lo..last /\ k # lo
    BY <1>1
  <2>2. walk[k] = Next1(k, walk[k - 1])
    BY <1>9, <2>1
  <2>3. QED
    BY <1>3, <2>2
<1>13. last \in lo..last /\ walk[last] \in Good[last]
  <2>1. last \in lo..last
    BY <1>1
  <2>2. \A k \in lo..last : walk[k] \in Good[k]
    BY <1>1, <1>11, <1>12, Induction
  <2>3. QED
    BY <2>1, <2>2
<1>14. walk[last] \in Walked(p, n, last)
  BY <1>13 DEF Good
<1>15. QED
  BY <1>10, <1>14

-----------------------------------------------------------------------------
(* The inductive invariant: beyond the properties, the best chain has all  *)
(* its data, so that the first guess of pindexLastCommonBlock does, and    *)
(* nQueuedValidatedHeaders covers the blocks in flight, so that it does    *)
(* not fall below zero (it may stay above: see FinalizeNode).              *)

TreeInv ==
  /\ index \subseteq Blocks /\ data \subseteq index /\ failed \subseteq index /\ tip \in index
  /\ HaveTx(tip, data)

PeerGood(n) ==
  /\ n \in NodeState /\ IsInjective(n.flight) /\ n.nBlocksInFlight = Len(n.flight)
  /\ n.nBlocksInFlight <= MAX_IN_TRANSIT
  /\ n.stalling => n.flight # << >>

CommonFull(n, d) == n.common # None => HaveTx(n.common, d)

PeersInv ==
  /\ node \in [Peers -> NodeState \cup {None}]
  /\ \A q \in Peers : Connected(q) => PeerGood(node[q]) /\ CommonFull(node[q], data)

FlightInv ==
  /\ mapBlocksInFlight \in [Blocks -> Peers \cup {None}]
  /\ \A b \in Blocks, q \in Peers :
        mapBlocksInFlight[b] = q <=> Connected(q) /\ b \in Range(node[q].flight)
  /\ StoredNotInFlight

QueueInv ==
  /\ nQueuedValidatedHeaders \in Nat
  /\ Cardinality({b \in Blocks : InFlight(b)}) <= nQueuedValidatedHeaders

IInv == TreeInv /\ PeersInv /\ FlightInv /\ QueueInv /\ CountersExact

LEMMA SyncCounted ==
  ASSUME CountersExact, NEW p \in Peers, Connected(p), NEW s \in BOOLEAN,
         s => ~node[p].fSyncStarted,
         \A q \in Peers : Connected(q)' <=> Connected(q),
         \A q \in Peers \ {p} : Connected(q) => node'[q].fSyncStarted = node[q].fSyncStarted,
         node'[p].fSyncStarted = (node[p].fSyncStarted \/ s),
         nSyncStarted' = nSyncStarted + One(s), nPreferredDownload' = nPreferredDownload
  PROVE  CountersExact'
<1> DEFINE S == {q \in Peers : Connected(q) /\ node[q].fSyncStarted}
           T == {q \in Peers : Connected(q)' /\ node'[q].fSyncStarted}
<1>1. IsFiniteSet(S) /\ IsFiniteSet(Peers) /\ Preferred \subseteq Peers
  BY LimitAssumption, FS_Subset
<1>2. {q \in Preferred : Connected(q)'} = {q \in Preferred : Connected(q)}
  BY <1>1
<1>3. CASE s
  <2>1. T = S \cup {p} /\ p \notin S
    BY <1>3
  <2> HIDE DEF S, T
  <2>2. Cardinality(T) = Cardinality(S) + 1
    BY <1>1, <2>1, FS_AddElement
  <2>3. nSyncStarted' = nSyncStarted + 1
    BY <1>3 DEF One
  <2>4. QED
    BY <1>2, <2>2, <2>3 DEF CountersExact, S, T
<1>4. CASE ~s
  <2>1. T = S
    BY <1>4
  <2>2. Cardinality(S) \in Nat
    BY <1>1, FS_CardinalityType
  <2>3. nSyncStarted' = Cardinality(S) + 0
    BY <1>4 DEF One, CountersExact
  <2> HIDE DEF S, T
  <2>4. nSyncStarted' = Cardinality(T)
    BY <2>1, <2>2, <2>3
  <2>5. QED
    BY <1>2, <2>4 DEF CountersExact, T
<1>5. QED
  BY <1>3, <1>4

(* The peers' states change, but not what they are asked for. *)
LEMMA SameFlights ==
  ASSUME IInv, node' \in [Peers -> NodeState \cup {None}],
         \A q \in Peers : /\ Connected(q)' <=> Connected(q)
                          /\ Connected(q) => /\ PeerGood(node'[q]) /\ CommonFull(node'[q], data)
                                             /\ node'[q].flight = node[q].flight,
         mapBlocksInFlight' = mapBlocksInFlight, data' = data,
         nQueuedValidatedHeaders' = nQueuedValidatedHeaders
  PROVE  PeersInv' /\ FlightInv' /\ QueueInv'
<1>1. PeersInv'
  BY DEF PeersInv
<1>2. FlightInv'
  BY DEF IInv, FlightInv, StoredNotInFlight, InFlight
<1>3. QueueInv'
  BY DEF IInv, QueueInv, InFlight
<1>4. QED
  BY <1>1, <1>2, <1>3

(* Peer p, now in state m, is asked for more blocks. *)
LEMMA MarkInFlight ==
  ASSUME IInv, NEW p \in Peers, Connected(p), NEW m, PeerGood(m), CommonFull(m, data),
         m.flight = node[p].flight, NEW wanted, Wanted(wanted, Room(m)),
         MarkBlocksAsInFlight(p, m, wanted), data' = data
  PROVE  /\ PeersInv' /\ FlightInv' /\ QueueInv'
         /\ \A q \in Peers : Connected(q)' <=> Connected(q)
         /\ \A q \in Peers \ {p} : node'[q] = node[q]
         /\ node'[p].fSyncStarted = m.fSyncStarted
<1>1. PICK fl : fl = m.flight \o wanted
  OBVIOUS
<1> DEFINE r == [m EXCEPT !.flight = fl, !.nBlocksInFlight = @ + Len(wanted)]
<1>2. /\ node' = [node EXCEPT ![p] = r]
      /\ mapBlocksInFlight' = [b \in Blocks |-> IF b \in Range(wanted) THEN p ELSE mapBlocksInFlight[b]]
      /\ nQueuedValidatedHeaders' = nQueuedValidatedHeaders + Len(wanted)
  BY <1>1 DEF MarkBlocksAsInFlight
<1>3. /\ m \in NodeState /\ m.flight \in Seq(Blocks) /\ IsInjective(m.flight)
      /\ m.nBlocksInFlight = Len(m.flight) /\ m.nBlocksInFlight <= MAX_IN_TRANSIT
      /\ m.nBlocksInFlight \in Nat
      /\ m.stalling => m.flight # << >>
  BY DEF PeerGood, NodeState
<1>4. /\ wanted \in Seq(Blocks) /\ IsInjective(wanted) /\ Len(wanted) <= Room(m) /\ Len(wanted) \in Nat
      /\ \A b \in Range(wanted) : b \in Blocks /\ b \notin data /\ mapBlocksInFlight[b] = None
  BY RangeOf DEF Wanted, InFlight
<1>5. /\ node \in [Peers -> NodeState \cup {None}]
      /\ mapBlocksInFlight \in [Blocks -> Peers \cup {None}]
      /\ \A b \in Blocks, q \in Peers :
            mapBlocksInFlight[b] = q <=> node[q] # None /\ b \in Range(node[q].flight)
      /\ \A b \in data : mapBlocksInFlight[b] = None
      /\ None \notin Peers /\ MAX_IN_TRANSIT \in Nat /\ p \in Peers
  BY LimitAssumption, TreeAssumption DEF IInv, PeersInv, FlightInv, Connected, StoredNotInFlight, InFlight
<1>6. \A b \in Range(m.flight) : b \in Blocks /\ mapBlocksInFlight[b] = p
  <2>1. \A b \in Range(m.flight) : b \in Blocks
    BY <1>3, RangeOf
  <2>2. QED
    BY <1>5, <2>1 DEF Connected
<1>7. /\ fl \in Seq(Blocks) /\ IsInjective(fl) /\ Len(fl) = Len(m.flight) + Len(wanted)
      /\ Range(fl) = Range(m.flight) \cup Range(wanted)
  <2>1. Range(m.flight) \cap Range(wanted) = {}
    BY <1>4, <1>5, <1>6
  <2> HIDE DEF IsInjective, Range
  <2>2. QED
    BY <1>1, <1>3, <1>4, <2>1, ConcatLists
<1>8. r \in NodeState /\ r.flight = fl /\ r.nBlocksInFlight = Len(fl) /\ r.common = m.common
      /\ r.stalling = m.stalling /\ r.fSyncStarted = m.fSyncStarted
  <2>1. PICK count \in Nat : count = m.nBlocksInFlight + Len(wanted) /\ count = Len(fl)
    BY <1>3, <1>4, <1>7
  <2>2. r = [m EXCEPT !.flight = fl, !.nBlocksInFlight = count]
    BY <2>1
  <2>3. fl \in Seq(Blocks) /\ m \in NodeState
    BY <1>3, <1>7
  <2> HIDE DEF r
  <2>4. r \in NodeState
    BY <2>2, <2>3 DEF NodeState
  <2>5. r.flight = fl /\ r.nBlocksInFlight = count /\ r.common = m.common
    BY <2>2, <2>3 DEF NodeState
  <2>6. r.stalling = m.stalling /\ r.fSyncStarted = m.fSyncStarted
    BY <2>2, <2>3 DEF NodeState
  <2>7. QED
    BY <2>1, <2>4, <2>5, <2>6
<1>9. PeerGood(r) /\ CommonFull(r, data)
  <2>1. Len(fl) <= MAX_IN_TRANSIT
    <3>1. Len(m.flight) \in Nat /\ Len(wanted) <= MAX_IN_TRANSIT - Len(m.flight)
      BY <1>3, <1>4 DEF Room
    <3>2. QED
      BY <1>4, <1>5, <1>7, <3>1
  <2>2. r.stalling => fl # << >>
    <3> SUFFICES ASSUME r.stalling PROVE fl # << >>
      OBVIOUS
    <3>1. m.flight # << >> /\ Len(m.flight) \in Nat
      BY <1>3, <1>8
    <3>2. Len(m.flight) # 0
      BY <1>3, <3>1, EmptySeq
    <3>3. Len(fl) # 0
      BY <1>4, <1>7, <3>1, <3>2
    <3>4. QED
      BY <3>3
  <2> HIDE DEF r, IsInjective
  <2>3. PeerGood(r)
    BY <1>7, <1>8, <2>1, <2>2 DEF PeerGood
  <2>4. CommonFull(r, data)
    BY <1>8 DEF CommonFull
  <2>5. QED
    BY <2>3, <2>4
<1> HIDE DEF r
<1>10. r # None
  BY <1>8, NoneAssumption
<1>11. node'[p] = r /\ \A q \in Peers \ {p} : node'[q] = node[q]
  BY <1>2, <1>5
<1>12. \A q \in Peers : Connected(q)' <=> Connected(q)
  BY <1>10, <1>11 DEF Connected
<1>13. PeersInv'
  <2>1. node' \in [Peers -> NodeState \cup {None}]
    BY <1>2, <1>5, <1>8
  <2>2. ASSUME NEW q \in Peers, Connected(q)
        PROVE  PeerGood(node'[q]) /\ CommonFull(node'[q], data)
    <3>1. CASE q = p
      BY <1>9, <1>11, <3>1
    <3>2. CASE q # p
      BY <1>11, <2>2, <3>2 DEF IInv, PeersInv
    <3>3. QED
      BY <3>1, <3>2
  <2>3. QED
    BY <1>12, <2>1, <2>2 DEF PeersInv
<1>14. FlightInv'
  <2>1. mapBlocksInFlight' \in [Blocks -> Peers \cup {None}]
    BY <1>2, <1>5
  <2>2. ASSUME NEW b \in Blocks, NEW q \in Peers
        PROVE  mapBlocksInFlight'[b] = q <=> node'[q] # None /\ b \in Range(node'[q].flight)
    <3>1. mapBlocksInFlight'[b] = IF b \in Range(wanted) THEN p ELSE mapBlocksInFlight[b]
      BY <1>2
    <3>2. CASE q = p
      <4>1. node'[q] = r /\ (b \in Range(node'[q].flight) <=> b \in Range(m.flight) \/ b \in Range(wanted))
        BY <1>7, <1>8, <1>11, <3>2
      <4>2. mapBlocksInFlight[b] = p <=> b \in Range(m.flight)
        BY <1>5 DEF Connected
      <4>3. QED
        BY <1>10, <3>1, <3>2, <4>1, <4>2
    <3>3. CASE q # p
      <4>1. node'[q] = node[q]
        BY <1>11, <3>3
      <4>2. b \in Range(wanted) => mapBlocksInFlight[b] # q
        BY <1>4, <1>5
      <4>3. QED
        BY <1>5, <3>1, <3>3, <4>1, <4>2
    <3>4. QED
      BY <3>2, <3>3
  <2>3. \A b \in data : mapBlocksInFlight'[b] = None
    <3>1. \A b \in data : b \in Blocks /\ b \notin Range(wanted)
      BY <1>4 DEF IInv, TreeInv
    <3>2. QED
      BY <1>2, <1>5, <3>1
  <2>4. QED
    BY <2>1, <2>2, <2>3 DEF FlightInv, StoredNotInFlight, InFlight, Connected
<1>15. QueueInv'
  <2> DEFINE F == {b \in Blocks : InFlight(b)}
             G == {b \in Blocks : InFlight(b)'}
  <2>1. G \subseteq F \cup Range(wanted)
    BY <1>2 DEF InFlight
  <2>2. IsFiniteSet(F)
    BY TreeAssumption, FS_Subset
  <2> HIDE DEF F, G
  <2>3. IsFiniteSet(Range(wanted)) /\ Cardinality(Range(wanted)) \in Nat /\ Cardinality(Range(wanted)) <= Len(wanted)
    BY <1>4, RangeCardinality
  <2>4. /\ IsFiniteSet(F \cup Range(wanted)) /\ IsFiniteSet(F \cap Range(wanted))
        /\ Cardinality(F \cup Range(wanted)) = Cardinality(F) + Cardinality(Range(wanted)) - Cardinality(F \cap Range(wanted))
    BY <2>2, <2>3, FS_Union, FS_Subset
  <2>5. Cardinality(G) <= Cardinality(F \cup Range(wanted)) /\ IsFiniteSet(G)
    BY <2>1, <2>4, FS_Subset
  <2>6. /\ Cardinality(F) \in Nat /\ Cardinality(G) \in Nat /\ Cardinality(F \cap Range(wanted)) \in Nat
        /\ Cardinality(F \cup Range(wanted)) \in Nat
    BY <2>2, <2>4, <2>5, FS_CardinalityType
  <2>7. nQueuedValidatedHeaders \in Nat /\ Cardinality(F) <= nQueuedValidatedHeaders
    BY DEF IInv, QueueInv, F
  <2>8. nQueuedValidatedHeaders' \in Nat /\ Cardinality(G) <= nQueuedValidatedHeaders'
    BY <1>2, <1>4, <2>3, <2>4, <2>5, <2>6, <2>7
  <2>9. QED
    BY <2>8 DEF QueueInv, G
<1>16. QED
  BY <1>8, <1>11, <1>12, <1>13, <1>14, <1>15

-----------------------------------------------------------------------------
(* Connections *)

LEMMA InitInv == Init => IInv
<1> SUFFICES ASSUME Init PROVE IInv
  OBVIOUS
<1> USE DEF Init
<1>1. TreeInv
  BY GenesisPath DEF TreeInv, HaveTx
<1>2. PeersInv
  BY DEF PeersInv, Connected
<1>3. FlightInv
  BY GenesisPath, TreeAssumption DEF FlightInv, StoredNotInFlight, InFlight, Connected
<1>4. QueueInv
  <2>1. {b \in Blocks : InFlight(b)} = {}
    BY DEF InFlight
  <2>2. QED
    BY <2>1, FS_EmptySet DEF QueueInv
<1>5. CountersExact
  <2>1. {p \in Preferred : Connected(p)} = {} /\ {p \in Peers : Connected(p) /\ node[p].fSyncStarted} = {}
    BY LimitAssumption DEF Connected
  <2>2. QED
    BY <2>1, FS_EmptySet DEF CountersExact
<1>6. QED
  BY <1>1, <1>2, <1>3, <1>4, <1>5 DEF IInv

LEMMA ConnectKeeps ==
  ASSUME IInv, NEW p \in Peers, Connect(p)
  PROVE  IInv'
<1>1. /\ node[p] = None /\ node' = [node EXCEPT ![p] = NewNode(p)]
      /\ nPreferredDownload' = nPreferredDownload + One(p \in Preferred)
      /\ index' = index /\ data' = data /\ failed' = failed /\ tip' = tip
      /\ mapBlocksInFlight' = mapBlocksInFlight /\ nSyncStarted' = nSyncStarted
      /\ nQueuedValidatedHeaders' = nQueuedValidatedHeaders
  BY DEF Connect, Connected, blockVars
<1>2. PICK n : n = NewNode(p)
  OBVIOUS
<1>3. /\ n \in NodeState /\ n.flight = << >> /\ n.nBlocksInFlight = 0 /\ n.common = None
      /\ n.stalling = FALSE /\ n.fSyncStarted = FALSE
  BY <1>2 DEF NewNode, NodeState
<1>4. IsInjective(n.flight) /\ Range(n.flight) = {} /\ Len(n.flight) = 0
  BY <1>3 DEF IsInjective, Range
<1>5. PeerGood(n) /\ CommonFull(n, data)
  BY <1>3, <1>4, LimitAssumption DEF PeerGood, CommonFull
<1>6. /\ node \in [Peers -> NodeState \cup {None}]
      /\ node'[p] = n /\ n # None /\ \A q \in Peers \ {p} : node'[q] = node[q]
  BY <1>1, <1>2, <1>3, NoneAssumption DEF IInv, PeersInv
<1>7. PeersInv'
  <2>1. node' \in [Peers -> NodeState \cup {None}]
    BY <1>1, <1>2, <1>3, <1>6
  <2>2. \A q \in Peers : node'[q] # None => PeerGood(node'[q]) /\ CommonFull(node'[q], data)
    BY <1>5, <1>6 DEF IInv, PeersInv, Connected
  <2>3. QED
    BY <1>1, <2>1, <2>2 DEF PeersInv, Connected
<1>8. FlightInv'
  <2>1. ASSUME NEW b \in Blocks, NEW q \in Peers
        PROVE  mapBlocksInFlight[b] = q <=> node'[q] # None /\ b \in Range(node'[q].flight)
    <3>1. mapBlocksInFlight[b] = q <=> node[q] # None /\ b \in Range(node[q].flight)
      BY DEF IInv, FlightInv, Connected
    <3>2. QED
      BY <1>1, <1>4, <1>6, <3>1
  <2>2. QED
    BY <1>1, <2>1 DEF IInv, FlightInv, StoredNotInFlight, InFlight, Connected
<1>9. QueueInv'
  BY <1>1 DEF IInv, QueueInv, InFlight
<1>10. TreeInv'
  BY <1>1 DEF IInv, TreeInv, HaveTx
<1>11. CountersExact'
  <2> DEFINE S == {q \in Preferred : Connected(q)}
             T == {q \in Preferred : Connected(q)'}
  <2>1. {q \in Peers : Connected(q)' /\ node'[q].fSyncStarted} = {q \in Peers : Connected(q) /\ node[q].fSyncStarted}
    BY <1>1, <1>3, <1>6 DEF Connected
  <2>2. IsFiniteSet(S) /\ Preferred \subseteq Peers
    BY LimitAssumption, FS_Subset
  <2>3. T = IF p \in Preferred THEN S \cup {p} ELSE S
    BY <1>6, <2>2 DEF Connected
  <2>4. p \notin S
    BY <1>1 DEF Connected
  <2>5. nPreferredDownload = Cardinality(S)
    BY DEF IInv, CountersExact
  <2> HIDE DEF S, T
  <2>6. Cardinality(T) = Cardinality(S) + One(p \in Preferred)
    <3>1. Cardinality(S) \in Nat
      BY <2>2, FS_CardinalityType
    <3>2. CASE p \in Preferred
      BY <2>2, <2>3, <2>4, <3>2, FS_AddElement DEF One
    <3>3. CASE p \notin Preferred
      BY <2>3, <3>1, <3>3 DEF One
    <3>4. QED
      BY <3>2, <3>3
  <2>7. QED
    BY <1>1, <2>1, <2>5, <2>6 DEF IInv, CountersExact, T
<1>12. QED
  BY <1>7, <1>8, <1>9, <1>10, <1>11 DEF IInv

LEMMA RemoveOne ==
  ASSUME NEW S, IsFiniteSet(S), NEW x, NEW s, x \in S <=> s
  PROVE  Cardinality(S \ {x}) = Cardinality(S) - One(s)
<1>1. Cardinality(S) \in Nat /\ Cardinality(S \ {x}) = IF x \in S THEN Cardinality(S) - 1 ELSE Cardinality(S)
  BY FS_CardinalityType, FS_RemoveElement
<1>2. CASE s
  <2>1. One(s) = 1
    BY <1>2 DEF One
  <2>2. QED
    BY <1>1, <1>2, <2>1
<1>3. CASE ~s
  <2>1. One(s) = 0
    BY <1>3 DEF One
  <2>2. QED
    BY <1>1, <1>3, <2>1
<1>4. QED
  BY <1>2, <1>3

LEMMA FinalizeNodeKeeps ==
  ASSUME IInv, NEW p \in Peers, FinalizeNode(p)
  PROVE  IInv'
<1>1. /\ node[p] # None /\ node' = [node EXCEPT ![p] = None]
      /\ nPreferredDownload' = nPreferredDownload - One(p \in Preferred)
      /\ nSyncStarted' = nSyncStarted - One(node[p].fSyncStarted)
      /\ index' = index /\ data' = data /\ failed' = failed /\ tip' = tip
      /\ mapBlocksInFlight' = [b \in Blocks |-> IF b \in Range(node[p].flight) THEN None ELSE mapBlocksInFlight[b]]
      /\ nQueuedValidatedHeaders' = nQueuedValidatedHeaders
  BY DEF FinalizeNode, Connected, blockVars, FinalizeFlight
<1>2. /\ node \in [Peers -> NodeState \cup {None}]
      /\ node'[p] = None /\ \A q \in Peers \ {p} : node'[q] = node[q]
      /\ mapBlocksInFlight \in [Blocks -> Peers \cup {None}]
      /\ \A b \in Blocks, q \in Peers :
            mapBlocksInFlight[b] = q <=> node[q] # None /\ b \in Range(node[q].flight)
      /\ \A b \in data : b \in Blocks /\ mapBlocksInFlight[b] = None
      /\ None \notin Peers
  <2>1. node \in [Peers -> NodeState \cup {None}]
    BY DEF IInv, PeersInv
  <2>2. node'[p] = None /\ \A q \in Peers \ {p} : node'[q] = node[q]
    BY <1>1, <2>1
  <2>3. /\ mapBlocksInFlight \in [Blocks -> Peers \cup {None}]
        /\ \A b \in Blocks, q \in Peers :
              mapBlocksInFlight[b] = q <=> node[q] # None /\ b \in Range(node[q].flight)
    BY DEF IInv, FlightInv, Connected
  <2>4. \A b \in data : b \in Blocks /\ mapBlocksInFlight[b] = None
    BY DEF IInv, TreeInv, FlightInv, StoredNotInFlight, InFlight
  <2>5. QED
    BY <2>1, <2>2, <2>3, <2>4, TreeAssumption
<1>3. PeersInv'
  <2>1. node' \in [Peers -> NodeState \cup {None}]
    BY <1>1, <1>2
  <2>2. \A q \in Peers : node'[q] # None => PeerGood(node'[q]) /\ CommonFull(node'[q], data)
    BY <1>2 DEF IInv, PeersInv, Connected
  <2>3. QED
    BY <1>1, <2>1, <2>2 DEF PeersInv, Connected
<1>4. \A b \in Blocks : mapBlocksInFlight'[b] = IF mapBlocksInFlight[b] = p THEN None ELSE mapBlocksInFlight[b]
  BY <1>1, <1>2
<1>5. FlightInv'
  <2>1. mapBlocksInFlight' \in [Blocks -> Peers \cup {None}]
    BY <1>1, <1>2
  <2>2. ASSUME NEW b \in Blocks, NEW q \in Peers
        PROVE  mapBlocksInFlight'[b] = q <=> node'[q] # None /\ b \in Range(node'[q].flight)
    <3>1. mapBlocksInFlight[b] = q <=> node[q] # None /\ b \in Range(node[q].flight)
      BY <1>2
    <3>2. QED
      BY <1>2, <1>4, <3>1
  <2>3. \A b \in data : mapBlocksInFlight'[b] = None
    BY <1>2, <1>4
  <2>4. QED
    BY <1>1, <2>1, <2>2, <2>3 DEF FlightInv, StoredNotInFlight, InFlight, Connected
<1>6. QueueInv'
  <2> DEFINE F == {b \in Blocks : InFlight(b)}
             G == {b \in Blocks : InFlight(b)'}
  <2>1. G \subseteq F
    BY <1>4 DEF InFlight
  <2>2. IsFiniteSet(F)
    BY TreeAssumption, FS_Subset
  <2>3. Cardinality(F) <= nQueuedValidatedHeaders /\ nQueuedValidatedHeaders \in Nat
    BY DEF IInv, QueueInv
  <2> HIDE DEF F, G
  <2>4. Cardinality(G) <= Cardinality(F) /\ Cardinality(F) \in Nat /\ Cardinality(G) \in Nat
    BY <2>1, <2>2, FS_Subset, FS_CardinalityType
  <2>5. QED
    BY <1>1, <2>3, <2>4 DEF QueueInv, G
<1>7. TreeInv'
  BY <1>1 DEF IInv, TreeInv, HaveTx
<1>8. CountersExact'
  <2> DEFINE S == {q \in Preferred : Connected(q)}
             T == {q \in Preferred : Connected(q)'}
             U == {q \in Peers : Connected(q) /\ node[q].fSyncStarted}
             V == {q \in Peers : Connected(q)' /\ node'[q].fSyncStarted}
  <2>1. IsFiniteSet(S) /\ IsFiniteSet(U) /\ Preferred \subseteq Peers
    BY LimitAssumption, FS_Subset
  <2>2. T = S \ {p} /\ (p \in S <=> p \in Preferred)
    BY <1>1, <1>2, <2>1 DEF Connected
  <2>3. V = U \ {p} /\ (p \in U <=> node[p].fSyncStarted)
    <3>1. p \in U <=> node[p].fSyncStarted
      BY <1>1, Zenon DEF Connected
    <3>2. V = U \ {p}
      BY <1>1, <1>2 DEF Connected
    <3>3. QED
      BY <3>1, <3>2
  <2>4. nPreferredDownload = Cardinality(S) /\ nSyncStarted = Cardinality(U)
    BY DEF IInv, CountersExact
  <2> HIDE DEF S, T, U, V
  <2>5. Cardinality(S) \in Nat /\ Cardinality(U) \in Nat
    BY <2>1, FS_CardinalityType
  <2>6. Cardinality(T) = Cardinality(S) - One(p \in Preferred)
    BY <2>1, <2>2, RemoveOne
  <2>7. Cardinality(V) = Cardinality(U) - One(node[p].fSyncStarted)
    BY <2>1, <2>3, RemoveOne
  <2>8. QED
    BY <1>1, <2>4, <2>6, <2>7 DEF CountersExact, T, V
<1>9. QED
  BY <1>3, <1>5, <1>6, <1>7, <1>8 DEF IInv

-----------------------------------------------------------------------------
(* Messages *)

(* m differs from n only in what the peer is known to have. *)
SameButBlocks(m, n) ==
  /\ m.flight = n.flight /\ m.nBlocksInFlight = n.nBlocksInFlight /\ m.common = n.common
  /\ m.stalling = n.stalling /\ m.fSyncStarted = n.fSyncStarted

LEMMA SameGood ==
  ASSUME NEW n, PeerGood(n), CommonFull(n, data), NEW m \in NodeState, SameButBlocks(m, n)
  PROVE  PeerGood(m) /\ CommonFull(m, data)
BY DEF PeerGood, CommonFull, SameButBlocks

LEMMA AvailabilityProcessed ==
  ASSUME NEW n \in NodeState, NEW idx \in SUBSET Blocks
  PROVE  ProcessBlockAvailability(n, idx) \in NodeState /\ SameButBlocks(ProcessBlockAvailability(n, idx), n)
<1>1. PICK m : m = ProcessBlockAvailability(n, idx)
  OBVIOUS
<1>2. CASE n.unknown \in idx
  <2>1. PICK c \in Blocks \cup {None} : c = Better(n.best, n.unknown)
    BY <1>2 DEF Better, NodeState
  <2>2. m = [n EXCEPT !.best = c, !.unknown = None]
    BY <1>1, <1>2, <2>1 DEF ProcessBlockAvailability
  <2>3. m \in NodeState
    BY <2>2 DEF NodeState
  <2>4. SameButBlocks(m, n)
    BY <2>2 DEF NodeState, SameButBlocks
  <2>5. QED
    BY <1>1, <2>3, <2>4
<1>3. CASE n.unknown \notin idx
  BY <1>3 DEF ProcessBlockAvailability, SameButBlocks
<1>4. QED
  BY <1>2, <1>3

LEMMA AvailabilityUpdated ==
  ASSUME NEW n \in NodeState, NEW idx \in SUBSET Blocks, NEW b \in Blocks
  PROVE  UpdateBlockAvailability(n, b, idx) \in NodeState /\ SameButBlocks(UpdateBlockAvailability(n, b, idx), n)
<1>1. PICK m : m = ProcessBlockAvailability(n, idx)
  OBVIOUS
<1>2. m \in NodeState /\ SameButBlocks(m, n)
  BY <1>1, AvailabilityProcessed
<1>3. PICK c \in Blocks \cup {None} : c = Better(m.best, b)
  BY <1>2 DEF Better, NodeState
<1>4. \/ UpdateBlockAvailability(n, b, idx) = [m EXCEPT !.best = c]
      \/ UpdateBlockAvailability(n, b, idx) = [m EXCEPT !.unknown = b]
  BY <1>1, <1>3 DEF UpdateBlockAvailability
<1>5. /\ [m EXCEPT !.best = c] \in NodeState /\ [m EXCEPT !.unknown = b] \in NodeState
  BY <1>2 DEF NodeState
<1>6. SameButBlocks([m EXCEPT !.best = c], n) /\ SameButBlocks([m EXCEPT !.unknown = b], n)
  BY <1>2 DEF NodeState, SameButBlocks
<1>7. QED
  BY <1>4, <1>5, <1>6

(* Peer p moves to state m, with the same blocks in flight. *)
LEMMA OnePeerMoves ==
  ASSUME IInv, NEW p \in Peers, Connected(p), NEW m, PeerGood(m), CommonFull(m, data),
         m.flight = node[p].flight, node' = [node EXCEPT ![p] = m],
         mapBlocksInFlight' = mapBlocksInFlight, data' = data,
         nQueuedValidatedHeaders' = nQueuedValidatedHeaders
  PROVE  /\ PeersInv' /\ FlightInv' /\ QueueInv'
         /\ \A q \in Peers : Connected(q)' <=> Connected(q)
         /\ \A q \in Peers \ {p} : node'[q] = node[q]
         /\ node'[p] = m
<1>1. node \in [Peers -> NodeState \cup {None}]
  BY DEF IInv, PeersInv
<1>2. m \in NodeState /\ m # None
  BY NoneAssumption DEF PeerGood
<1>3. node' \in [Peers -> NodeState \cup {None}]
  BY <1>1, <1>2
<1>4. node'[p] = m /\ \A q \in Peers \ {p} : node'[q] = node[q]
  BY <1>1
<1>5. \A q \in Peers : Connected(q)' <=> Connected(q)
  BY <1>2, <1>4 DEF Connected
<1>6. ASSUME NEW q \in Peers, Connected(q)
      PROVE  PeerGood(node'[q]) /\ CommonFull(node'[q], data) /\ node'[q].flight = node[q].flight
  <2>1. CASE q = p
    BY <1>4, <2>1
  <2>2. CASE q # p
    BY <1>4, <1>6, <2>2 DEF IInv, PeersInv
  <2>3. QED
    BY <2>1, <2>2
<1>7. PeersInv' /\ FlightInv' /\ QueueInv'
  BY <1>3, <1>5, <1>6, SameFlights
<1>8. QED
  BY <1>4, <1>5, <1>7

LEMMA SyncUnchanged ==
  ASSUME IInv, NEW p \in Peers, Connected(p), node'[p].fSyncStarted = node[p].fSyncStarted,
         \A q \in Peers : Connected(q)' <=> Connected(q),
         \A q \in Peers \ {p} : node'[q] = node[q],
         nSyncStarted' = nSyncStarted, nPreferredDownload' = nPreferredDownload
  PROVE  CountersExact'
<1>1. node'[p].fSyncStarted = (node[p].fSyncStarted \/ FALSE)
  BY DEF IInv, PeersInv, PeerGood, NodeState
<1>2. nSyncStarted' = nSyncStarted + One(FALSE)
  BY LimitAssumption, FS_Subset, FS_CardinalityType DEF One, IInv, CountersExact
<1>3. QED
  BY <1>1, <1>2, SyncCounted DEF IInv

LEMMA DropKeeps ==
  ASSUME IInv, NEW p \in Peers, Drop(p)
  PROVE  IInv'
<1>1. PICK m : m = [node[p] EXCEPT !.fDisconnect = TRUE]
  OBVIOUS
<1>2. Connected(p) /\ PeerGood(node[p]) /\ CommonFull(node[p], data)
  BY DEF Drop, Active, IInv, PeersInv
<1>3. m \in NodeState /\ SameButBlocks(m, node[p])
  BY <1>1, <1>2 DEF PeerGood, NodeState, SameButBlocks
<1>4. PeerGood(m) /\ CommonFull(m, data)
  BY <1>2, <1>3, SameGood
<1>5. node' = [node EXCEPT ![p] = m] /\ mapBlocksInFlight' = mapBlocksInFlight
      /\ nQueuedValidatedHeaders' = nQueuedValidatedHeaders /\ nSyncStarted' = nSyncStarted
      /\ nPreferredDownload' = nPreferredDownload
      /\ index' = index /\ data' = data /\ failed' = failed /\ tip' = tip
  BY <1>1 DEF Drop, blockVars
<1>6. /\ PeersInv' /\ FlightInv' /\ QueueInv'
      /\ \A q \in Peers : Connected(q)' <=> Connected(q)
      /\ \A q \in Peers \ {p} : node'[q] = node[q]
      /\ node'[p] = m
  BY <1>2, <1>3, <1>4, <1>5, OnePeerMoves DEF SameButBlocks
<1>7. CountersExact'
  BY <1>2, <1>3, <1>5, <1>6, SyncUnchanged DEF SameButBlocks
<1>8. TreeInv'
  BY <1>5 DEF IInv, TreeInv, HaveTx
<1>9. QED
  BY <1>6, <1>7, <1>8 DEF IInv

LEMMA InvKeeps ==
  ASSUME IInv, NEW p \in Peers, NEW b \in Announced, Inv(p, b)
  PROVE  IInv'
<1>1. PICK m : m = UpdateBlockAvailability(node[p], b, index)
  OBVIOUS
<1>2. Connected(p) /\ PeerGood(node[p]) /\ CommonFull(node[p], data)
  BY DEF Inv, Active, IInv, PeersInv
<1>3. m \in NodeState /\ SameButBlocks(m, node[p])
  <2>1. index \in SUBSET Blocks /\ b \in Blocks /\ node[p] \in NodeState
    BY <1>2, TreeAssumption DEF IInv, TreeInv, PeerGood
  <2>2. QED
    BY <1>1, <2>1, AvailabilityUpdated
<1>4. PeerGood(m) /\ CommonFull(m, data)
  BY <1>2, <1>3, SameGood
<1>5. node' = [node EXCEPT ![p] = m] /\ mapBlocksInFlight' = mapBlocksInFlight
      /\ nQueuedValidatedHeaders' = nQueuedValidatedHeaders /\ nSyncStarted' = nSyncStarted
      /\ nPreferredDownload' = nPreferredDownload
      /\ index' = index /\ data' = data /\ failed' = failed /\ tip' = tip
  BY <1>1 DEF Inv, blockVars
<1>6. /\ PeersInv' /\ FlightInv' /\ QueueInv'
      /\ \A q \in Peers : Connected(q)' <=> Connected(q)
      /\ \A q \in Peers \ {p} : node'[q] = node[q]
      /\ node'[p] = m
  BY <1>2, <1>3, <1>4, <1>5, OnePeerMoves DEF SameButBlocks
<1>7. CountersExact'
  BY <1>2, <1>3, <1>5, <1>6, SyncUnchanged DEF SameButBlocks
<1>8. TreeInv'
  BY <1>5 DEF IInv, TreeInv, HaveTx
<1>9. QED
  BY <1>6, <1>7, <1>8 DEF IInv

LEMMA IndexGrows ==
  ASSUME TreeInv, NEW b \in Announced, index' = index \cup Ancestors(b),
         data' = data, failed' = failed, tip' = tip
  PROVE  TreeInv'
<1>1. Ancestors(b) \subseteq Blocks
  BY TreeAssumption, PathFacts
<1>2. QED
  BY <1>1 DEF TreeInv, HaveTx

LEMMA HeadersRefusedKeeps ==
  ASSUME IInv, NEW p \in Peers, NEW b \in Announced, HeadersRefused(p, b)
  PROVE  IInv'
<1>1. TreeInv'
  BY IndexGrows DEF HeadersRefused, IInv
<1>2. PeersInv' /\ FlightInv' /\ QueueInv'
  BY DEF HeadersRefused, IInv, PeersInv, FlightInv, QueueInv, Connected, StoredNotInFlight, InFlight
<1>3. CountersExact'
  BY DEF HeadersRefused, IInv, CountersExact, Connected
<1>4. QED
  BY <1>1, <1>2, <1>3 DEF IInv

LEMMA HeadersKeeps ==
  ASSUME IInv, NEW p \in Peers, NEW b \in Announced, Headers(p, b)
  PROVE  IInv'
<1>1. PICK m : m = UpdateBlockAvailability(node[p], b, index')
  OBVIOUS
<1>2. /\ MarkBlocksAsInFlight(p, m, DirectFetch(m, b))
      /\ index' = index \cup Ancestors(b)
      /\ data' = data /\ failed' = failed /\ tip' = tip
      /\ nSyncStarted' = nSyncStarted /\ nPreferredDownload' = nPreferredDownload
  BY <1>1 DEF Headers
<1>3. Connected(p) /\ PeerGood(node[p]) /\ CommonFull(node[p], data)
  BY DEF Headers, Active, IInv, PeersInv
<1>4. TreeInv'
  BY <1>2, IndexGrows DEF IInv
<1>5. m \in NodeState /\ SameButBlocks(m, node[p])
  <2>1. index' \in SUBSET Blocks /\ b \in Blocks /\ node[p] \in NodeState
    BY <1>3, <1>4, TreeAssumption DEF TreeInv, PeerGood
  <2>2. QED
    BY <1>1, <2>1, AvailabilityUpdated
<1>6. PeerGood(m) /\ CommonFull(m, data)
  BY <1>3, <1>5, SameGood
<1>7. Wanted(DirectFetch(m, b), Room(m))
  <2>1. Room(m) \in Nat
    BY <1>6, LimitAssumption DEF PeerGood, NodeState, Room
  <2>2. QED
    BY <2>1, TreeAssumption, DirectFetchWanted
<1>8. /\ PeersInv' /\ FlightInv' /\ QueueInv'
      /\ \A q \in Peers : Connected(q)' <=> Connected(q)
      /\ \A q \in Peers \ {p} : node'[q] = node[q]
      /\ node'[p].fSyncStarted = m.fSyncStarted
  BY <1>2, <1>3, <1>5, <1>6, <1>7, MarkInFlight DEF SameButBlocks
<1>9. CountersExact'
  BY <1>2, <1>3, <1>5, <1>8, SyncUnchanged DEF SameButBlocks
<1>10. QED
  BY <1>4, <1>8, <1>9 DEF IInv

LEMMA TipFull ==
  ASSUME TreeInv, NEW b \in Blocks, data' = data \cup {b}, index' = index \cup {b},
         tip' \in BestTip(data', failed)
  PROVE  tip' \in index' /\ HaveTx(tip', data')
<1>1. HaveTx(tip', data') /\ tip' \in Blocks
  BY DEF TreeInv, BestTip, HaveTx
<1>2. tip' \in Ancestors(tip')
  BY <1>1, PathFacts
<1>3. QED
  BY <1>1, <1>2 DEF TreeInv, HaveTx

LEMMA BlockKeeps ==
  ASSUME IInv, NEW p \in Peers, NEW b \in Blocks, Block(p, b)
  PROVE  IInv'
<1>1. /\ node' = MarkBlockAsReceived(b, node) /\ mapBlocksInFlight' = Unmarked(b)
      /\ nQueuedValidatedHeaders' = Dequeued(b)
      /\ nSyncStarted' = nSyncStarted /\ nPreferredDownload' = nPreferredDownload
      /\ data' \in {data, data \cup {b}}
      /\ Connected(p)
  BY DEF Block, Active, blockVars
<1>2. TreeInv'
  <2>1. CASE index' = index \cup {b} /\ data' = data \cup {b} /\ tip' \in BestTip(data', failed) /\ failed' = failed
    <3>1. tip' \in index' /\ HaveTx(tip', data')
      BY <2>1, TipFull DEF IInv
    <3>2. QED
      BY <2>1, <3>1 DEF IInv, TreeInv
  <2>2. CASE index' = index \cup {b} /\ failed' = failed \cup {b} /\ data' = data /\ tip' = tip
    BY <2>2 DEF IInv, TreeInv, HaveTx
  <2>3. CASE index' = index /\ failed' = failed /\ data' = data /\ tip' = tip
    BY <2>3 DEF IInv, TreeInv, HaveTx
  <2>4. QED
    BY <2>1, <2>2, <2>3 DEF Block, blockVars
<1>3. /\ node \in [Peers -> NodeState \cup {None}]
      /\ mapBlocksInFlight \in [Blocks -> Peers \cup {None}]
      /\ \A c \in Blocks, q \in Peers :
            mapBlocksInFlight[c] = q <=> node[q] # None /\ c \in Range(node[q].flight)
      /\ None \notin Peers
  BY TreeAssumption DEF IInv, PeersInv, FlightInv, Connected
<1>4. /\ mapBlocksInFlight' \in [Blocks -> Peers \cup {None}]
      /\ mapBlocksInFlight'[b] = None
      /\ \A c \in Blocks \ {b} : mapBlocksInFlight'[c] = mapBlocksInFlight[c]
  BY <1>1, <1>3 DEF Unmarked
<1>5. \A c \in data' : mapBlocksInFlight'[c] = None
  BY <1>1, <1>4 DEF IInv, TreeInv, FlightInv, StoredNotInFlight, InFlight
<1>6. \A n : CommonFull(n, data) => CommonFull(n, data')
  BY <1>1 DEF CommonFull, HaveTx
<1>7. QueueInv'
  <2> DEFINE F == {c \in Blocks : InFlight(c)}
             G == {c \in Blocks : InFlight(c)'}
  <2>1. G = F \ {b} /\ (b \in F <=> InFlight(b))
    BY <1>4 DEF InFlight
  <2>2. IsFiniteSet(F)
    BY TreeAssumption, FS_Subset
  <2>3. Cardinality(F) <= nQueuedValidatedHeaders /\ nQueuedValidatedHeaders \in Nat
    BY DEF IInv, QueueInv
  <2> HIDE DEF F, G
  <2>4. Cardinality(G) = Cardinality(F) - One(InFlight(b))
    BY <2>1, <2>2, RemoveOne
  <2>5. IsFiniteSet(G) /\ Cardinality(F) \in Nat /\ Cardinality(G) \in Nat /\ One(InFlight(b)) \in Nat
    BY <2>1, <2>2, FS_RemoveElement, FS_CardinalityType DEF One
  <2>6. nQueuedValidatedHeaders' = nQueuedValidatedHeaders - One(InFlight(b))
    BY <1>1 DEF Dequeued
  <2>7. nQueuedValidatedHeaders' \in Nat /\ Cardinality(G) <= nQueuedValidatedHeaders'
    BY <2>3, <2>4, <2>5, <2>6
  <2>8. QED
    BY <2>7 DEF QueueInv, G
<1>8. CASE ~InFlight(b)
  <2>1. node' = node /\ mapBlocksInFlight[b] = None
    BY <1>1, <1>8 DEF MarkBlockAsReceived, InFlight
  <2>2. mapBlocksInFlight' = mapBlocksInFlight
    BY <1>1, <1>3, <2>1 DEF Unmarked
  <2>3. PeersInv'
    BY <1>6, <2>1 DEF IInv, PeersInv, Connected
  <2>4. FlightInv'
    BY <1>3, <1>5, <2>1, <2>2 DEF FlightInv, Connected, StoredNotInFlight, InFlight
  <2>5. CountersExact'
    BY <1>1, <2>1 DEF IInv, CountersExact, Connected
  <2>6. QED
    BY <1>2, <1>7, <2>3, <2>4, <2>5 DEF IInv
<1>9. CASE InFlight(b)
  <2>1. PICK q \in Peers : q = mapBlocksInFlight[b]
    BY <1>3, <1>9 DEF InFlight
  <2>2. PICK fl : fl = Without(node[q].flight, b)
    OBVIOUS
  <2> DEFINE m == [node[q] EXCEPT !.flight = fl, !.nBlocksInFlight = @ - 1, !.stalling = FALSE]
  <2>3. node' = [node EXCEPT ![q] = m]
    <3>1. q # None
      BY <1>3
    <3>2. node' = [node EXCEPT ![q].flight = Without(@, b), ![q].nBlocksInFlight = @ - 1, ![q].stalling = FALSE]
      BY <1>1, <2>1, <3>1 DEF MarkBlockAsReceived
    <3>3. QED
      BY <1>3, <2>2, <3>2
  <2>4. /\ Connected(q) /\ b \in Range(node[q].flight)
        /\ PeerGood(node[q]) /\ CommonFull(node[q], data)
    BY <1>3, <2>1 DEF IInv, PeersInv, Connected
  <2>5. /\ fl \in Seq(Blocks) /\ IsInjective(fl) /\ Range(fl) = Range(node[q].flight) \ {b}
        /\ Len(fl) = Len(node[q].flight) - 1 /\ Len(fl) \in Nat
    <3>1. node[q].flight \in Seq(Blocks) /\ IsInjective(node[q].flight)
      BY <2>4 DEF PeerGood, NodeState
    <3>2. /\ fl \in Seq(Blocks) /\ IsInjective(fl) /\ Range(fl) = Range(node[q].flight) \ {b}
          /\ Len(fl) = Len(node[q].flight) - 1
      BY <2>2, <2>4, <3>1, WithoutLists
    <3>3. QED
      BY <3>2, RangeOf
  <2>6. PICK count \in Nat : count = node[q].nBlocksInFlight - 1 /\ count = Len(fl) /\ count <= MAX_IN_TRANSIT
    <3>1. /\ node[q].nBlocksInFlight = Len(node[q].flight) /\ node[q].nBlocksInFlight <= MAX_IN_TRANSIT
          /\ node[q].nBlocksInFlight \in Nat /\ MAX_IN_TRANSIT \in Nat
      BY <2>4, LimitAssumption DEF PeerGood, NodeState
    <3>2. QED
      BY <2>5, <3>1
  <2>7. m = [node[q] EXCEPT !.flight = fl, !.nBlocksInFlight = count, !.stalling = FALSE]
    BY <2>6
  <2> HIDE DEF m
  <2>8. /\ m \in NodeState /\ m.flight = fl /\ m.nBlocksInFlight = count /\ m.common = node[q].common
        /\ m.stalling = FALSE /\ m.fSyncStarted = node[q].fSyncStarted
    <3>1. node[q] \in NodeState
      BY <2>4 DEF PeerGood
    <3>2. m \in NodeState
      BY <2>5, <2>7, <3>1 DEF NodeState
    <3>3. m.flight = fl /\ m.nBlocksInFlight = count /\ m.common = node[q].common
      BY <2>7, <3>1 DEF NodeState
    <3>4. m.stalling = FALSE /\ m.fSyncStarted = node[q].fSyncStarted
      BY <2>7, <3>1 DEF NodeState
    <3>5. QED
      BY <3>2, <3>3, <3>4
  <2>9. PeerGood(m) /\ CommonFull(m, data')
    <3>1. PeerGood(m)
      BY <2>5, <2>6, <2>8 DEF PeerGood
    <3>2. CommonFull(m, data)
      BY <2>4, <2>8 DEF CommonFull
    <3>3. QED
      BY <1>6, <3>1, <3>2
  <2>10. m # None
    BY <2>8, NoneAssumption
  <2>11. node'[q] = m /\ \A r \in Peers \ {q} : node'[r] = node[r]
    BY <1>3, <2>3
  <2>12. \A r \in Peers : Connected(r)' <=> Connected(r)
    BY <2>4, <2>10, <2>11 DEF Connected
  <2>13. PeersInv'
    <3>1. node' \in [Peers -> NodeState \cup {None}]
      BY <1>3, <2>3, <2>8
    <3>2. ASSUME NEW r \in Peers, Connected(r)
          PROVE  PeerGood(node'[r]) /\ CommonFull(node'[r], data')
      <4>1. CASE r = q
        BY <2>9, <2>11, <4>1
      <4>2. CASE r # q
        BY <1>6, <2>11, <3>2, <4>2 DEF IInv, PeersInv
      <4>3. QED
        BY <4>1, <4>2
    <3>3. QED
      BY <2>12, <3>1, <3>2 DEF PeersInv
  <2>14. FlightInv'
    <3>1. ASSUME NEW c \in Blocks, NEW r \in Peers
          PROVE  mapBlocksInFlight'[c] = r <=> node'[r] # None /\ c \in Range(node'[r].flight)
      <4>1. mapBlocksInFlight[c] = r <=> node[r] # None /\ c \in Range(node[r].flight)
        BY <1>3
      <4>2. CASE r = q
        <5>1. node'[r] = m /\ m # None /\ (c \in Range(node'[r].flight) <=> c \in Range(node[r].flight) /\ c # b)
          BY <2>5, <2>8, <2>10, <2>11, <4>2
        <5>2. QED
          BY <1>3, <1>4, <2>4, <4>1, <4>2, <5>1 DEF Connected
      <4>3. CASE r # q
        BY <1>3, <1>4, <2>1, <2>11, <4>1, <4>3
      <4>4. QED
        BY <4>2, <4>3
    <3>2. QED
      BY <1>4, <1>5, <3>1 DEF FlightInv, StoredNotInFlight, InFlight, Connected
  <2>15. CountersExact'
    BY <1>1, <2>4, <2>8, <2>11, <2>12, SyncUnchanged
  <2>16. QED
    BY <1>2, <1>7, <2>13, <2>14, <2>15 DEF IInv
<1>10. QED
  BY <1>8, <1>9

-----------------------------------------------------------------------------
(* SendMessages *)

(* The peer's state when SendMessages comes to the timeouts. *)
LEMMA RefreshedGood ==
  ASSUME IInv, NEW p \in Peers, Connected(p), NEW s \in BOOLEAN, s = SyncStart(p),
         NEW n, n = Refreshed(p)
  PROVE  /\ n \in NodeState /\ PeerGood(n) /\ CommonFull(n, data)
         /\ n.flight = node[p].flight /\ n.fSyncStarted = (node[p].fSyncStarted \/ s)
<1>1. PICK m : m = [node[p] EXCEPT !.fSyncStarted = @ \/ s]
  OBVIOUS
<1>2. PeerGood(node[p]) /\ CommonFull(node[p], data)
  BY DEF IInv, PeersInv
<1>3. /\ m \in NodeState /\ m.flight = node[p].flight /\ m.common = node[p].common
      /\ m.nBlocksInFlight = node[p].nBlocksInFlight /\ m.stalling = node[p].stalling
      /\ m.fSyncStarted = (node[p].fSyncStarted \/ s)
  BY <1>1, <1>2 DEF PeerGood, NodeState
<1>4. PeerGood(m) /\ CommonFull(m, data)
  BY <1>2, <1>3 DEF PeerGood, CommonFull
<1>5. n \in NodeState /\ SameButBlocks(n, m)
  <2>1. n = ProcessBlockAvailability(m, index)
    BY <1>1 DEF Refreshed
  <2>2. QED
    BY <1>3, <2>1, AvailabilityProcessed DEF IInv, TreeInv
<1>6. PeerGood(n) /\ CommonFull(n, data)
  BY <1>4, <1>5, SameGood
<1>7. QED
  BY <1>3, <1>5, <1>6 DEF SameButBlocks

LEMMA SendTimeoutKeeps ==
  ASSUME IInv, NEW p \in Peers, SendTimeout(p)
  PROVE  IInv'
<1>1. PICK s \in BOOLEAN : s = SyncStart(p)
  BY DEF SyncStart
<1>2. PICK n : n = Refreshed(p) /\ node' = [node EXCEPT ![p] = [n EXCEPT !.fDisconnect = TRUE]]
  BY DEF SendTimeout
<1>3. Connected(p)
  BY DEF SendTimeout, Active
<1>4. /\ n \in NodeState /\ PeerGood(n) /\ CommonFull(n, data)
      /\ n.flight = node[p].flight /\ n.fSyncStarted = (node[p].fSyncStarted \/ s)
  BY <1>1, <1>2, <1>3, RefreshedGood
<1>5. PICK m : m = [n EXCEPT !.fDisconnect = TRUE]
  OBVIOUS
<1>6. m \in NodeState /\ SameButBlocks(m, n)
  BY <1>4, <1>5 DEF NodeState, SameButBlocks
<1>7. PeerGood(m) /\ CommonFull(m, data)
  BY <1>4, <1>6, SameGood
<1>8. /\ node' = [node EXCEPT ![p] = m] /\ mapBlocksInFlight' = mapBlocksInFlight
      /\ nQueuedValidatedHeaders' = nQueuedValidatedHeaders
      /\ nSyncStarted' = nSyncStarted + One(s)
      /\ nPreferredDownload' = nPreferredDownload
      /\ index' = index /\ data' = data /\ failed' = failed /\ tip' = tip
  BY <1>1, <1>2, <1>5 DEF SendTimeout, blockVars
<1>9. /\ PeersInv' /\ FlightInv' /\ QueueInv'
      /\ \A q \in Peers : Connected(q)' <=> Connected(q)
      /\ \A q \in Peers \ {p} : node'[q] = node[q]
      /\ node'[p] = m
  <2>1. m.flight = node[p].flight
    BY <1>4, <1>6 DEF SameButBlocks
  <2>2. QED
    BY <1>3, <1>7, <1>8, <2>1, OnePeerMoves
<1>10. s => ~node[p].fSyncStarted
  BY <1>1 DEF SyncStart
<1>11. CountersExact'
  <2>1. node'[p].fSyncStarted = (node[p].fSyncStarted \/ s)
    BY <1>4, <1>6, <1>9 DEF SameButBlocks
  <2>2. QED
    BY <1>3, <1>8, <1>9, <1>10, <2>1, SyncCounted DEF IInv
<1>12. TreeInv'
  BY <1>8 DEF IInv, TreeInv, HaveTx
<1>13. QED
  BY <1>9, <1>11, <1>12 DEF IInv

(* SendGetData leaves the connections and the sync flags alone. *)
LEMMA SendGetDataKeeps ==
  ASSUME IInv, NEW p \in Peers, Connected(p), NEW n, PeerGood(n), CommonFull(n, data),
         n.flight = node[p].flight, SendGetData(p, n), data' = data
  PROVE  /\ PeersInv' /\ FlightInv' /\ QueueInv'
         /\ \A q \in Peers : Connected(q)' <=> Connected(q)
         /\ \A q \in Peers \ {p} : Connected(q) => node'[q].fSyncStarted = node[q].fSyncStarted
         /\ node'[p].fSyncStarted = n.fSyncStarted
<1>1. CASE ~FFetch(p) \/ Room(n) <= 0 \/ ~Interesting(n)
  <2>1. node' = [node EXCEPT ![p] = n] /\ UNCHANGED <<mapBlocksInFlight, nQueuedValidatedHeaders>>
    BY <1>1 DEF SendGetData
  <2>2. QED
    BY <2>1, OnePeerMoves
<1>2. CASE ~(~FFetch(p) \/ Room(n) <= 0 \/ ~Interesting(n))
  <2>1. PICK start, found :
           /\ Interesting(n) /\ start = CommonStart(n)
           /\ found = FindNextBlocksToDownload(p, n, start)
           /\ IF n.nBlocksInFlight = 0 /\ found.staller # None
              THEN /\ node' = [node EXCEPT ![p] = [n EXCEPT !.common = found.common],
                                           ![found.staller].stalling = TRUE]
                   /\ UNCHANGED <<mapBlocksInFlight, nQueuedValidatedHeaders>>
              ELSE MarkBlocksAsInFlight(p, [n EXCEPT !.common = found.common], found.fetch)
    <3> DEFINE S(start, found) ==
                 IF n.nBlocksInFlight = 0 /\ found.staller # None
                 THEN /\ node' = [node EXCEPT ![p] = [n EXCEPT !.common = found.common],
                                              ![found.staller].stalling = TRUE]
                      /\ UNCHANGED <<mapBlocksInFlight, nQueuedValidatedHeaders>>
                 ELSE MarkBlocksAsInFlight(p, [n EXCEPT !.common = found.common], found.fetch)
    <3>1. \E start \in {CommonStart(n)} :
             \E found \in {FindNextBlocksToDownload(p, n, start)} : S(start, found)
      BY <1>2 DEF SendGetData
    <3> HIDE DEF S
    <3>2. PICK start \in {CommonStart(n)} :
             \E found \in {FindNextBlocksToDownload(p, n, start)} : S(start, found)
      BY <3>1
    <3>3. PICK found \in {FindNextBlocksToDownload(p, n, start)} : S(start, found)
      BY <3>2
    <3>4. QED
      BY <1>2, <3>2, <3>3 DEF S
  <2>2. n.best \in Blocks
    BY <2>1 DEF Interesting, PeerGood, NodeState
  <2>3. start \in Ancestors(n.best) /\ start \in Blocks /\ HaveTx(start, data)
    <3>1. n.common \in Blocks \cup {None} /\ (n.common # None => HaveTx(n.common, data))
      BY DEF PeerGood, NodeState, CommonFull
    <3>2. tip \in Blocks /\ HaveTx(tip, data)
      BY DEF IInv, TreeInv
    <3>3. QED
      BY <2>1, <2>2, <3>1, <3>2, CommonStartFull
  <2>4. Room(n) \in Nat \ {0}
    <3>1. Room(n) \in Int
      BY LimitAssumption DEF Room, PeerGood, NodeState
    <3>2. QED
      BY <1>2, <3>1
  <2>5. PICK k : found \in Walked(p, n, k)
    <3>1. mapBlocksInFlight \in [Blocks -> Peers \cup {None}]
      BY DEF IInv, FlightInv
    <3>2. QED
      BY <2>1, <2>2, <2>3, <2>4, <3>1, FindNextWalked
  <2>6. /\ found \in WalkState /\ HaveTx(found.common, data) /\ Wanted(found.fetch, Room(n))
        /\ found.staller # None => found.staller # p /\ Waited(found.staller)
    BY <2>5 DEF Walked
  <2>7. PICK r : r = [n EXCEPT !.common = found.common]
    OBVIOUS
  <2>8. /\ r \in NodeState /\ r.flight = n.flight /\ r.nBlocksInFlight = n.nBlocksInFlight
        /\ r.stalling = n.stalling /\ r.fSyncStarted = n.fSyncStarted /\ r.common = found.common
    BY <2>6, <2>7 DEF PeerGood, NodeState, WalkState
  <2>9. PeerGood(r) /\ CommonFull(r, data)
    BY <2>6, <2>8 DEF PeerGood, CommonFull
  <2>10. r.flight = node[p].flight /\ Room(r) = Room(n) /\ r.fSyncStarted = n.fSyncStarted
    BY <2>8 DEF Room
  <2>11. CASE n.nBlocksInFlight = 0 /\ found.staller # None
    <3>1. PICK q \in Peers : q = found.staller /\ q # p
      BY <2>6, <2>11 DEF WalkState
    <3>2. PICK b \in Blocks : mapBlocksInFlight[b] = q
      BY <2>6, <2>11, <3>1 DEF Waited
    <3>3. Connected(q) /\ b \in Range(node[q].flight) /\ PeerGood(node[q]) /\ CommonFull(node[q], data)
      BY <3>2 DEF IInv, FlightInv, PeersInv
    <3>4. PICK u : u = [node[q] EXCEPT !.stalling = TRUE]
      OBVIOUS
    <3>5. node \in [Peers -> NodeState \cup {None}]
      BY DEF IInv, PeersInv
    <3>6. node' = [node EXCEPT ![p] = r, ![q] = u]
      <4>1. node' = [node EXCEPT ![p] = r, ![q].stalling = TRUE]
        BY <2>1, <2>7, <2>11, <3>1
      <4>2. QED
        BY <3>1, <3>4, <3>5, <4>1
    <3>7. /\ u \in NodeState /\ u.flight = node[q].flight /\ u.nBlocksInFlight = node[q].nBlocksInFlight
          /\ u.common = node[q].common /\ u.fSyncStarted = node[q].fSyncStarted
      BY <3>3, <3>4 DEF PeerGood, NodeState
    <3>8. u.flight # << >>
      <4>1. Range(u.flight) # {}
        BY <3>3, <3>7
      <4>2. QED
        BY <4>1 DEF Range
    <3>9. PeerGood(u) /\ CommonFull(u, data)
      BY <3>3, <3>7, <3>8 DEF PeerGood, CommonFull
    <3>10. /\ node'[p] = r /\ node'[q] = u /\ \A x \in Peers \ {p, q} : node'[x] = node[x]
           /\ node' \in [Peers -> NodeState \cup {None}]
      BY <2>8, <3>1, <3>5, <3>6, <3>7
    <3>11. \A x \in Peers : Connected(x)' <=> Connected(x)
      BY <2>8, <3>3, <3>7, <3>10, NoneAssumption DEF Connected
    <3>12. ASSUME NEW x \in Peers, Connected(x)
           PROVE  PeerGood(node'[x]) /\ CommonFull(node'[x], data) /\ node'[x].flight = node[x].flight
      <4>1. CASE x = p
        BY <2>9, <2>10, <3>10, <4>1
      <4>2. CASE x = q
        BY <3>7, <3>9, <3>10, <4>2
      <4>3. CASE x \notin {p, q}
        BY <3>10, <3>12, <4>3 DEF IInv, PeersInv
      <4>4. QED
        BY <4>1, <4>2, <4>3
    <3>13. mapBlocksInFlight' = mapBlocksInFlight /\ nQueuedValidatedHeaders' = nQueuedValidatedHeaders
      BY <2>1, <2>11
    <3>14. PeersInv' /\ FlightInv' /\ QueueInv'
      BY <3>10, <3>11, <3>12, <3>13, SameFlights
    <3>15. \A x \in Peers \ {p} : Connected(x) => node'[x].fSyncStarted = node[x].fSyncStarted
      BY <3>7, <3>10
    <3>16. QED
      BY <2>10, <3>10, <3>11, <3>14, <3>15
  <2>12. CASE ~(n.nBlocksInFlight = 0 /\ found.staller # None)
    <3>1. MarkBlocksAsInFlight(p, r, found.fetch)
      BY <2>1, <2>7, <2>12
    <3>2. QED
      BY <2>6, <2>9, <2>10, <3>1, MarkInFlight
  <2>13. QED
    BY <2>11, <2>12
<1>3. QED
  BY <1>1, <1>2

LEMMA SendMessagesKeeps ==
  ASSUME IInv, NEW p \in Peers, SendMessages(p)
  PROVE  IInv'
<1>1. PICK s \in BOOLEAN : s = SyncStart(p)
  BY DEF SyncStart
<1>2. PICK n : n = Refreshed(p) /\ SendGetData(p, n)
  BY DEF SendMessages
<1>3. Connected(p)
  BY DEF SendMessages, Active
<1>4. /\ PeerGood(n) /\ CommonFull(n, data)
      /\ n.flight = node[p].flight /\ n.fSyncStarted = (node[p].fSyncStarted \/ s)
  BY <1>1, <1>2, <1>3, RefreshedGood
<1>5. /\ nSyncStarted' = nSyncStarted + One(s) /\ nPreferredDownload' = nPreferredDownload
      /\ index' = index /\ data' = data /\ failed' = failed /\ tip' = tip
  BY <1>1 DEF SendMessages, blockVars
<1>6. /\ PeersInv' /\ FlightInv' /\ QueueInv'
      /\ \A q \in Peers : Connected(q)' <=> Connected(q)
      /\ \A q \in Peers \ {p} : Connected(q) => node'[q].fSyncStarted = node[q].fSyncStarted
      /\ node'[p].fSyncStarted = n.fSyncStarted
  BY <1>2, <1>3, <1>4, <1>5, SendGetDataKeeps
<1>7. s => ~node[p].fSyncStarted
  BY <1>1 DEF SyncStart
<1>8. CountersExact'
  BY <1>3, <1>4, <1>5, <1>6, <1>7, SyncCounted DEF IInv
<1>9. TreeInv'
  BY <1>5 DEF IInv, TreeInv, HaveTx
<1>10. QED
  BY <1>6, <1>8, <1>9 DEF IInv

-----------------------------------------------------------------------------
(* The theorems *)

(* The inductive invariant holds for any tree, peers and limits. *)
THEOREM Inductive == Spec => []IInv
<1>1. Init => IInv
  BY InitInv
<1>2. IInv /\ [Next]_vars => IInv'
  <2> SUFFICES ASSUME IInv, [Next]_vars PROVE IInv'
    OBVIOUS
  <2>1. CASE UNCHANGED vars
    BY <2>1 DEF vars, IInv, TreeInv, PeersInv, FlightInv, QueueInv, CountersExact, Connected,
                InFlight, StoredNotInFlight, HaveTx
  <2>2. ASSUME NEW p \in Peers, Connect(p)
        PROVE  IInv'
    BY <2>2, ConnectKeeps
  <2>3. ASSUME NEW p \in Peers, Drop(p)
        PROVE  IInv'
    BY <2>3, DropKeeps
  <2>4. ASSUME NEW p \in Peers, FinalizeNode(p)
        PROVE  IInv'
    BY <2>4, FinalizeNodeKeeps
  <2>5. ASSUME NEW p \in Peers, NEW b \in Announced, Inv(p, b)
        PROVE  IInv'
    BY <2>5, InvKeeps
  <2>6. ASSUME NEW p \in Peers, NEW b \in Announced, Headers(p, b)
        PROVE  IInv'
    BY <2>6, HeadersKeeps
  <2>7. ASSUME NEW p \in Peers, NEW b \in Announced, HeadersRefused(p, b)
        PROVE  IInv'
    BY <2>7, HeadersRefusedKeeps
  <2>8. ASSUME NEW p \in Peers, NEW b \in Blocks, Block(p, b)
        PROVE  IInv'
    BY <2>8, BlockKeeps
  <2>9. ASSUME NEW p \in Peers, SendTimeout(p)
        PROVE  IInv'
    BY <2>9, SendTimeoutKeeps
  <2>10. ASSUME NEW p \in Peers, SendMessages(p)
         PROVE  IInv'
    BY <2>10, SendMessagesKeeps
  <2>11. QED
    BY <2>1, <2>2, <2>3, <2>4, <2>5, <2>6, <2>7, <2>8, <2>9, <2>10 DEF Next
<1>3. QED
  BY <1>1, <1>2, PTL DEF Spec

(* The maps, lists and counters of all peers agree and stay within their limits. *)
THEOREM BookkeepingTheorem == Spec => []BookkeepingExact
<1>1. IInv => BookkeepingExact
  <2> SUFFICES ASSUME IInv PROVE BookkeepingExact
    OBVIOUS
  <2>1. CountersExact /\ nPreferredDownload \in Nat /\ nSyncStarted \in Nat
    BY LimitAssumption, FS_Subset, FS_CardinalityType DEF IInv, CountersExact
  <2>2. TypeOK
    BY <2>1 DEF TypeOK, IInv, TreeInv, PeersInv, FlightInv, QueueInv
  <2>3. InFlightExact /\ InFlightBounded
    BY DEF InFlightExact, InFlightBounded, IInv, PeersInv, FlightInv, PeerGood
  <2>4. StoredNotInFlight
    BY DEF IInv, FlightInv
  <2>5. QED
    BY <2>1, <2>2, <2>3, <2>4 DEF BookkeepingExact
<1>2. QED
  BY <1>1, Inductive, PTL

(* A peer counts as stalling only while a block is in flight from it. *)
THEOREM StallerTheorem == Spec => []StallerOwesBlock
<1>1. IInv => StallerOwesBlock
  BY DEF IInv, PeersInv, PeerGood, StallerOwesBlock
<1>2. QED
  BY <1>1, Inductive, PTL

(* pindexLastCommonBlock has the data of all its ancestors. *)
THEOREM CommonTheorem == Spec => []CommonIsFull
<1>1. IInv => CommonIsFull
  BY DEF IInv, PeersInv, CommonFull, CommonIsFull
<1>2. QED
  BY <1>1, Inductive, PTL
=============================================================================
