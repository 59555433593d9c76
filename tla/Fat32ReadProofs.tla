-------------------------- MODULE Fat32ReadProofs ---------------------------
(***************************************************************************)
(* Reading a volume: chains, the units of a directory, what a listing      *)
(* shows and where a path leads, on volumes as Fat32Sound describes them.  *)
(***************************************************************************)
EXTENDS Fat32Sound, FiniteSetTheorems, WellFoundedInduction, TLAPS

(* A set of numbers has a least one.                                       *)
LEMMA Least ==
    ASSUME NEW T \in SUBSET Nat, T # {}
    PROVE  \E x \in T : \A y \in T : x <= y
<1>1. PICK x \in T : \A y \in T : ~ (<<y, x>> \in OpToRel(<, Nat))
      BY WFMin, NatLessThanWellFounded
<1>2. \A y \in T : ~ (y < x)
      BY <1>1 DEF OpToRel
<1> QED BY <1>2

(* Chains.  However the links lead, Links gives a sequence.                *)
LEMMA ChainLength ==
    ASSUME NEW d, NEW start, NEW max \in Nat
    PROVE  \E m \in Nat : \E f : Links(d, start, max) = [n \in 1 .. m |-> f[n]]
<1> DEFINE at == Followed(d, start, max)
<1>1. Links(d, start, max)
          = [n \in 1 .. Cardinality({k \in 1 .. max : at[k] >= 2}) |-> at[n]]
      BY DEF Links
<1>2. Cardinality({k \in 1 .. max : at[k] >= 2}) \in Nat
  <2>1. {k \in 1 .. max : at[k] >= 2} \subseteq 1 .. max
        OBVIOUS
  <2>2. IsFiniteSet(1 .. max)
        BY FS_Interval
  <2> QED BY <2>1, <2>2, FS_Subset, FS_CardinalityType
<1> QED BY <1>1, <1>2

(* A function on the first numbers is a sequence.                          *)
LEMMA FunctionIsSeq ==
    ASSUME NEW m \in Nat, NEW f, NEW s, s = [n \in 1 .. m |-> f[n]]
    PROVE  s \in Seq({f[n] : n \in 1 .. m}) /\ Len(s) = m /\ DOMAIN s = 1 .. m
    OBVIOUS

LEMMA ChainIsSeq ==
    ASSUME NEW d, NEW start
    PROVE  /\ Len(Chain(d, start)) \in Nat
           /\ DOMAIN Chain(d, start) = 1 .. Len(Chain(d, start))
<1>1. PICK m \in Nat : \E f : Chain(d, start) = [n \in 1 .. m |-> f[n]]
      BY ChainLength, FatAssumption DEF Chain
<1>2. PICK f : Chain(d, start) = [n \in 1 .. m |-> f[n]]
      BY <1>1
<1> QED BY <1>2, FunctionIsSeq

(* Quotients by the units of a cluster.                                    *)
LEMMA Quotient ==
    ASSUME NEW n \in Nat, NEW c \in Nat \ {0}
    PROVE  /\ n \div c \in Nat /\ n % c \in 0 .. c - 1
           /\ n = c * (n \div c) + (n % c)
    OBVIOUS

LEMMA QuotientBelow ==
    ASSUME NEW n \in Nat, NEW c \in Nat \ {0}, NEW m \in Nat, n < m * c
    PROVE  n \div c < m
<1>1. n \div c \in Nat /\ c * (n \div c) <= n
      BY Quotient
<1>2. SUFFICES ASSUME m <= n \div c PROVE FALSE
      BY <1>1
<1>3. PICK k \in Nat : n \div c = m + k
  <2>1. (n \div c) - m \in Nat
        BY <1>1, <1>2
  <2> QED BY <1>1, <2>1
<1>4. c * (n \div c) = c * m + c * k /\ c * k \in Nat /\ c * m = m * c /\ m * c \in Nat
      BY <1>3
<1> QED BY <1>1, <1>4
(* A chain that is followed to its end is the chain of its first cluster.  *)
LEMMA Followable ==
    ASSUME NEW d, NEW start, follow_chain(d, start).ok
    PROVE  follow_chain(d, start).val = Chain(d, start)
    BY DEF follow_chain, CheckEnd, Ok, Err

-----------------------------------------------------------------------------
(* The units of a chain; a slot of it lies in one of its clusters.         *)
LEMMA SlotInChain ==
    ASSUME NEW chain, Len(chain) \in Nat, DOMAIN chain = 1 .. Len(chain),
           NEW n \in 1 .. Len(chain) * ClusterUnits
    PROVE  SlotCluster(chain, n) \in ToSet(chain)
<1>1. ClusterUnits \in Nat \ {0} /\ Len(chain) * ClusterUnits \in Nat
      BY FatAssumption
<1>2. n - 1 \in Nat /\ n - 1 < Len(chain) * ClusterUnits
      BY <1>1
<1>3. (n - 1) \div ClusterUnits \in Nat
      BY <1>1, <1>2, Quotient
<1>4. (n - 1) \div ClusterUnits < Len(chain)
      BY <1>1, <1>2, QuotientBelow
<1>5. ((n - 1) \div ClusterUnits) + 1 \in DOMAIN chain
      BY <1>3, <1>4
<1> QED BY <1>5 DEF SlotCluster, ToSet

LEMMA NextSlot ==
    ASSUME NEW chain, Len(chain) \in Nat,
           NEW n \in 1 .. Len(chain) * ClusterUnits, SlotIndex(n) < ClusterUnits
    PROVE  n + 1 \in 1 .. Len(chain) * ClusterUnits
<1> DEFINE q == (n - 1) \div ClusterUnits
           r == (n - 1) % ClusterUnits
<1>1. ClusterUnits \in Nat \ {0} /\ Len(chain) * ClusterUnits \in Nat
      BY FatAssumption
<1>2. n - 1 \in Nat /\ n - 1 < Len(chain) * ClusterUnits
      BY <1>1
<1>3. q \in Nat /\ r \in 0 .. ClusterUnits - 1 /\ n - 1 = ClusterUnits * q + r
      BY <1>1, <1>2, Quotient
<1>4. q < Len(chain)
      BY <1>1, <1>2, QuotientBelow
<1>5. r + 1 < ClusterUnits
      BY DEF SlotIndex
<1> HIDE DEF q, r
<1>6. PICK k \in Nat : Len(chain) = q + 1 + k
  <2> DEFINE k == Len(chain) - (q + 1)
  <2>1. k \in Nat /\ Len(chain) = q + 1 + k
        BY <1>3, <1>4
  <2> HIDE DEF k
  <2> QED BY <2>1
<1>7. /\ Len(chain) * ClusterUnits = ClusterUnits * q + ClusterUnits + ClusterUnits * k
      /\ ClusterUnits * q \in Nat /\ ClusterUnits * k \in Nat
      BY <1>1, <1>3, <1>6
<1> QED BY <1>1, <1>2, <1>3, <1>5, <1>7

LEMMA UnitsAreSeq ==
    ASSUME NEW d, NEW chain, Len(chain) \in Nat
    PROVE  /\ Len(Units(d, chain)) = Len(chain) * ClusterUnits
           /\ Len(Units(d, chain)) \in Nat
           /\ Units(d, chain) \in Seq({Units(d, chain)[n] : n \in DOMAIN Units(d, chain)})
<1> DEFINE m == Len(chain) * ClusterUnits
           f == [n \in 1 .. m |-> d.data[SlotCluster(chain, n)][SlotIndex(n)]]
<1>1. m \in Nat
      BY FatAssumption
<1>2. Units(d, chain) = f
      BY DEF Units
<1>3. DOMAIN f = 1 .. m /\ f = [n \in 1 .. m |-> f[n]]
      OBVIOUS
<1> HIDE DEF m, f
<1>4. f \in Seq({f[n] : n \in 1 .. m}) /\ Len(f) = m
      BY <1>1, <1>3
<1> QED BY <1>1, <1>2, <1>3, <1>4 DEF m

LEMMA MinIsOne ==
    ASSUME NEW I \in SUBSET Nat, I # {}
    PROVE  Min(I) \in I
<1>1. \E x \in I : \A y \in I : x <= y
      BY Least
<1> QED BY <1>1 DEF Min

LEMMA BeforeEndOf ==
    ASSUME NEW S, NEW units \in Seq(S)
    PROVE  /\ BeforeEnd(units) \in Seq(S)
           /\ Len(BeforeEnd(units)) <= Len(units)
           /\ \A n \in 1 .. Len(BeforeEnd(units)) : BeforeEnd(units)[n] = units[n]
<1> DEFINE I == {i \in 1 .. Len(units) : units[i] = END}
           k == SelectInSeq(units, LAMBDA u : u = END)
<1>1. k = IF I # {} THEN Min(I) ELSE 0
      BY DEF SelectInSeq
<1>2. I \in SUBSET Nat
      OBVIOUS
<1>3. k = 0 \/ k \in I
  <2> HIDE DEF I, k
  <2> QED BY <1>1, <1>2, MinIsOne
<1>4. BeforeEnd(units) = IF k = 0 THEN units ELSE SubSeq(units, 1, k - 1)
      BY DEF BeforeEnd, Before
<1>5. CASE k = 0
      BY <1>4, <1>5
<1>6. CASE k \in 1 .. Len(units)
  <2> HIDE DEF k
  <2>1. BeforeEnd(units) = SubSeq(units, 1, k - 1)
        BY <1>4, <1>6
  <2>2. /\ SubSeq(units, 1, k - 1) \in Seq(S)
        /\ Len(SubSeq(units, 1, k - 1)) = k - 1
        /\ \A n \in 1 .. k - 1 : SubSeq(units, 1, k - 1)[n] = units[n]
        BY <1>6
  <2> QED BY <1>6, <2>1, <2>2
<1> QED BY <1>3, <1>5, <1>6
-----------------------------------------------------------------------------
(* Where the links lead.                                                   *)
LinkOf(d) ==
    [c \in 0 .. MaxCluster |-> IF c < 2 THEN 0
                               ELSE IF read_fat_entry(d, c) >= EOC_MIN THEN 0
                               ELSE read_fat_entry(d, c)]

(* The recursion of Followed has a function, on any number of steps.       *)
Follows(f, link, start, m) ==
    f = [n \in 1 .. m |-> IF n = 1 THEN start ELSE link[f[n - 1]]]

LEMMA LinksFollowed ==
    ASSUME NEW link, NEW start, NEW max \in Nat
    PROVE  \E f : Follows(f, link, start, max)
<1> DEFINE T == {m \in Nat : ~ \E f : Follows(f, link, start, m)}
<1>1. SUFFICES ASSUME T # {} PROVE FALSE
      OBVIOUS
<1>2. PICK m \in T : \A k \in T : m <= k
  <2>1. T \in SUBSET Nat
        OBVIOUS
  <2> HIDE DEF T
  <2> QED BY <1>1, <2>1, Least
<1>3. m \in Nat /\ ~ \E f : Follows(f, link, start, m)
      OBVIOUS
<1>4. CASE m = 0
  <2> DEFINE g == [n \in 1 .. m |-> start]
             h == [n \in 1 .. m |-> IF n = 1 THEN start ELSE link[g[n - 1]]]
  <2>1. 1 .. m = {}
        BY <1>4
  <2>2. g = h
        BY <2>1
  <2>3. Follows(g, link, start, m)
        BY <2>2 DEF Follows
  <2> QED BY <1>3, <2>3
<1>5. CASE m # 0
  <2>1. m - 1 \in Nat /\ m - 1 \notin T
        BY <1>2, <1>3, <1>5
  <2>2. PICK f : Follows(f, link, start, m - 1)
        BY <2>1
  <2> DEFINE g == [n \in 1 .. m |-> IF n = 1 THEN start ELSE link[f[n - 1]]]
  <2>3. \A n \in 1 .. m - 1 : g[n] = f[n]
        BY <1>3, <2>1, <2>2 DEF Follows
  <2>4. \A n \in 1 .. m : n # 1 => n - 1 \in 1 .. m - 1
        BY <1>3
  <2>5. \A n \in 1 .. m : g[n] = IF n = 1 THEN start ELSE link[g[n - 1]]
        BY <2>3, <2>4
  <2>6. Follows(g, link, start, m)
        BY <2>5 DEF Follows
  <2> QED BY <1>3, <2>6
<1> QED BY <1>4, <1>5

LEMMA FollowedIs ==
    ASSUME NEW d, NEW start, NEW max \in Nat
    PROVE  LET f == Followed(d, start, max)
           IN  /\ DOMAIN f = 1 .. max
               /\ \A n \in 1 .. max : f[n] = IF n = 1 THEN start ELSE LinkOf(d)[f[n - 1]]
<1>1. Followed(d, start, max) = CHOOSE f : Follows(f, LinkOf(d), start, max)
      BY DEF Followed, LinkOf, Follows
<1>2. Follows(Followed(d, start, max), LinkOf(d), start, max)
      BY <1>1, LinksFollowed
<1> QED BY <1>2 DEF Follows
LEMMA LinkIs ==
    ASSUME NEW d, IsVolume(d), InRange(d), NEW c \in 0 .. MaxCluster
    PROVE  LinkOf(d)[c] = IF c \in Clusters /\ read_fat_entry(d, c) \in Clusters
                          THEN read_fat_entry(d, c) ELSE 0
<1>1. c \in Clusters <=> ~ (c < 2)
      BY FatAssumption DEF Clusters
<1>2. c \in Clusters => read_fat_entry(d, c) \in {0} \cup Clusters \cup EOC_MIN .. EOC
      BY FatAssumption DEF InRange, FatValue, FREE, read_fat_entry
<1>3. \A v \in Clusters : v \in Nat /\ ~ (v >= EOC_MIN)
      BY FatAssumption, MarkAssumption, SMT DEF Clusters, EOC_MIN
<1>4. \A v \in EOC_MIN .. EOC : v >= EOC_MIN /\ v \notin Clusters
      BY FatAssumption, MarkAssumption, SMT DEF Clusters, EOC_MIN, EOC
<1>5. ~ (0 >= EOC_MIN) /\ 0 \notin Clusters
      BY SMT DEF EOC_MIN, Clusters
<1> QED BY <1>1, <1>2, <1>3, <1>4, <1>5 DEF LinkOf

(* A chain: it follows the links from start, up to the last one or to max. *)
IsChain(d, start, max, s) ==
    /\ Len(s) \in 0 .. max /\ DOMAIN s = 1 .. Len(s)
    /\ start < 2 => Len(s) = 0
    /\ start >= 2 => Len(s) >= 1 /\ s[1] = start
    /\ \A k \in 1 .. Len(s) : s[k] \in Clusters
    /\ \A k \in 1 .. Len(s) : k + 1 <= Len(s) => s[k + 1] = read_fat_entry(d, s[k])
    /\ Len(s) \in 1 .. max - 1 => read_fat_entry(d, s[Len(s)]) \notin Clusters

LEMMA LinksAreChain ==
    ASSUME NEW d, IsVolume(d), InRange(d), NEW start \in 0 .. MaxCluster,
           NEW max \in Nat \ {0}
    PROVE  IsChain(d, start, max, Links(d, start, max))
<1> DEFINE at == Followed(d, start, max)
           B  == {k \in 1 .. max : at[k] >= 2}
           Z  == {k \in 1 .. max : ~ (at[k] \in 0 .. MaxCluster)}
           link == LinkOf(d)
<1> HIDE DEF at, link
<1>1. DOMAIN at = 1 .. max /\ \A n \in 1 .. max : at[n] = IF n = 1 THEN start ELSE link[at[n - 1]]
      BY FollowedIs DEF at, link
<1>2. \A c \in 0 .. MaxCluster :
         link[c] = IF c \in Clusters /\ read_fat_entry(d, c) \in Clusters
                   THEN read_fat_entry(d, c) ELSE 0
      BY LinkIs DEF link
<1>3. \A v : v \in Clusters <=> v \in 0 .. MaxCluster /\ v >= 2
      BY FatAssumption DEF Clusters
<1>4. \A n \in 1 .. max : at[n] \in 0 .. MaxCluster
  <2>1. SUFFICES ASSUME Z # {} PROVE FALSE
        OBVIOUS
  <2>2. PICK z \in Z : \A y \in Z : z <= y
    <3>1. Z \in SUBSET Nat
          OBVIOUS
    <3> HIDE DEF Z
    <3> QED BY <2>1, <3>1, Least
  <2>3. z # 1
        BY <1>1
  <2>4. z - 1 \in 1 .. max /\ at[z - 1] \in 0 .. MaxCluster /\ at[z] = link[at[z - 1]]
        BY <1>1, <2>2, <2>3
  <2>5. link[at[z - 1]] \in 0 .. MaxCluster
        BY <1>2, <1>3, <2>4, FatAssumption
  <2> QED BY <2>4, <2>5
<1> HIDE DEF Z
<1>5. PICK m \in 0 .. max : B = 1 .. m
  <2> DEFINE L == {k \in 1 .. max : at[k] < 2}
  <2>1. CASE L = {}
    <3>1. B = 1 .. max
          BY <1>4, <2>1
    <3> QED BY <3>1
  <2>2. CASE L # {}
    <3>1. PICK z \in L : \A y \in L : z <= y
      <4>1. L \in SUBSET Nat
            OBVIOUS
      <4> HIDE DEF L
      <4> QED BY <2>2, <4>1, Least
    <3> DEFINE W == {k \in z .. max : ~ (at[k] < 2)}
    <3>2. W = {}
      <4>1. SUFFICES ASSUME W # {} PROVE FALSE
            OBVIOUS
      <4>2. PICK w \in W : \A y \in W : w <= y
        <5>1. W \in SUBSET Nat
              OBVIOUS
        <5> HIDE DEF W
        <5> QED BY <4>1, <5>1, Least
      <4>3. w # z /\ w - 1 \in z .. max /\ at[w - 1] < 2 /\ w \in 2 .. max
            BY <3>1, <4>2
      <4>4. at[w - 1] \in 0 .. MaxCluster /\ at[w - 1] \notin Clusters /\ at[w] = link[at[w - 1]]
            BY <1>1, <1>3, <1>4, <4>3
      <4>5. at[w] = 0
            BY <1>2, <4>4
      <4> QED BY <4>2, <4>5
    <3> HIDE DEF W
    <3>3. \A k \in 1 .. max : at[k] >= 2 <=> k \in 1 .. z - 1
          BY <1>4, <3>1, <3>2 DEF W
    <3>4. B = 1 .. z - 1 /\ z - 1 \in 0 .. max
          BY <3>1, <3>3
    <3> QED BY <3>4
  <2> QED BY <2>1, <2>2
<1>6. Cardinality(B) = m
  <2>1. Cardinality(1 .. m) = m
        BY FS_Interval
  <2> QED BY <1>5, <2>1
<1> DEFINE s == [n \in 1 .. m |-> at[n]]
<1>7. Links(d, start, max) = s
      BY <1>6 DEF Links, at
<1> HIDE DEF B
<1>8. DOMAIN s = 1 .. m /\ Len(s) = m /\ \A n \in 1 .. m : s[n] = at[n]
      OBVIOUS
<1> HIDE DEF s
<1>9. \A k \in 1 .. max : at[k] \in Clusters <=> k \in 1 .. m
      BY <1>3, <1>4, <1>5 DEF B
<1>10. 1 \in 1 .. max /\ at[1] = start
      BY <1>1
<1>11. \A k \in 1 .. max : k + 1 <= max => at[k + 1] = link[at[k]]
      BY <1>1
<1>12. \A k \in 1 .. m : k + 1 <= m => at[k + 1] = read_fat_entry(d, at[k])
  <2> SUFFICES ASSUME NEW k \in 1 .. m, k + 1 <= m PROVE at[k + 1] = read_fat_entry(d, at[k])
      OBVIOUS
  <2>1. k \in 1 .. max /\ k + 1 \in 1 .. m /\ at[k + 1] \in Clusters /\ at[k + 1] = link[at[k]]
        BY <1>5, <1>9, <1>11
  <2>2. 0 \notin Clusters
        BY DEF Clusters
  <2> QED BY <1>2, <1>4, <2>1, <2>2
<1>13. m \in 1 .. max - 1 => read_fat_entry(d, at[m]) \notin Clusters
  <2> SUFFICES ASSUME m \in 1 .. max - 1 PROVE read_fat_entry(d, at[m]) \notin Clusters
      OBVIOUS
  <2>1. m \in 1 .. max /\ m + 1 <= max /\ at[m + 1] = link[at[m]] /\ m + 1 \in 1 .. max
        BY <1>11
  <2>2. at[m] \in Clusters /\ at[m + 1] \notin Clusters
        BY <1>9, <2>1
  <2> QED BY <1>2, <1>4, <2>1, <2>2
<1>14. (start < 2 => m = 0) /\ (start >= 2 => m >= 1)
      BY <1>3, <1>5, <1>9, <1>10
<1>15. \A k \in 1 .. m : at[k] \in Clusters
      BY <1>9
<1> QED BY <1>7, <1>8, <1>10, <1>12, <1>13, <1>14, <1>15 DEF IsChain
-----------------------------------------------------------------------------
(* Chains that begin in a set D whose links stay there, none two to the    *)
(* same cluster.                                                           *)
Closed(d, D) ==
    D \subseteq Clusters /\ \A c \in D : read_fat_entry(d, c) \in Clusters => read_fat_entry(d, c) \in D

LEMMA ChainInside ==
    ASSUME NEW d, NEW D, Closed(d, D), NEW start \in D, NEW max \in Nat, NEW s,
           IsChain(d, start, max, s)
    PROVE  \A k \in 1 .. Len(s) : s[k] \in D
<1> DEFINE T == {k \in 1 .. Len(s) : s[k] \notin D}
<1>1. SUFFICES ASSUME T # {} PROVE FALSE
      OBVIOUS
<1>2. PICK k \in T : \A j \in T : k <= j
  <2>1. T \in SUBSET Nat
        OBVIOUS
  <2> HIDE DEF T
  <2> QED BY <1>1, <2>1, Least
<1>3. Len(s) \in Nat /\ start >= 2
      BY FatAssumption DEF IsChain, Closed, Clusters
<1>4. CASE k = 1
      BY <1>2, <1>3, <1>4 DEF IsChain
<1>5. CASE k # 1
  <2>1. k - 1 \in 1 .. Len(s) /\ (k - 1) + 1 = k /\ k <= Len(s) /\ k - 1 \notin T
        BY <1>2, <1>3, <1>5
  <2>2. s[k] = read_fat_entry(d, s[k - 1]) /\ s[k] \in Clusters
        BY <1>2, <2>1 DEF IsChain
  <2>3. s[k - 1] \in D
        BY <2>1
  <2> QED BY <1>2, <2>2, <2>3 DEF Closed
<1> QED BY <1>4, <1>5

(* A cluster of one chain is in no other place of it, and in no other chain.*)
LEMMA ChainsApart ==
    ASSUME NEW d, NEW D, Closed(d, D), Apart(d, D),
           NEW g \in Starts(d, D), NEW h \in Starts(d, D), NEW max \in Nat,
           NEW s, IsChain(d, g, max, s), NEW t, IsChain(d, h, max, t)
    PROVE  \A k \in 1 .. Len(s), l \in 1 .. Len(t) : s[k] = t[l] => k = l /\ g = h
<1> DEFINE T == {k \in 1 .. Len(s) : \E l \in 1 .. Len(t) : s[k] = t[l] /\ ~ (k = l /\ g = h)}
<1>1. SUFFICES ASSUME T # {} PROVE FALSE
      OBVIOUS
<1>2. PICK k \in T : \A j \in T : k <= j
  <2>1. T \in SUBSET Nat
        OBVIOUS
  <2> HIDE DEF T
  <2> QED BY <1>1, <2>1, Least
<1>3. PICK l \in 1 .. Len(t) : s[k] = t[l] /\ ~ (k = l /\ g = h)
      BY <1>2
<1>4. /\ Len(s) \in Nat /\ Len(t) \in Nat /\ g \in D /\ h \in D /\ g >= 2 /\ h >= 2
      BY FatAssumption DEF IsChain, Closed, Clusters, Starts
<1>5. (\A j \in 1 .. Len(s) : s[j] \in D) /\ (\A j \in 1 .. Len(t) : t[j] \in D)
      BY <1>4, ChainInside
<1>6. s[1] = g /\ t[1] = h
      BY <1>4 DEF IsChain
<1>7. \A j \in 2 .. Len(s) : j - 1 \in 1 .. Len(s) /\ s[j] = read_fat_entry(d, s[j - 1])
  <2> SUFFICES ASSUME NEW j \in 2 .. Len(s)
               PROVE  j - 1 \in 1 .. Len(s) /\ s[j] = read_fat_entry(d, s[j - 1])
      OBVIOUS
  <2>1. j - 1 \in 1 .. Len(s) /\ (j - 1) + 1 = j /\ (j - 1) + 1 <= Len(s)
        BY <1>4
  <2> QED BY <2>1 DEF IsChain
<1>8. \A j \in 2 .. Len(t) : j - 1 \in 1 .. Len(t) /\ t[j] = read_fat_entry(d, t[j - 1])
  <2> SUFFICES ASSUME NEW j \in 2 .. Len(t)
               PROVE  j - 1 \in 1 .. Len(t) /\ t[j] = read_fat_entry(d, t[j - 1])
      OBVIOUS
  <2>1. j - 1 \in 1 .. Len(t) /\ (j - 1) + 1 = j /\ (j - 1) + 1 <= Len(t)
        BY <1>4
  <2> QED BY <2>1 DEF IsChain
<1>9. k \in 1 .. Len(s)
      BY <1>2
<1>10. CASE k = 1 /\ l = 1
      BY <1>3, <1>6, <1>10
<1>11. CASE k = 1 /\ l # 1
  <2>1. l \in 2 .. Len(t)
        BY <1>4, <1>11
  <2>2. read_fat_entry(d, t[l - 1]) = g /\ t[l - 1] \in D
        BY <1>3, <1>5, <1>6, <1>8, <1>11, <2>1
  <2> QED BY <2>2 DEF Starts
<1>12. CASE k # 1 /\ l = 1
  <2>1. k \in 2 .. Len(s)
        BY <1>4, <1>9, <1>12
  <2>2. read_fat_entry(d, s[k - 1]) = h /\ s[k - 1] \in D
        BY <1>3, <1>5, <1>6, <1>7, <1>12, <2>1
  <2> QED BY <2>2 DEF Starts
<1>13. CASE k # 1 /\ l # 1
  <2>1. k \in 2 .. Len(s) /\ l \in 2 .. Len(t)
        BY <1>4, <1>9, <1>13
  <2>2. /\ k - 1 \in 1 .. Len(s) /\ l - 1 \in 1 .. Len(t)
        /\ s[k - 1] \in D /\ t[l - 1] \in D
        /\ read_fat_entry(d, s[k - 1]) = read_fat_entry(d, t[l - 1])
        /\ read_fat_entry(d, s[k - 1]) = s[k] /\ s[k] \in D
        BY <1>3, <1>5, <1>7, <1>8, <1>9, <2>1
  <2>3. s[k - 1] = t[l - 1]
        BY <2>2 DEF Apart, Closed
  <2>4. ~ (k - 1 = l - 1 /\ g = h)
        BY <1>3, <2>1
  <2>5. k - 1 \in T /\ ~ (k <= k - 1)
        BY <2>1, <2>2, <2>3, <2>4
  <2> QED BY <1>2, <2>5
<1> QED BY <1>3, <1>10, <1>11, <1>12, <1>13

(* A chain whose links are the same on another volume is the same there.   *)
Agree(s, t) == Len(s) = Len(t) /\ \A k \in 1 .. Len(s) : s[k] = t[k]

LEMMA SameChain ==
    ASSUME NEW d, NEW e, NEW D, Closed(d, D),
           \A c \in D : read_fat_entry(e, c) = read_fat_entry(d, c),
           NEW start \in D, NEW max \in Nat, NEW s, NEW t,
           IsChain(d, start, max, s), IsChain(e, start, max, t)
    PROVE  Agree(s, t)
<1> DEFINE T == {k \in 1 .. Len(s) : k <= Len(t) /\ s[k] # t[k]}
<1>1. Len(s) \in 1 .. max /\ Len(t) \in 1 .. max /\ s[1] = start /\ t[1] = start
      BY FatAssumption DEF IsChain, Closed, Clusters
<1>2. \A k \in 1 .. Len(s) : s[k] \in D
      BY ChainInside
<1>3. \A k \in 1 .. Len(s) : k <= Len(t) => s[k] = t[k]
  <2>1. SUFFICES ASSUME T # {} PROVE FALSE
        OBVIOUS
  <2>2. PICK k \in T : \A j \in T : k <= j
    <3>1. T \in SUBSET Nat
          OBVIOUS
    <3> HIDE DEF T
    <3> QED BY <2>1, <3>1, Least
  <2>3. k # 1
        BY <1>1, <2>2
  <2>4. /\ k - 1 \in 1 .. Len(s) /\ k - 1 \in 1 .. Len(t) /\ (k - 1) + 1 = k
        /\ k <= Len(s) /\ k <= Len(t) /\ k - 1 \notin T
        BY <1>1, <2>2, <2>3
  <2>5. s[k] = read_fat_entry(d, s[k - 1]) /\ t[k] = read_fat_entry(e, t[k - 1])
        BY <2>4 DEF IsChain
  <2>6. s[k - 1] = t[k - 1] /\ s[k - 1] \in D
        BY <1>2, <2>4
  <2> QED BY <2>2, <2>5, <2>6
<1>4. ~ (Len(s) < Len(t))
  <2> SUFFICES ASSUME Len(s) < Len(t) PROVE FALSE
      OBVIOUS
  <2>1. Len(s) \in 1 .. max - 1 /\ Len(s) \in 1 .. Len(t) /\ Len(s) + 1 <= Len(t)
        /\ Len(s) + 1 \in 1 .. Len(t) /\ Len(s) \in 1 .. Len(s)
        BY <1>1
  <2>2. read_fat_entry(d, s[Len(s)]) \notin Clusters
        BY <2>1 DEF IsChain
  <2>3. t[Len(s) + 1] = read_fat_entry(e, t[Len(s)]) /\ t[Len(s) + 1] \in Clusters
        BY <2>1 DEF IsChain
  <2>4. t[Len(s)] = s[Len(s)] /\ s[Len(s)] \in D
        BY <1>2, <1>3, <2>1
  <2> QED BY <2>2, <2>3, <2>4
<1>5. ~ (Len(t) < Len(s))
  <2> SUFFICES ASSUME Len(t) < Len(s) PROVE FALSE
      OBVIOUS
  <2>1. Len(t) \in 1 .. max - 1 /\ Len(t) \in 1 .. Len(s) /\ Len(t) + 1 <= Len(s)
        /\ Len(t) + 1 \in 1 .. Len(s) /\ Len(t) \in 1 .. Len(t)
        BY <1>1
  <2>2. read_fat_entry(e, t[Len(t)]) \notin Clusters
        BY <2>1 DEF IsChain
  <2>3. s[Len(t) + 1] = read_fat_entry(d, s[Len(t)]) /\ s[Len(t) + 1] \in Clusters
        BY <2>1 DEF IsChain
  <2>4. t[Len(t)] = s[Len(t)] /\ s[Len(t)] \in D
        BY <1>2, <1>3, <2>1
  <2> QED BY <2>2, <2>3, <2>4
<1>6. Len(s) = Len(t)
      BY <1>1, <1>4, <1>5
<1> QED BY <1>1, <1>3, <1>6 DEF Agree
LEMMA SameLinks ==
    ASSUME NEW d, IsVolume(d), InRange(d), NEW e, IsVolume(e), InRange(e),
           NEW D, Closed(d, D), \A c \in D : read_fat_entry(e, c) = read_fat_entry(d, c),
           NEW start \in {0, 1} \cup D, NEW max \in Nat \ {0}
    PROVE  Links(e, start, max) = Links(d, start, max)
<1>1. start \in 0 .. MaxCluster /\ (start \in D => start >= 2)
  <2>1. MaxCluster \in Nat /\ MaxCluster >= 2
        BY FatAssumption
  <2>2. CASE start \in D
    <3>1. start \in Clusters
          BY <2>2 DEF Closed
    <3> QED BY <2>1, <3>1 DEF Clusters
  <2>3. CASE start \notin D
    <3>1. start = 0 \/ start = 1
          BY <2>3
    <3> QED BY <2>1, <2>3, <3>1
  <2> QED BY <2>2, <2>3
<1>2. PICK s : s = Links(d, start, max)
      OBVIOUS
<1>3. PICK t : t = Links(e, start, max)
      OBVIOUS
<1>4. IsChain(d, start, max, s) /\ IsChain(e, start, max, t)
      BY <1>1, <1>2, <1>3, LinksAreChain
<1>5. PICK m \in Nat : \E f : s = [n \in 1 .. m |-> f[n]]
      BY <1>2, ChainLength
<1>6. PICK l \in Nat : \E f : t = [n \in 1 .. l |-> f[n]]
      BY <1>3, ChainLength
<1>7. Len(s) = m /\ Len(t) = l
      BY <1>5, <1>6, FunctionIsSeq
<1>8. Agree(s, t)
  <2>1. CASE start \in D
    <3>1. max \in Nat
          OBVIOUS
    <3> QED BY <1>4, <2>1, <3>1, SameChain
  <2>2. CASE start \in {0, 1}
    <3>1. start < 2
          BY <2>2
    <3>2. Len(s) = 0 /\ Len(t) = 0
          BY <1>4, <3>1 DEF IsChain
    <3> QED BY <3>2 DEF Agree
  <2> QED BY <2>1, <2>2
<1>9. m = l /\ \A n \in 1 .. m : s[n] = t[n]
      BY <1>7, <1>8 DEF Agree
<1>10. s = [n \in 1 .. m |-> s[n]] /\ t = [n \in 1 .. l |-> t[n]]
      BY <1>5, <1>6
<1>11. s = t
      BY <1>9, <1>10
<1> QED BY <1>2, <1>3, <1>11
-----------------------------------------------------------------------------
(* The i-th unit of the k-th cluster of a chain, as a unit of the chain.   *)
Pos(k, i) == (k - 1) * ClusterUnits + i

LEMMA QuotientIs ==
    ASSUME NEW c \in Nat \ {0}, NEW q \in Nat, NEW r \in 0 .. c - 1
    PROVE  (c * q + r) \div c = q /\ (c * q + r) % c = r
<1> DEFINE n == c * q + r
<1>1. c * q \in Nat /\ n \in Nat
      OBVIOUS
<1>2. n \div c \in Nat /\ n % c \in 0 .. c - 1 /\ n = c * (n \div c) + (n % c)
      BY <1>1, Quotient
<1>3. ~ (q < n \div c)
  <2> SUFFICES ASSUME q < n \div c PROVE FALSE
      OBVIOUS
  <2>1. PICK k \in Nat : n \div c = q + 1 + k
    <3>1. (n \div c) - (q + 1) \in Nat
          BY <1>2
    <3> QED BY <1>2, <3>1
  <2>2. c * (n \div c) = c * q + c + c * k /\ c * k \in Nat
        BY <2>1
  <2> QED BY <1>1, <1>2, <2>2
<1>4. ~ (n \div c < q)
  <2> SUFFICES ASSUME n \div c < q PROVE FALSE
      OBVIOUS
  <2>1. PICK k \in Nat : q = (n \div c) + 1 + k
    <3>1. q - ((n \div c) + 1) \in Nat
          BY <1>2
    <3> QED BY <1>2, <3>1
  <2>2. c * q = c * (n \div c) + c + c * k /\ c * k \in Nat /\ c * (n \div c) \in Nat
        BY <1>2, <2>1
  <2> QED BY <1>1, <1>2, <2>2
<1>5. n \div c = q
      BY <1>2, <1>3, <1>4
<1>6. n % c = r
      BY <1>1, <1>2, <1>5
<1> QED BY <1>5, <1>6

LEMMA PosIsSlot ==
    ASSUME NEW chain, Len(chain) \in Nat,
           NEW k \in 1 .. Len(chain), NEW i \in 1 .. ClusterUnits
    PROVE  /\ Pos(k, i) \in 1 .. Len(chain) * ClusterUnits
           /\ SlotCluster(chain, Pos(k, i)) = chain[k]
           /\ SlotIndex(Pos(k, i)) = i
<1> DEFINE c == ClusterUnits
<1>1. c \in Nat \ {0} /\ k - 1 \in Nat /\ i - 1 \in 0 .. c - 1
      BY FatAssumption
<1>2. Pos(k, i) - 1 = c * (k - 1) + (i - 1) /\ c * (k - 1) \in Nat
      BY <1>1 DEF Pos
<1>3. (c * (k - 1) + (i - 1)) \div c = k - 1 /\ (c * (k - 1) + (i - 1)) % c = i - 1
  <2> HIDE DEF c
  <2> QED BY <1>1, QuotientIs
<1>4. (Pos(k, i) - 1) \div c = k - 1 /\ (Pos(k, i) - 1) % c = i - 1
      BY <1>2, <1>3
<1>5. SlotCluster(chain, Pos(k, i)) = chain[k] /\ SlotIndex(Pos(k, i)) = i
  <2>1. (k - 1) + 1 = k /\ (i - 1) + 1 = i
        OBVIOUS
  <2> QED BY <1>4, <2>1 DEF SlotCluster, SlotIndex
<1>6. PICK l \in Nat : Len(chain) = k + l
  <2>1. Len(chain) - k \in Nat
        OBVIOUS
  <2> QED BY <2>1
<1>7. Len(chain) * c = c * (k - 1) + c + c * l /\ c * l \in Nat
      BY <1>1, <1>6
<1>8. Pos(k, i) \in 1 .. Len(chain) * ClusterUnits
      BY <1>1, <1>2, <1>7 DEF Pos
<1> QED BY <1>5, <1>8

LEMMA SlotIsPos ==
    ASSUME NEW chain, Len(chain) \in Nat, NEW n \in 1 .. Len(chain) * ClusterUnits
    PROVE  \E k \in 1 .. Len(chain), i \in 1 .. ClusterUnits :
               /\ n = Pos(k, i)
               /\ SlotCluster(chain, n) = chain[k] /\ SlotIndex(n) = i
<1> DEFINE q == (n - 1) \div ClusterUnits
           r == (n - 1) % ClusterUnits
<1>1. ClusterUnits \in Nat \ {0} /\ Len(chain) * ClusterUnits \in Nat
      BY FatAssumption
<1>2. n - 1 \in Nat /\ n - 1 < Len(chain) * ClusterUnits
      BY <1>1
<1>3. q \in Nat /\ r \in 0 .. ClusterUnits - 1 /\ n - 1 = ClusterUnits * q + r
      BY <1>1, <1>2, Quotient
<1>4. q < Len(chain)
      BY <1>1, <1>2, QuotientBelow
<1>5. SlotCluster(chain, n) = chain[q + 1] /\ SlotIndex(n) = r + 1
      BY DEF SlotCluster, SlotIndex
<1> HIDE DEF q, r
<1>6. q + 1 \in 1 .. Len(chain) /\ r + 1 \in 1 .. ClusterUnits
      BY <1>1, <1>3, <1>4
<1>7. n = Pos(q + 1, r + 1)
      BY <1>1, <1>3 DEF Pos
<1> QED BY <1>5, <1>6, <1>7

LEMMA PosOrder ==
    ASSUME NEW k \in Nat, NEW l \in Nat, NEW i \in 1 .. ClusterUnits, NEW j \in 1 .. ClusterUnits
    PROVE  Pos(k, i) <= Pos(l, j) <=> k < l \/ (k = l /\ i <= j)
<1> DEFINE c == ClusterUnits
<1>1. c \in Nat \ {0}
      BY FatAssumption
<1>2. ASSUME NEW a \in Nat, NEW b \in Nat, a < b, NEW x \in 1 .. c, NEW y \in 1 .. c
      PROVE  Pos(a, x) < Pos(b, y)
  <2>1. PICK m \in Nat : b = a + 1 + m
    <3>1. b - (a + 1) \in Nat
          BY <1>2
    <3> QED BY <3>1
  <2> HIDE DEF c
  <2>2. (b - 1) * c = (a - 1) * c + c + m * c /\ m * c \in Nat /\ (a - 1) * c \in Int
        BY <1>1, <2>1
  <2> QED BY <1>1, <1>2, <2>2 DEF Pos, c
<1>3. CASE k < l
      BY <1>2, <1>3, FatAssumption DEF Pos
<1>4. CASE l < k
  <2>1. Pos(l, j) < Pos(k, i)
        BY <1>2, <1>4
  <2>2. Pos(l, j) \in Int /\ Pos(k, i) \in Int
        BY FatAssumption DEF Pos
  <2> QED BY <1>4, <2>1, <2>2
<1>5. CASE k = l
  <2>1. (k - 1) * c \in Int
        BY <1>1
  <2> QED BY <1>1, <1>5, <2>1 DEF Pos
<1> QED BY <1>3, <1>4, <1>5
-----------------------------------------------------------------------------
(* The units of a chain, by cluster and index.                             *)
LEMMA UnitAt ==
    ASSUME NEW d, NEW chain, Len(chain) \in Nat,
           NEW k \in 1 .. Len(chain), NEW i \in 1 .. ClusterUnits
    PROVE  Units(d, chain)[Pos(k, i)] = d.data[chain[k]][i]
    BY PosIsSlot DEF Units

LEMMA MinIsLeast ==
    ASSUME NEW I \in SUBSET Nat, NEW n \in I
    PROVE  Min(I) <= n
<1>1. \E x \in I : \A y \in I : x <= y
      BY Least
<1> QED BY <1>1 DEF Min

(* The units before the end are those with no end mark up to them.         *)
LEMMA BeforeEndIs ==
    ASSUME NEW S, NEW units \in Seq(S), NEW n \in 1 .. Len(units)
    PROVE  n <= Len(BeforeEnd(units)) <=> \A m \in 1 .. n : units[m] # END
<1> DEFINE I == {i \in 1 .. Len(units) : units[i] = END}
           k == SelectInSeq(units, LAMBDA u : u = END)
<1>1. k = IF I # {} THEN Min(I) ELSE 0
      BY DEF SelectInSeq
<1>2. I \in SUBSET Nat
      OBVIOUS
<1>3. \A m \in 1 .. Len(units) : m \in I <=> units[m] = END
      OBVIOUS
<1>4. BeforeEnd(units) = IF k = 0 THEN units ELSE SubSeq(units, 1, k - 1)
      BY DEF BeforeEnd, Before
<1>5. I \subseteq 1 .. Len(units)
      OBVIOUS
<1> HIDE DEF I, k
<1>6. CASE I = {}
  <2>1. k = 0
        BY <1>1, <1>6
  <2>2. BeforeEnd(units) = units
        BY <1>4, <2>1
  <2>3. \A m \in 1 .. n : m \in 1 .. Len(units)
        OBVIOUS
  <2> QED BY <1>3, <1>6, <2>2, <2>3
<1>7. CASE I # {}
  <2>1. k \in I /\ \A m \in I : k <= m
        BY <1>1, <1>2, <1>7, MinIsOne, MinIsLeast
  <2>2. k \in 1 .. Len(units) /\ units[k] = END
        BY <1>3, <1>5, <2>1
  <2>3. Len(BeforeEnd(units)) = k - 1
        BY <1>4, <2>2
  <2>4. ~ (k <= n) => \A m \in 1 .. n : units[m] # END
        BY <1>3, <2>1, <2>2
  <2>5. k <= n => \E m \in 1 .. n : units[m] = END
        BY <2>2
  <2> QED BY <2>2, <2>3, <2>4, <2>5
<1> QED BY <1>6, <1>7

(* Behind a cluster with an end mark, all of a directory's begin with one. *)
LEMMA EndsFollow ==
    ASSUME NEW d, NEW D, EndsSound(d, D), Closed(d, D),
           NEW h \in D, NEW max \in Nat, NEW s, IsChain(d, h, max, s),
           NEW k \in 1 .. Len(s), NEW i \in 1 .. ClusterUnits, d.data[s[k]][i] = END
    PROVE  \A l \in 1 .. Len(s) : k < l => d.data[s[l]][1] = END
<1> DEFINE T == {l \in 1 .. Len(s) : k < l /\ d.data[s[l]][1] # END}
<1>1. SUFFICES ASSUME T # {} PROVE FALSE
      OBVIOUS
<1>2. PICK l \in T : \A j \in T : l <= j
  <2>1. T \in SUBSET Nat
        OBVIOUS
  <2> HIDE DEF T
  <2> QED BY <1>1, <2>1, Least
<1>3. l \in 1 .. Len(s) /\ k < l /\ d.data[s[l]][1] # END
      BY <1>2
<1>4. l - 1 \in 1 .. Len(s) /\ (l - 1) + 1 = l /\ l <= Len(s) /\ l - 1 \notin T
      BY <1>2
<1>5. s[l] = read_fat_entry(d, s[l - 1]) /\ s[l - 1] \in D /\ s[l] \in D
      BY <1>4, ChainInside DEF IsChain
<1>6. 1 \in 1 .. ClusterUnits
      BY FatAssumption
<1>7. l - 1 = k \/ k < l - 1
      BY <1>3, <1>4
<1>8. \E j \in 1 .. ClusterUnits : d.data[s[l - 1]][j] = END
  <2>1. CASE l - 1 = k
        BY <2>1
  <2>2. CASE k < l - 1
    <3>1. d.data[s[l - 1]][1] = END
          BY <1>4, <2>2
    <3> QED BY <1>6, <3>1
  <2> QED BY <1>7, <2>1, <2>2
<1> QED BY <1>3, <1>5, <1>8 DEF EndsSound

(* What is seen of a directory is what its clusters show.                  *)
LEMMA SeenIsShown ==
    ASSUME NEW d, NEW D, EndsSound(d, D), Closed(d, D),
           NEW h \in D, NEW max \in Nat, NEW s, IsChain(d, h, max, s),
           NEW k \in 1 .. Len(s), NEW i \in 1 .. ClusterUnits
    PROVE  Pos(k, i) <= Len(BeforeEnd(Units(d, s))) <=> Shown(d, s[k], i)
<1>1. Len(s) \in Nat
      BY DEF IsChain
<1> DEFINE units == Units(d, s)
           n     == Pos(k, i)
<1>2. n \in 1 .. Len(s) * ClusterUnits
      BY <1>1, PosIsSlot
<1>3. Len(units) = Len(s) * ClusterUnits
      BY <1>1, UnitsAreSeq
<1>4. PICK S : units \in Seq(S)
      BY <1>1, UnitsAreSeq
<1>5. n <= Len(BeforeEnd(units)) <=> \A m \in 1 .. n : units[m] # END
  <2> HIDE DEF units, n
  <2> QED BY <1>2, <1>3, <1>4, BeforeEndIs
<1>6. ASSUME \A m \in 1 .. n : units[m] # END
      PROVE  Shown(d, s[k], i)
  <2> SUFFICES ASSUME NEW j \in 1 .. i PROVE d.data[s[k]][j] # END
      BY DEF Shown
  <2>1. j \in 1 .. ClusterUnits /\ k \in Nat /\ j <= i
        BY FatAssumption
  <2>2. Pos(k, j) <= n
        BY <2>1, PosOrder
  <2>3. Pos(k, j) \in 1 .. n
        BY <1>1, <1>2, <2>1, <2>2, PosIsSlot
  <2>4. units[Pos(k, j)] # END
        BY <1>6, <2>3
  <2> QED BY <1>1, <2>1, <2>4, UnitAt
<1>7. ASSUME Shown(d, s[k], i), NEW m \in 1 .. n, units[m] = END
      PROVE  FALSE
  <2>1. m \in 1 .. Len(s) * ClusterUnits
    <3>1. Len(s) * ClusterUnits \in Nat
          BY <1>1, FatAssumption
    <3> HIDE DEF n
    <3> QED BY <1>2, <3>1
  <2>2. PICK l \in 1 .. Len(s), j \in 1 .. ClusterUnits : m = Pos(l, j)
        BY <1>1, <2>1, SlotIsPos
  <2>3. d.data[s[l]][j] = END
        BY <1>1, <1>7, <2>2, UnitAt
  <2>4. l < k \/ (l = k /\ j <= i)
    <3>1. Pos(l, j) <= Pos(k, i) /\ l \in Nat /\ k \in Nat
          BY <1>2, <2>2
    <3> QED BY <3>1, PosOrder
  <2>5. CASE l < k
    <3>1. d.data[s[k]][1] = END
          BY <2>3, <2>5, EndsFollow
    <3>2. 1 \in 1 .. i
          OBVIOUS
    <3> QED BY <1>7, <3>1, <3>2 DEF Shown
  <2>6. CASE l = k /\ j <= i
    <3>1. j \in 1 .. i
          BY <2>6
    <3> QED BY <1>7, <2>3, <2>6, <3>1 DEF Shown
  <2> QED BY <2>4, <2>5, <2>6
<1> QED BY <1>5, <1>6, <1>7
-----------------------------------------------------------------------------
(* Listings.  The first conjunct says where its entries come from, the     *)
(* second that none is left out, the third that no name is twice.          *)
Lists(d, chain, l) ==
    /\ \A n \in DOMAIN l :
          /\ n \in Nat
          /\ SlotCluster(chain, n) \in ToSet(chain) /\ SlotIndex(n) \in 1 .. ClusterUnits
          /\ ListedIn(d, SlotCluster(chain, n), SlotIndex(n))
          /\ l[n] = d.data[SlotCluster(chain, n)][SlotIndex(n)]
    /\ \A c \in ToSet(chain), i \in 1 .. ClusterUnits :
          ListedIn(d, c, i) => \E n \in DOMAIN l : l[n] = d.data[c][i]
    /\ \A m, n \in DOMAIN l : l[m].name = l[n].name => m = n

LEMMA ListIs ==
    ASSUME NEW d, NEW h
    PROVE  list_dir_cluster(d, h) = IF follow_chain(d, h).ok
                                    THEN Ok(Entries(BeforeEnd(Units(d, Chain(d, h)))))
                                    ELSE follow_chain(d, h)
<1>1. CASE follow_chain(d, h).ok
      BY <1>1, Followable DEF list_dir_cluster, Try
<1>2. CASE ~ follow_chain(d, h).ok
      BY <1>2 DEF list_dir_cluster, Try
<1> QED BY <1>1, <1>2

LEMMA SoundIsClosed ==
    ASSUME NEW d, NEW D, TableSound(d, D)
    PROVE  Closed(d, D) /\ Apart(d, D) /\ RootCluster \in Starts(d, D)
<1>1. EOC_MIN .. EOC \cap Clusters = {}
      BY FatAssumption, MarkAssumption, SMT DEF EOC_MIN, EOC, Clusters
<1>2. \A c \in D : read_fat_entry(d, c) \in Clusters => read_fat_entry(d, c) \in D
      BY <1>1 DEF TableSound
<1> QED BY <1>2 DEF TableSound, Closed

LEMMA StartsInRange ==
    ASSUME NEW d, NEW D, D \subseteq Clusters, NEW h \in Starts(d, D)
    PROVE  h \in D /\ h \in 0 .. MaxCluster /\ h >= 2
<1>1. h \in D
      BY DEF Starts
<1>2. h \in 2 .. MaxCluster
      BY <1>1 DEF Clusters
<1> QED BY <1>1, <1>2, FatAssumption

LEMMA DirChain ==
    ASSUME NEW d, IsVolume(d), InRange(d), NEW D, TableSound(d, D),
           NEW h \in Starts(d, D)
    PROVE  /\ IsChain(d, h, MaxChain, Chain(d, h))
           /\ \A c \in ToSet(Chain(d, h)) : c \in D
<1> DEFINE chain == Chain(d, h)
<1>1. Closed(d, D) /\ h \in D /\ h \in 0 .. MaxCluster
      BY SoundIsClosed, StartsInRange DEF TableSound
<1>2. MaxChain \in Nat \ {0} /\ MaxChain \in Nat
      BY FatAssumption
<1>3. IsChain(d, h, MaxChain, chain)
      BY <1>1, <1>2, LinksAreChain DEF Chain
<1> HIDE DEF chain
<1>4. \A k \in 1 .. Len(chain) : chain[k] \in D
      BY <1>1, <1>2, <1>3, ChainInside
<1>5. DOMAIN chain = 1 .. Len(chain)
      BY <1>3 DEF IsChain
<1>6. \A c \in ToSet(chain) : c \in D
      BY <1>4, <1>5 DEF ToSet
<1> QED BY <1>3, <1>6 DEF chain

LEMMA Listing ==
    ASSUME NEW d, IsVolume(d), InRange(d), NEW D, DirsSound(d, D),
           NEW h \in Starts(d, D)
    PROVE  Lists(d, Chain(d, h), Entries(BeforeEnd(Units(d, Chain(d, h)))))
<1>1. PICK s : s = Chain(d, h)
      OBVIOUS
<1>2. PICK units : units = Units(d, s)
      OBVIOUS
<1>3. PICK b : b = BeforeEnd(units)
      OBVIOUS
<1>4. PICK l : l = Entries(b)
      OBVIOUS
<1>5. Closed(d, D) /\ Apart(d, D) /\ h \in D /\ h \in 0 .. MaxCluster
      BY SoundIsClosed, StartsInRange DEF DirsSound, TableSound
<1>6. MaxChain \in Nat \ {0} /\ MaxChain \in Nat
      BY FatAssumption
<1>7. IsChain(d, h, MaxChain, s)
      BY <1>1, <1>5, <1>6, LinksAreChain DEF Chain
<1>8. Len(s) \in Nat /\ DOMAIN s = 1 .. Len(s)
      BY <1>7 DEF IsChain
<1>9. /\ b \in Seq({units[n] : n \in DOMAIN units}) /\ Len(b) <= Len(units)
      /\ \A n \in 1 .. Len(b) : b[n] = units[n]
      /\ Len(units) = Len(s) * ClusterUnits /\ Len(units) \in Nat
  <2>1. units \in Seq({units[n] : n \in DOMAIN units})
        BY <1>2, <1>8, UnitsAreSeq
  <2>2. Len(units) = Len(s) * ClusterUnits /\ Len(units) \in Nat
        BY <1>2, <1>8, UnitsAreSeq
  <2> QED BY <1>3, <2>1, <2>2, BeforeEndOf
<1>10. DOMAIN b = 1 .. Len(b) /\ Len(b) \in Nat
      BY <1>9
<1>11. DOMAIN l = {n \in 1 .. Len(b) : Parsed(b[n])} /\ \A n \in DOMAIN l : l[n] = b[n]
      BY <1>4, <1>10 DEF Entries
<1>12. ASSUME NEW n \in 1 .. Len(b)
       PROVE  \E k \in 1 .. Len(s), i \in 1 .. ClusterUnits :
                 /\ n = Pos(k, i) /\ SlotCluster(s, n) = s[k] /\ SlotIndex(n) = i
                 /\ b[n] = d.data[s[k]][i] /\ Shown(d, s[k], i)
  <2>1. n \in 1 .. Len(s) * ClusterUnits
        BY <1>9, <1>10
  <2>2. PICK k \in 1 .. Len(s), i \in 1 .. ClusterUnits :
              n = Pos(k, i) /\ SlotCluster(s, n) = s[k] /\ SlotIndex(n) = i
        BY <1>8, <2>1, SlotIsPos
  <2>3. b[n] = d.data[s[k]][i]
        BY <1>2, <1>8, <1>9, <2>2, UnitAt
  <2>4. Pos(k, i) <= Len(BeforeEnd(Units(d, s)))
        BY <1>2, <1>3, <2>2
  <2>5. Shown(d, s[k], i)
        BY <1>5, <1>6, <1>7, <2>4, SeenIsShown DEF DirsSound
  <2> QED BY <2>2, <2>3, <2>5
<1>13. ASSUME NEW n \in DOMAIN l
       PROVE  /\ n \in Nat
              /\ SlotCluster(s, n) \in ToSet(s) /\ SlotIndex(n) \in 1 .. ClusterUnits
              /\ ListedIn(d, SlotCluster(s, n), SlotIndex(n))
              /\ l[n] = d.data[SlotCluster(s, n)][SlotIndex(n)]
  <2>1. n \in 1 .. Len(b) /\ Parsed(b[n]) /\ l[n] = b[n]
        BY <1>11
  <2>2. PICK k \in 1 .. Len(s), i \in 1 .. ClusterUnits :
              /\ n = Pos(k, i) /\ SlotCluster(s, n) = s[k] /\ SlotIndex(n) = i
              /\ b[n] = d.data[s[k]][i] /\ Shown(d, s[k], i)
        BY <1>12, <2>1
  <2>3. s[k] \in ToSet(s)
        BY <1>8 DEF ToSet
  <2> QED BY <2>1, <2>2, <2>3 DEF ListedIn
<1>14. ASSUME NEW c \in ToSet(s), NEW i \in 1 .. ClusterUnits, ListedIn(d, c, i)
       PROVE  \E n \in DOMAIN l : l[n] = d.data[c][i]
  <2>1. PICK k \in 1 .. Len(s) : s[k] = c
        BY <1>8 DEF ToSet
  <2>2. PICK n : n = Pos(k, i)
        OBVIOUS
  <2>3. n \in 1 .. Len(s) * ClusterUnits
        BY <1>8, <2>2, PosIsSlot
  <2>4. n <= Len(BeforeEnd(Units(d, s)))
        BY <1>5, <1>6, <1>7, <1>14, <2>1, <2>2, SeenIsShown DEF DirsSound, ListedIn
  <2>5. n \in 1 .. Len(b)
        BY <1>2, <1>3, <1>9, <1>10, <2>3, <2>4
  <2>6. b[n] = d.data[c][i]
        BY <1>2, <1>8, <1>9, <2>1, <2>2, <2>5, UnitAt
  <2>7. n \in DOMAIN l /\ l[n] = b[n]
        BY <1>11, <1>14, <2>5, <2>6 DEF ListedIn
  <2> QED BY <2>6, <2>7
<1>15. ASSUME NEW m \in DOMAIN l, NEW n \in DOMAIN l, l[m].name = l[n].name
       PROVE  m = n
  <2>1. m \in 1 .. Len(b) /\ Parsed(b[m]) /\ l[m] = b[m] /\ n \in 1 .. Len(b) /\ Parsed(b[n]) /\ l[n] = b[n]
        BY <1>11
  <2>2. PICK k \in 1 .. Len(s), i \in 1 .. ClusterUnits :
              m = Pos(k, i) /\ b[m] = d.data[s[k]][i] /\ Shown(d, s[k], i)
        BY <1>12, <2>1
  <2>3. PICK g \in 1 .. Len(s), j \in 1 .. ClusterUnits :
              n = Pos(g, j) /\ b[n] = d.data[s[g]][j] /\ Shown(d, s[g], j)
        BY <1>12, <2>1
  <2>4. s[k] \in ToSet(s) /\ s[g] \in ToSet(s)
        BY <1>8 DEF ToSet
  <2>5. EntryIn(d, s[k], i) /\ EntryIn(d, s[g], j)
        BY <2>1, <2>2, <2>3 DEF EntryIn, Parsed
  <2>6. UniqueIn(d, h)
        BY DEF DirsSound, NamesSound
  <2>7. s[k] = s[g] /\ i = j
        BY <1>1, <1>15, <2>1, <2>2, <2>3, <2>4, <2>5, <2>6 DEF UniqueIn
  <2>8. k = g
        BY <1>5, <1>6, <1>7, <2>7, ChainsApart
  <2> QED BY <2>2, <2>3, <2>7, <2>8
<1>16. Lists(d, s, l)
      BY <1>13, <1>14, <1>15 DEF Lists
<1> QED BY <1>1, <1>2, <1>3, <1>4, <1>16
-----------------------------------------------------------------------------
(* Paths.  The recursion of Walk has a function, as that of Followed.      *)
Walks(f, d, path, m) ==
    f = [k \in 0 .. m |-> IF k = 0 THEN Ok(RootEntry)
                          ELSE open_part(d, f[k - 1], path[k])]

LEMMA PathWalked ==
    ASSUME NEW d, NEW path, NEW max \in Nat
    PROVE  \E f : Walks(f, d, path, max)
<1> DEFINE T == {m \in Nat : ~ \E f : Walks(f, d, path, m)}
<1>1. SUFFICES ASSUME T # {} PROVE FALSE
      OBVIOUS
<1>2. PICK m \in T : \A k \in T : m <= k
  <2>1. T \in SUBSET Nat
        OBVIOUS
  <2> HIDE DEF T
  <2> QED BY <1>1, <2>1, Least
<1>3. m \in Nat /\ ~ \E f : Walks(f, d, path, m)
      OBVIOUS
<1> DEFINE root == Ok(RootEntry)
<1> HIDE DEF root
<1>4. CASE m = 0
  <2> DEFINE g == [k \in 0 .. m |-> root]
             h == [k \in 0 .. m |-> IF k = 0 THEN root ELSE open_part(d, g[k - 1], path[k])]
  <2>1. \A k \in 0 .. m : k = 0
        BY <1>4
  <2>2. g = h
        BY <2>1
  <2>3. Walks(g, d, path, m)
        BY <2>2 DEF Walks, root
  <2> QED BY <1>3, <2>3
<1>5. CASE m # 0
  <2>1. m - 1 \in Nat /\ m - 1 \notin T
        BY <1>2, <1>3, <1>5
  <2>2. PICK f : Walks(f, d, path, m - 1)
        BY <2>1
  <2> DEFINE g == [k \in 0 .. m |-> IF k = 0 THEN root ELSE open_part(d, f[k - 1], path[k])]
             h == [k \in 0 .. m |-> IF k = 0 THEN root ELSE open_part(d, g[k - 1], path[k])]
  <2>3. f = [k \in 0 .. m - 1 |-> IF k = 0 THEN root ELSE open_part(d, f[k - 1], path[k])]
        BY <2>2 DEF Walks, root
  <2>4. \A k \in 0 .. m - 1 : g[k] = f[k]
        BY <1>3, <2>1, <2>3
  <2>5. \A k \in 0 .. m : k # 0 => k - 1 \in 0 .. m - 1
        BY <1>3
  <2>6. g = h
        BY <2>4, <2>5
  <2>7. Walks(g, d, path, m)
        BY <2>6 DEF Walks, root
  <2> QED BY <1>3, <2>7
<1> QED BY <1>4, <1>5

LEMMA WalkIs ==
    ASSUME NEW d, NEW path, Len(path) \in Nat
    PROVE  /\ Walk(d, path)[0] = Ok(RootEntry)
           /\ \A k \in 1 .. Len(path) : Walk(d, path)[k] = open_part(d, Walk(d, path)[k - 1], path[k])
<1>1. Walk(d, path) = CHOOSE f : Walks(f, d, path, Len(path))
      BY DEF Walk, Walks
<1>2. Walks(Walk(d, path), d, path, Len(path))
      BY <1>1, PathWalked
<1> DEFINE w == Walk(d, path)
<1> HIDE DEF w
<1>3. w = [k \in 0 .. Len(path) |->
              IF k = 0 THEN Ok(RootEntry) ELSE open_part(d, w[k - 1], path[k])]
      BY <1>2 DEF Walks, w
<1>4. 0 \in 0 .. Len(path) /\ \A k \in 1 .. Len(path) : k \in 0 .. Len(path) /\ k # 0
      OBVIOUS
<1>5. w[0] = Ok(RootEntry)
      BY <1>3, <1>4
<1>6. \A k \in 1 .. Len(path) : w[k] = open_part(d, w[k - 1], path[k])
      BY <1>3, <1>4
<1> QED BY <1>5, <1>6 DEF w

(* The first entry with a name is the only one.                            *)
LEMMA LookupIs ==
    ASSUME NEW d, NEW chain, NEW l, Lists(d, chain, l)
    PROVE  /\ \A n \in DOMAIN l : Lookup(l, l[n].name) = l[n]
           /\ \A name : \/ Lookup(l, name) = None
                        \/ \E n \in DOMAIN l : l[n].name = name /\ Lookup(l, name) = l[n]
<1>1. ASSUME NEW name, {n \in DOMAIN l : l[n].name = name} # {}
      PROVE  \E n \in DOMAIN l : l[n].name = name /\ Lookup(l, name) = l[n]
  <2> DEFINE found == {n \in DOMAIN l : l[n].name = name}
  <2>1. found \in SUBSET Nat
        BY DEF Lists
  <2>2. Min(found) \in found
    <3> HIDE DEF found
    <3> QED BY <1>1, <2>1, MinIsOne DEF found
  <2>3. Lookup(l, name) = l[Min(found)]
        BY <1>1 DEF Lookup
  <2>4. Min(found) \in DOMAIN l /\ l[Min(found)].name = name
        BY <2>2
  <2> QED BY <2>3, <2>4
<1>2. ASSUME NEW name, {n \in DOMAIN l : l[n].name = name} = {}
      PROVE  Lookup(l, name) = None
      BY <1>2 DEF Lookup
<1>3. ASSUME NEW n \in DOMAIN l
      PROVE  Lookup(l, l[n].name) = l[n]
  <2>1. PICK m \in DOMAIN l : l[m].name = l[n].name /\ Lookup(l, l[n].name) = l[m]
        BY <1>1
  <2>2. m = n
        BY <2>1 DEF Lists
  <2> QED BY <2>1, <2>2
<1>4. ASSUME NEW name
      PROVE  \/ Lookup(l, name) = None
             \/ \E n \in DOMAIN l : l[n].name = name /\ Lookup(l, name) = l[n]
      BY <1>1, <1>2
<1> QED BY <1>3, <1>4

(* A file's clusters, read as a directory, list nothing.                   *)
LEMMA FileListsNothing ==
    ASSUME NEW d, IsVolume(d), InRange(d), NEW D, DirsSound(d, D),
           NEW h \in Clusters \ D, follow_chain(d, h).ok
    PROVE  DOMAIN Entries(BeforeEnd(Units(d, Chain(d, h)))) = {}
<1>1. PICK s : s = Chain(d, h)
      OBVIOUS
<1>2. PICK units : units = Units(d, s)
      OBVIOUS
<1>3. Closed(d, Clusters \ D)
      BY DEF Closed, DirsSound, TableSound
<1>4. h \in 0 .. MaxCluster /\ ~ (h < 2) /\ h >= 2
      BY FatAssumption DEF Clusters
<1>5. MaxChain \in Nat \ {0} /\ MaxChain \in Nat
      BY FatAssumption
<1>6. IsChain(d, h, MaxChain, s)
      BY <1>1, <1>4, <1>5, LinksAreChain DEF Chain
<1>7. Len(s) \in Nat /\ Len(s) >= 1 /\ DOMAIN s = 1 .. Len(s)
      BY <1>4, <1>6 DEF IsChain
<1>8. \A k \in 1 .. Len(s) : s[k] \in Clusters \ D
      BY <1>3, <1>5, <1>6, ChainInside
<1>9. read_fat_entry(d, s[Len(s)]) # FREE
  <2>1. ~ (read_fat_entry(d, s[Len(s)]) < 2)
        BY <1>1, <1>4 DEF follow_chain, CheckEnd, Last, Err
  <2>2. FREE < 2
        BY DEF FREE
  <2> QED BY <2>1, <2>2
<1>10. \A k \in 1 .. Len(s) : read_fat_entry(d, s[k]) # FREE
  <2> SUFFICES ASSUME NEW k \in 1 .. Len(s) PROVE read_fat_entry(d, s[k]) # FREE
      OBVIOUS
  <2>1. CASE k = Len(s)
        BY <1>9, <2>1
  <2>2. CASE k # Len(s)
    <3>1. k + 1 <= Len(s) /\ k + 1 \in 1 .. Len(s)
      <4>1. Len(s) \in Nat
            BY <1>7
      <4> QED BY <2>2, <4>1
    <3>2. read_fat_entry(d, s[k]) \in Clusters
      <4>1. s[k + 1] = read_fat_entry(d, s[k])
            BY <1>6, <3>1 DEF IsChain
      <4>2. s[k + 1] \in Clusters
            BY <1>6, <3>1 DEF IsChain
      <4> QED BY <4>1, <4>2
    <3>3. FREE \notin Clusters
          BY FatAssumption DEF FREE, Clusters
    <3> QED BY <3>2, <3>3
  <2> QED BY <2>1, <2>2
<1>11. \A k \in 1 .. Len(s), i \in 1 .. ClusterUnits : ~ Parsed(d.data[s[k]][i])
      BY <1>8, <1>10 DEF DirsSound, FilesPlain
<1>12. \A n \in 1 .. Len(units) : ~ Parsed(units[n])
  <2> SUFFICES ASSUME NEW n \in 1 .. Len(units) PROVE ~ Parsed(units[n])
      OBVIOUS
  <2>1. n \in 1 .. Len(s) * ClusterUnits
        BY <1>2, <1>7, UnitsAreSeq
  <2>2. PICK k \in 1 .. Len(s), i \in 1 .. ClusterUnits : n = Pos(k, i)
        BY <1>7, <2>1, SlotIsPos
  <2> QED BY <1>2, <1>7, <1>11, <2>2, UnitAt
<1>13. /\ BeforeEnd(units) \in Seq({units[n] : n \in DOMAIN units})
       /\ Len(BeforeEnd(units)) <= Len(units) /\ Len(units) \in Nat
       /\ \A n \in 1 .. Len(BeforeEnd(units)) : BeforeEnd(units)[n] = units[n]
  <2>1. units \in Seq({units[n] : n \in DOMAIN units}) /\ Len(units) \in Nat
        BY <1>2, <1>7, UnitsAreSeq
  <2> QED BY <2>1, BeforeEndOf
<1>14. DOMAIN BeforeEnd(units) = 1 .. Len(BeforeEnd(units)) /\ Len(BeforeEnd(units)) \in Nat
      BY <1>13
<1>15. \A n \in DOMAIN BeforeEnd(units) : ~ Parsed(BeforeEnd(units)[n])
      BY <1>12, <1>13, <1>14
<1>16. DOMAIN Entries(BeforeEnd(units)) = {}
      BY <1>15 DEF Entries
<1> QED BY <1>1, <1>2, <1>16
-----------------------------------------------------------------------------
(* Where a path leads.                                                     *)
AtDir(r) == r.ok /\ r.val # None /\ is_dir(r.val)
LeadsSound(d, D, r) == r.ok /\ r.val # None => FirstSound(d, D, r.val)

LEMMA NoClusterNoList ==
    ASSUME NEW d, NEW h \in {0, 1}
    PROVE  ~ list_dir_cluster(d, h).ok
<1>1. ~ follow_chain(d, h).ok
      BY DEF follow_chain, Err
<1> QED BY <1>1, ListIs

(* A part of a path leads from a directory into D or to a file outside,    *)
(* and from a file nowhere.                                                *)
LEMMA PartLeads ==
    ASSUME NEW d, IsVolume(d), InRange(d), NEW D, DirsSound(d, D),
           NEW r, LeadsSound(d, D, r), NEW part
    PROVE  /\ LeadsSound(d, D, open_part(d, r, part))
           /\ AtDir(open_part(d, r, part)) => AtDir(r)
<1> DEFINE p == open_part(d, r, part)
           h == r.val.first_cluster
           l == list_dir_cluster(d, h)
           chain == Chain(d, h)
           entries == Entries(BeforeEnd(Units(d, chain)))
<1>1. CASE ~ (r.ok /\ r.val # None)
  <2>1. p = r
        BY <1>1 DEF open_part, TrySome
  <2> QED BY <2>1, <1>1 DEF AtDir
<1>2. CASE r.ok /\ r.val # None
  <2>1. p = IF l.ok THEN Ok(Lookup(l.val, part)) ELSE l
        BY <1>2 DEF open_part, TrySome, Try
  <2>2. l = IF follow_chain(d, h).ok THEN Ok(entries) ELSE follow_chain(d, h)
        BY ListIs
  <2>3. FirstSound(d, D, r.val)
        BY <1>2 DEF LeadsSound
  <2> HIDE DEF p, l, entries, chain
  <2>4. CASE ~ l.ok
        BY <2>1, <2>4 DEF LeadsSound, AtDir, p
  <2>5. CASE l.ok
    <3>1. follow_chain(d, h).ok /\ l.val = entries
          BY <2>2, <2>5 DEF Ok
    <3>2. h \notin {0, 1}
          BY <2>5, NoClusterNoList DEF l
    <3>3. p = Ok(Lookup(entries, part))
          BY <2>1, <2>5, <3>1
    <3>4. p.ok /\ p.val = Lookup(entries, part)
          BY <3>3 DEF Ok
    <3>5. CASE is_dir(r.val)
      <4>1. h \in Starts(d, D)
            BY <2>3, <3>2, <3>5 DEF FirstSound
      <4>2. Lists(d, chain, entries)
            BY <4>1, Listing DEF chain, entries
      <4>3. Lookup(entries, part) # None => FirstSound(d, D, Lookup(entries, part))
        <5> SUFFICES ASSUME Lookup(entries, part) # None
                     PROVE  FirstSound(d, D, Lookup(entries, part))
            OBVIOUS
        <5>1. PICK n \in DOMAIN entries : Lookup(entries, part) = entries[n]
              BY <4>2, LookupIs
        <5>2. PICK c \in ToSet(chain), i \in 1 .. ClusterUnits :
                    ListedIn(d, c, i) /\ entries[n] = d.data[c][i]
              BY <4>2 DEF Lists
        <5>3. c \in D
              BY <4>1, <5>2, DirChain DEF DirsSound, chain
        <5>4. FirstSound(d, D, d.data[c][i])
              BY <5>2, <5>3 DEF DirsSound, EntriesSound
        <5> QED BY <5>1, <5>2, <5>4
      <4> QED BY <1>2, <3>4, <3>5, <4>3 DEF LeadsSound, AtDir, p
    <3>6. CASE ~ is_dir(r.val)
      <4>1. h \in Clusters \ D
            BY <2>3, <3>2, <3>6 DEF FirstSound
      <4>2. DOMAIN entries = {}
            BY <3>1, <4>1, FileListsNothing DEF entries, chain
      <4>3. Lookup(entries, part) = None
            BY <4>2 DEF Lookup
      <4> QED BY <3>4, <4>3 DEF LeadsSound, AtDir, p
    <3> QED BY <3>5, <3>6
  <2> QED BY <2>4, <2>5
<1> QED BY <1>1, <1>2
-----------------------------------------------------------------------------
(* Two volumes with the same directories: the clusters of D are linked the *)
(* same way and list the same entries of directories.                      *)
DirsKept(d, e, D) ==
    /\ \A c \in D : read_fat_entry(e, c) = read_fat_entry(d, c)
    /\ \A c \in D, i \in 1 .. ClusterUnits :
          /\ DirAt(d, c, i) => DirAt(e, c, i) /\ e.data[c][i] = d.data[c][i]
          /\ DirAt(e, c, i) => DirAt(d, c, i) /\ e.data[c][i] = d.data[c][i]

LEMMA KeptBack ==
    ASSUME NEW d, NEW e, NEW D, DirsKept(d, e, D)
    PROVE  DirsKept(e, d, D)
    BY DEF DirsKept

LEMMA KeptTwice ==
    ASSUME NEW d, NEW e, NEW f, NEW D, DirsKept(d, e, D), DirsKept(e, f, D)
    PROVE  DirsKept(d, f, D)
<1>1. \A c \in D : read_fat_entry(f, c) = read_fat_entry(d, c)
      BY DEF DirsKept
<1>2. ASSUME NEW c \in D, NEW i \in 1 .. ClusterUnits
      PROVE  /\ DirAt(d, c, i) => DirAt(f, c, i) /\ f.data[c][i] = d.data[c][i]
             /\ DirAt(f, c, i) => DirAt(d, c, i) /\ f.data[c][i] = d.data[c][i]
      BY DEF DirsKept
<1> QED BY <1>1, <1>2 DEF DirsKept

LEMMA KeptChains ==
    ASSUME NEW d, IsVolume(d), InRange(d), NEW e, IsVolume(e), InRange(e),
           NEW D, TableSound(d, D), DirsKept(d, e, D)
    PROVE  /\ Starts(e, D) = Starts(d, D)
           /\ \A h \in {0, 1} \cup D, max \in Nat \ {0} : Links(e, h, max) = Links(d, h, max)
           /\ \A h \in {0, 1} \cup D : Chain(e, h) = Chain(d, h)
<1>1. \A c \in D : read_fat_entry(e, c) = read_fat_entry(d, c)
      BY DEF DirsKept
<1>2. Starts(e, D) = Starts(d, D)
      BY <1>1 DEF Starts
<1>3. Closed(d, D)
      BY SoundIsClosed
<1>4. \A h \in {0, 1} \cup D, max \in Nat \ {0} : Links(e, h, max) = Links(d, h, max)
      BY <1>1, <1>3, SameLinks
<1>5. MaxChain \in Nat \ {0}
      BY FatAssumption
<1> QED BY <1>2, <1>4, <1>5 DEF Chain

(* A directory can be followed on one if on the other.                     *)
LEMMA KeptFollowed ==
    ASSUME NEW d, IsVolume(d), InRange(d), NEW e, IsVolume(e), InRange(e),
           NEW D, TableSound(d, D), DirsKept(d, e, D), NEW h \in {0, 1} \cup Starts(d, D)
    PROVE  follow_chain(e, h) = follow_chain(d, h)
<1> DEFINE chain == Chain(d, h)
<1>1. CASE h \in {0, 1}
      BY <1>1 DEF follow_chain
<1>2. CASE h \in Starts(d, D)
  <2>1. h \in D /\ h >= 2
        BY <1>2, StartsInRange DEF TableSound
  <2>2. Chain(e, h) = chain
        BY <2>1, KeptChains
  <2>3. IsChain(d, h, MaxChain, chain) /\ \A c \in ToSet(chain) : c \in D
        BY <1>2, DirChain
  <2> HIDE DEF chain
  <2>4. Len(chain) \in Nat /\ Len(chain) >= 1
        BY <2>1, <2>3 DEF IsChain
  <2>5. Len(chain) \in 1 .. Len(chain) /\ DOMAIN chain = 1 .. Len(chain)
        BY <2>3, <2>4 DEF IsChain
  <2>6. chain[Len(chain)] \in D
        BY <2>3, <2>5 DEF ToSet
  <2>7. read_fat_entry(e, Last(chain)) = read_fat_entry(d, Last(chain))
        BY <2>6 DEF DirsKept, Last
  <2> QED BY <2>2, <2>7 DEF follow_chain, CheckEnd, chain
<1> QED BY <1>1, <1>2

LEMMA KeptPart ==
    ASSUME NEW d, IsVolume(d), InRange(d), NEW e, IsVolume(e), InRange(e),
           NEW D, DirsSound(d, D), DirsSound(e, D), DirsKept(d, e, D),
           NEW r, LeadsSound(d, D, r), NEW part, AtDir(open_part(d, r, part))
    PROVE  open_part(e, r, part) = open_part(d, r, part)
<1> DEFINE h  == r.val.first_cluster
           ld == list_dir_cluster(d, h)
           le == list_dir_cluster(e, h)
           cd == Chain(d, h)
           ce == Chain(e, h)
           nd == Entries(BeforeEnd(Units(d, cd)))
           ne == Entries(BeforeEnd(Units(e, ce)))
<1>1. AtDir(r) /\ FirstSound(d, D, r.val)
      BY PartLeads DEF AtDir, LeadsSound
<1>2. /\ open_part(d, r, part) = IF ld.ok THEN Ok(Lookup(ld.val, part)) ELSE ld
      /\ open_part(e, r, part) = IF le.ok THEN Ok(Lookup(le.val, part)) ELSE le
      BY <1>1 DEF AtDir, open_part, TrySome, Try
<1>3. ld.ok
      BY <1>2 DEF AtDir
<1>4. h \in Starts(d, D)
  <2>1. h \notin {0, 1}
        BY <1>3, NoClusterNoList
  <2>2. h \in {0, 1} \cup Starts(d, D)
        BY <1>1 DEF AtDir, FirstSound
  <2> QED BY <2>1, <2>2
<1>5. /\ ld = IF follow_chain(d, h).ok THEN Ok(nd) ELSE follow_chain(d, h)
      /\ le = IF follow_chain(e, h).ok THEN Ok(ne) ELSE follow_chain(e, h)
  <2>1. ld = IF follow_chain(d, h).ok THEN Ok(nd) ELSE follow_chain(d, h)
        BY ListIs
  <2>2. le = IF follow_chain(e, h).ok THEN Ok(ne) ELSE follow_chain(e, h)
        BY ListIs
  <2> QED BY <2>1, <2>2
<1>6. follow_chain(e, h) = follow_chain(d, h)
  <2>1. TableSound(d, D) /\ h \in {0, 1} \cup Starts(d, D)
        BY <1>4 DEF DirsSound
  <2> HIDE DEF h
  <2> QED BY <2>1, KeptFollowed
<1>7. h \in D /\ h \in Starts(e, D) /\ ce = cd
      BY <1>4, StartsInRange, KeptChains DEF DirsSound, TableSound
<1>8. Lists(d, cd, nd) /\ Lists(e, ce, ne)
      BY <1>4, <1>7, Listing
<1>9. \A c \in ToSet(cd) : c \in D
      BY <1>4, DirChain DEF DirsSound
<1> HIDE DEF cd, ce, nd, ne, ld, le, h
<1>10. ld.val = nd /\ le.ok /\ le.val = ne
      BY <1>3, <1>5, <1>6 DEF Ok
<1>11. open_part(d, r, part) = Ok(Lookup(nd, part)) /\ open_part(e, r, part) = Ok(Lookup(ne, part))
      BY <1>2, <1>3, <1>10
<1>12. Lookup(nd, part) # None /\ is_dir(Lookup(nd, part))
      BY <1>11 DEF AtDir, Ok
<1>13. PICK n \in DOMAIN nd : nd[n].name = part /\ Lookup(nd, part) = nd[n]
      BY <1>8, <1>12, LookupIs
<1>14. PICK c \in ToSet(cd), i \in 1 .. ClusterUnits :
             ListedIn(d, c, i) /\ nd[n] = d.data[c][i]
      BY <1>8, <1>13 DEF Lists
<1>15. DirAt(e, c, i) /\ e.data[c][i] = d.data[c][i]
      BY <1>9, <1>12, <1>13, <1>14 DEF DirsKept, DirAt
<1>16. PICK m \in DOMAIN ne : ne[m] = e.data[c][i]
      BY <1>7, <1>8, <1>15 DEF Lists, DirAt
<1>17. ne[m] = nd[n] /\ Lookup(ne, ne[m].name) = ne[m]
      BY <1>8, <1>14, <1>15, <1>16, LookupIs
<1>18. Lookup(ne, part) = Lookup(nd, part)
      BY <1>13, <1>17
<1> QED BY <1>11, <1>18

LEMMA WalkLeads ==
    ASSUME NEW d, IsVolume(d), InRange(d), NEW D, DirsSound(d, D),
           NEW path, Len(path) \in Nat
    PROVE  \A k \in 0 .. Len(path) : LeadsSound(d, D, Walk(d, path)[k])
<1> DEFINE w == Walk(d, path)
           T == {k \in 0 .. Len(path) : ~ LeadsSound(d, D, w[k])}
<1>1. SUFFICES ASSUME T # {} PROVE FALSE
      OBVIOUS
<1>2. PICK k \in T : \A j \in T : k <= j
  <2>1. T \in SUBSET Nat
        OBVIOUS
  <2> HIDE DEF T
  <2> QED BY <1>1, <2>1, Least
<1>3. CASE k = 0
  <2>1. w[0].ok /\ w[0].val = RootEntry
    <3>1. w[0] = Ok(RootEntry)
          BY WalkIs
    <3> HIDE DEF w
    <3>2. \A v : Ok(v).ok /\ Ok(v).val = v
          BY DEF Ok
    <3> QED BY <3>1, <3>2
  <2>2. FirstSound(d, D, RootEntry)
    <3>1. is_dir(RootEntry) /\ RootEntry.first_cluster = RootCluster
          BY DEF RootEntry, Entry, is_dir
    <3> QED BY <3>1, SoundIsClosed DEF FirstSound, DirsSound
  <2> QED BY <1>2, <1>3, <2>1, <2>2 DEF LeadsSound
<1>4. CASE k # 0
  <2>1. k \in 1 .. Len(path) /\ k - 1 \in 0 .. Len(path) /\ k - 1 \notin T
        BY <1>2, <1>4
  <2>2. w[k] = open_part(d, w[k - 1], path[k]) /\ LeadsSound(d, D, w[k - 1])
        BY <2>1, WalkIs
  <2>3. LeadsSound(d, D, w[k])
    <3> HIDE DEF w
    <3> QED BY <2>2, PartLeads
  <2> QED BY <1>2, <2>3
<1> QED BY <1>3, <1>4

LEMMA KeptWalk ==
    ASSUME NEW d, IsVolume(d), InRange(d), NEW e, IsVolume(e), InRange(e),
           NEW D, DirsSound(d, D), DirsSound(e, D), DirsKept(d, e, D),
           NEW path, Len(path) \in Nat
    PROVE  \A k \in 0 .. Len(path) :
               AtDir(Walk(d, path)[k]) => Walk(e, path)[k] = Walk(d, path)[k]
<1> DEFINE v == Walk(d, path)
           w == Walk(e, path)
           T == {k \in 0 .. Len(path) : AtDir(v[k]) /\ w[k] # v[k]}
<1>1. SUFFICES ASSUME T # {} PROVE FALSE
      OBVIOUS
<1>2. PICK k \in T : \A j \in T : k <= j
  <2>1. T \in SUBSET Nat
        OBVIOUS
  <2> HIDE DEF T
  <2> QED BY <1>1, <2>1, Least
<1>3. CASE k = 0
  <2>1. w[0] = v[0]
        BY WalkIs
  <2> QED BY <1>2, <1>3, <2>1
<1>4. CASE k # 0
  <2>1. k \in 1 .. Len(path) /\ k - 1 \in 0 .. Len(path) /\ k - 1 \notin T
    <3>1. k \in 0 .. Len(path)
          BY <1>2
    <3>2. k \in 1 .. Len(path) /\ k - 1 \in 0 .. Len(path) /\ ~ (k <= k - 1)
          BY <1>4, <3>1
    <3> HIDE DEF T
    <3> QED BY <1>2, <3>2
  <2>2. v[k] = open_part(d, v[k - 1], path[k]) /\ w[k] = open_part(e, w[k - 1], path[k])
    <3>1. k \in 1 .. Len(path)
          BY <2>1
    <3>2. v[k] = open_part(d, v[k - 1], path[k])
          BY ONLY Len(path) \in Nat, <3>1, WalkIs
    <3>3. w[k] = open_part(e, w[k - 1], path[k])
          BY ONLY Len(path) \in Nat, <3>1, WalkIs
    <3> QED BY <3>2, <3>3
  <2>3. LeadsSound(d, D, v[k - 1])
        BY <2>1, WalkLeads
  <2>4. AtDir(v[k]) /\ w[k] # v[k] /\ (AtDir(v[k - 1]) => w[k - 1] = v[k - 1])
        BY <1>2, <2>1
  <2> HIDE DEF v, w, T
  <2>5. AtDir(v[k - 1])
        BY <2>2, <2>3, <2>4, PartLeads
  <2>6. open_part(e, v[k - 1], path[k]) = open_part(d, v[k - 1], path[k])
        BY <2>2, <2>3, <2>4, KeptPart
  <2> QED BY <2>2, <2>4, <2>5, <2>6
<1> QED BY <1>3, <1>4

(* The directory at a path begins in D, and is the same on both.           *)
LEMMA DirLeads ==
    ASSUME NEW d, IsVolume(d), InRange(d), NEW D, DirsSound(d, D),
           NEW path, Len(path) \in Nat, DirCluster(d, path).ok
    PROVE  DirCluster(d, path).val \in {0, 1} \cup Starts(d, D)
<1>1. CASE path = <<>>
      BY <1>1, SoundIsClosed DEF DirCluster, DirsSound, Ok
<1>2. CASE path # <<>>
  <2> DEFINE r == Walk(d, path)[Len(path)]
  <2>1. DirCluster(d, path) = Try(ok_or(r, "PathNotFound"), LAMBDA e :
            IF is_dir(e) THEN Ok(e.first_cluster) ELSE Err("NotADirectory"))
        BY <1>2 DEF DirCluster, open_path
  <2>2. LeadsSound(d, D, r)
        BY WalkLeads
  <2> HIDE DEF r
  <2>3. AtDir(r) /\ DirCluster(d, path).val = r.val.first_cluster
        BY <2>1 DEF Try, ok_or, Ok, Err, AtDir
  <2> QED BY <2>2, <2>3 DEF LeadsSound, FirstSound, AtDir
<1> QED BY <1>1, <1>2

LEMMA KeptDir ==
    ASSUME NEW d, IsVolume(d), InRange(d), NEW e, IsVolume(e), InRange(e),
           NEW D, DirsSound(d, D), DirsSound(e, D), DirsKept(d, e, D),
           NEW path, Len(path) \in Nat, DirCluster(d, path).ok
    PROVE  DirCluster(e, path) = DirCluster(d, path)
<1>1. CASE path = <<>>
      BY <1>1 DEF DirCluster
<1>2. CASE path # <<>>
  <2> DEFINE v == Walk(d, path)[Len(path)]
             w == Walk(e, path)[Len(path)]
  <2>1. /\ DirCluster(d, path) = Try(ok_or(v, "PathNotFound"), LAMBDA x :
               IF is_dir(x) THEN Ok(x.first_cluster) ELSE Err("NotADirectory"))
        /\ DirCluster(e, path) = Try(ok_or(w, "PathNotFound"), LAMBDA x :
               IF is_dir(x) THEN Ok(x.first_cluster) ELSE Err("NotADirectory"))
        BY <1>2 DEF DirCluster, open_path
  <2>2. AtDir(v) => w = v
        BY KeptWalk
  <2> HIDE DEF v, w
  <2>3. AtDir(v)
        BY <2>1 DEF Try, ok_or, Ok, Err, AtDir
  <2> QED BY <2>1, <2>2, <2>3
<1> QED BY <1>1, <1>2

(* A path of directories that leads somewhere leads there on both of two   *)
(* volumes with the same directories.                                      *)
SameDir(d, e, path) ==
    /\ DirCluster(e, path).ok <=> DirCluster(d, path).ok
    /\ DirCluster(d, path).ok =>
          Chain(e, DirCluster(e, path).val) = Chain(d, DirCluster(d, path).val)

LEMMA KeptDirChain ==
    ASSUME NEW d, IsVolume(d), InRange(d), NEW e, IsVolume(e), InRange(e),
           NEW D, DirsSound(d, D), DirsSound(e, D), DirsKept(d, e, D),
           NEW path, Len(path) \in Nat
    PROVE  SameDir(d, e, path)
<1>1. /\ DirCluster(d, path).ok => DirCluster(e, path) = DirCluster(d, path)
      /\ DirCluster(e, path).ok => DirCluster(e, path) = DirCluster(d, path)
      BY KeptDir, KeptBack
<1>2. CASE DirCluster(d, path).ok
  <2>1. PICK h : h = DirCluster(d, path).val /\ h = DirCluster(e, path).val
        BY <1>1, <1>2
  <2>2. h \in {0, 1} \cup D
        BY <1>2, <2>1, DirLeads DEF Starts
  <2>3. TableSound(d, D)
        BY DEF DirsSound
  <2>4. \A g \in {0, 1} \cup D : Chain(e, g) = Chain(d, g)
        BY <2>3, KeptChains
  <2> QED BY <1>1, <1>2, <2>1, <2>2, <2>4 DEF SameDir
<1>3. CASE ~ DirCluster(d, path).ok
      BY <1>1, <1>3 DEF SameDir
<1> QED BY <1>2, <1>3

(* What a path of directories lists is what its directory's clusters show. *)
LEMMA PathLists ==
    ASSUME NEW d, IsVolume(d), InRange(d), NEW D, DirsSound(d, D),
           NEW p, Len(p) \in Nat, list_dir_path(d, p).ok
    PROVE  LET h == DirCluster(d, p).val
           IN  h \in Starts(d, D) /\ Lists(d, Chain(d, h), list_dir_path(d, p).val)
<1>1. DirCluster(d, p).ok
      BY DEF list_dir_path, Try
<1>2. PICK h : h = DirCluster(d, p).val
      OBVIOUS
<1>3. list_dir_path(d, p) = list_dir_cluster(d, h)
      BY <1>1, <1>2 DEF list_dir_path, Try
<1>4. h \in Starts(d, D)
      BY <1>1, <1>2, <1>3, DirLeads, NoClusterNoList
<1>5. PICK l : l = Entries(BeforeEnd(Units(d, Chain(d, h))))
      OBVIOUS
<1>6. list_dir_cluster(d, h).val = l
  <2>1. list_dir_cluster(d, h) = Ok(l)
        BY <1>3, <1>5, ListIs
  <2>2. Ok(l).val = l
        BY DEF Ok
  <2> QED BY <2>1, <2>2
<1>7. Lists(d, Chain(d, h), l)
      BY <1>4, <1>5, Listing
<1> QED BY <1>2, <1>3, <1>4, <1>6, <1>7
-----------------------------------------------------------------------------
(* Reading.  The first parts of a path lead where the path of those parts  *)
(* leads.                                                                  *)
LEMMA WalkPrefix ==
    ASSUME NEW d, NEW path, Len(path) \in Nat, NEW p, Len(p) \in Nat, Len(p) <= Len(path),
           \A k \in 1 .. Len(p) : p[k] = path[k]
    PROVE  \A k \in 0 .. Len(p) : Walk(d, p)[k] = Walk(d, path)[k]
<1> DEFINE T == {k \in 0 .. Len(p) : Walk(d, p)[k] # Walk(d, path)[k]}
<1>1. SUFFICES ASSUME T # {} PROVE FALSE
      OBVIOUS
<1>2. PICK k \in T : \A j \in T : k <= j
  <2>1. T \in SUBSET Nat
        OBVIOUS
  <2> HIDE DEF T
  <2> QED BY <1>1, <2>1, Least
<1>3. k \in 0 .. Len(p) /\ Walk(d, p)[k] # Walk(d, path)[k]
      BY <1>2
<1>4. CASE k = 0
      BY <1>3, <1>4, WalkIs
<1>5. CASE k # 0
  <2>1. k \in 1 .. Len(p) /\ k \in 1 .. Len(path) /\ k - 1 \in 0 .. Len(p) /\ ~ (k <= k - 1)
        BY <1>3, <1>5
  <2>2. k - 1 \notin T
        BY <1>2, <2>1
  <2>3. Walk(d, p)[k - 1] = Walk(d, path)[k - 1]
        BY <2>1, <2>2
  <2>4. Walk(d, p)[k] = open_part(d, Walk(d, p)[k - 1], p[k])
        BY <2>1, WalkIs
  <2>5. Walk(d, path)[k] = open_part(d, Walk(d, path)[k - 1], path[k])
        BY <2>1, WalkIs
  <2> QED BY <1>3, <2>1, <2>3, <2>4, <2>5
<1> QED BY <1>4, <1>5

(* The entry with a name in a directory, and what is read there.           *)
Found(d, h, name) == Lookup(Entries(BeforeEnd(Units(d, Chain(d, h)))), name)
ReadIn(d, h, name) ==
    IF ~ follow_chain(d, h).ok THEN follow_chain(d, h)
    ELSE IF Found(d, h, name) = None THEN Ok(None) ELSE read_file(d, Found(d, h, name))

ReadEntry(d, r) == TrySome(r, LAMBDA e : read_file(d, e))

LEMMA PartFound ==
    ASSUME NEW d, NEW r, r.ok, r.val # None, NEW name,
           NEW h, h = r.val.first_cluster
    PROVE  ReadEntry(d, open_part(d, r, name)) = ReadIn(d, h, name)
<1> DEFINE l == list_dir_cluster(d, h)
           p == open_part(d, r, name)
           f == follow_chain(d, h)
<1>1. p = IF l.ok THEN Ok(Lookup(l.val, name)) ELSE l
      BY DEF open_part, TrySome, Try
<1>2. l = IF f.ok THEN Ok(Entries(BeforeEnd(Units(d, Chain(d, h))))) ELSE f
      BY ListIs
<1>3. \A v : Ok(v).ok /\ Ok(v).val = v
      BY DEF Ok
<1> HIDE DEF l, p
<1>4. CASE f.ok
  <2>1. l.ok /\ l.val = Entries(BeforeEnd(Units(d, Chain(d, h))))
        BY <1>2, <1>3, <1>4
  <2>2. p = Ok(Found(d, h, name))
        BY <1>1, <2>1 DEF Found
  <2>3. p.ok /\ p.val = Found(d, h, name)
        BY <1>3, <2>2
  <2>4. CASE Found(d, h, name) = None
    <3>1. ReadEntry(d, p) = p
          BY <2>3, <2>4 DEF ReadEntry, TrySome
    <3> QED BY <1>4, <2>2, <2>4, <3>1 DEF ReadIn, p
  <2>5. CASE Found(d, h, name) # None
    <3>1. ReadEntry(d, p) = read_file(d, Found(d, h, name))
          BY <2>3, <2>5 DEF ReadEntry, TrySome
    <3> QED BY <1>4, <2>5, <3>1 DEF ReadIn, p
  <2> QED BY <2>4, <2>5
<1>5. CASE ~ f.ok
  <2>1. p = f /\ ~ p.ok
        BY <1>1, <1>2, <1>5
  <2>2. ReadEntry(d, p) = p
        BY <2>1 DEF ReadEntry, TrySome
  <2> QED BY <1>5, <2>1, <2>2 DEF ReadIn, p
<1> QED BY <1>4, <1>5

LEMMA FrontIs ==
    ASSUME NEW s, IsSequence(s), s # <<>>, NEW p, p = SubSeq(s, 1, Len(s) - 1)
    PROVE  /\ Len(s) \in Nat /\ Len(s) >= 1 /\ Len(p) = Len(s) - 1
           /\ \A k \in 1 .. Len(p) : p[k] = s[k]
<1>1. PICK S : s \in Seq(S)
      BY DEF IsSequence
<1>2. PICK m : m = Len(s)
      OBVIOUS
<1>3. m \in Nat /\ m >= 1
      BY ONLY <1>1, <1>2, s # <<>>
<1>4. m \in 1 .. Len(s)
      BY <1>2, <1>3
<1>5. /\ Len(SubSeq(s, 1, m - 1)) = m - 1
      /\ \A k \in 1 .. m - 1 : SubSeq(s, 1, m - 1)[k] = s[k]
      BY ONLY <1>1, <1>4
<1> QED BY <1>2, <1>3, <1>5

LEMMA PathReads ==
    ASSUME NEW d, NEW path, Len(path) \in Nat, Len(path) >= 1,
           NEW p, Len(p) = Len(path) - 1, \A k \in 1 .. Len(p) : p[k] = path[k],
           DirCluster(d, p).ok, None # RootEntry
    PROVE  read_file_by_path(d, path) = ReadIn(d, DirCluster(d, p).val, path[Len(path)])
<1> DEFINE v == Walk(d, path)[Len(path) - 1]
           w == Walk(d, p)[Len(p)]
<1>1. Len(path) \in 1 .. Len(path) /\ Len(p) \in Nat /\ Len(p) <= Len(path)
      OBVIOUS
<1>2. Len(p) \in 0 .. Len(p)
      BY <1>1
<1>3. v = w
  <2>1. \A k \in 0 .. Len(p) : Walk(d, p)[k] = Walk(d, path)[k]
        BY <1>1, WalkPrefix
  <2> QED BY <1>2, <2>1
<1>4. Walk(d, path)[Len(path)] = open_part(d, v, path[Len(path)])
  <2>1. \A k \in 1 .. Len(path) :
           Walk(d, path)[k] = open_part(d, Walk(d, path)[k - 1], path[k])
        BY ONLY Len(path) \in Nat, WalkIs
  <2> QED BY <1>1, <2>1
<1>5. v.ok /\ v.val # None /\ v.val.first_cluster = DirCluster(d, p).val
  <2>1. CASE p = <<>>
    <3>1. w = Ok(RootEntry)
      <4>1. Len(p) = 0
            BY <2>1
      <4>2. Walk(d, p)[0] = Ok(RootEntry)
            BY <1>1, WalkIs
      <4> QED BY <4>1, <4>2
    <3>2. \A x : Ok(x).ok /\ Ok(x).val = x
          BY DEF Ok
    <3>3. w.ok /\ w.val = RootEntry
      <4> HIDE DEF w
      <4> QED BY <3>1, <3>2
    <3>4. DirCluster(d, p).val = RootCluster
          BY <2>1, <3>2 DEF DirCluster
    <3>5. RootEntry.first_cluster = RootCluster
          BY DEF RootEntry, Entry
    <3> HIDE DEF w, v
    <3> QED BY <1>3, <3>3, <3>4, <3>5
  <2>2. CASE p # <<>>
    <3>1. DirCluster(d, p) = Try(ok_or(w, "PathNotFound"), LAMBDA e :
            IF is_dir(e) THEN Ok(e.first_cluster) ELSE Err("NotADirectory"))
          BY <2>2 DEF DirCluster, open_path
    <3> HIDE DEF w, v
    <3>2. AtDir(w) /\ DirCluster(d, p).val = w.val.first_cluster
          BY <3>1 DEF Try, ok_or, Ok, Err, AtDir
    <3> QED BY <1>3, <3>2 DEF AtDir
  <2> QED BY <2>1, <2>2
<1> HIDE DEF v
<1>6. open_path(d, path) = open_part(d, v, path[Len(path)])
  <2>1. path # <<>>
        OBVIOUS
  <2> QED BY <1>4, <2>1 DEF open_path
<1>7. ReadEntry(d, open_part(d, v, path[Len(path)]))
          = ReadIn(d, DirCluster(d, p).val, path[Len(path)])
      BY <1>5, PartFound
<1> QED BY <1>6, <1>7 DEF read_file_by_path, ReadEntry

(* What is listed in a directory is found there, and nothing else.         *)
FindsListed(d, h) ==
    \A c \in ToSet(Chain(d, h)), i \in 1 .. ClusterUnits :
        ListedIn(d, c, i) => Found(d, h, d.data[c][i].name) = d.data[c][i]

FindsNamed(d, h, name) ==
    \E c \in ToSet(Chain(d, h)), i \in 1 .. ClusterUnits :
        /\ ListedIn(d, c, i) /\ d.data[c][i].name = name
        /\ Found(d, h, name) = d.data[c][i]

LEMMA FoundIs ==
    ASSUME NEW d, IsVolume(d), InRange(d), NEW D, DirsSound(d, D), NEW h \in Starts(d, D)
    PROVE  /\ FindsListed(d, h)
           /\ \A name : Found(d, h, name) = None \/ FindsNamed(d, h, name)
<1>1. PICK l : l = Entries(BeforeEnd(Units(d, Chain(d, h))))
      OBVIOUS
<1>2. \A name : Found(d, h, name) = Lookup(l, name)
      BY <1>1 DEF Found
<1>3. PICK s : s = Chain(d, h)
      OBVIOUS
<1>4. Lists(d, s, l)
      BY <1>1, <1>3, Listing
<1>5. ASSUME NEW c \in ToSet(s), NEW i \in 1 .. ClusterUnits, ListedIn(d, c, i)
      PROVE  Found(d, h, d.data[c][i].name) = d.data[c][i]
  <2>1. PICK n \in DOMAIN l : l[n] = d.data[c][i]
        BY <1>4, <1>5 DEF Lists
  <2>2. Lookup(l, l[n].name) = l[n]
        BY <1>4, LookupIs
  <2> QED BY <1>2, <2>1, <2>2
<1>6. ASSUME NEW name, Found(d, h, name) # None
      PROVE  \E c \in ToSet(s), i \in 1 .. ClusterUnits :
                /\ ListedIn(d, c, i) /\ d.data[c][i].name = name
                /\ Found(d, h, name) = d.data[c][i]
  <2>1. PICK n \in DOMAIN l : l[n].name = name /\ Found(d, h, name) = l[n]
        BY <1>2, <1>4, <1>6, LookupIs
  <2>2. PICK c \in ToSet(s), i \in 1 .. ClusterUnits :
              ListedIn(d, c, i) /\ l[n] = d.data[c][i]
        BY <1>4 DEF Lists
  <2> QED BY <2>1, <2>2
<1> QED BY <1>3, <1>5, <1>6 DEF FindsListed, FindsNamed

(* A slot that lists the same on two volumes, and one that lists no entry  *)
(* with a name on either.                                                  *)
SlotKept(d, e, c, i) ==
    /\ ListedIn(d, c, i) => ListedIn(e, c, i) /\ e.data[c][i] = d.data[c][i]
    /\ ListedIn(e, c, i) => ListedIn(d, c, i) /\ e.data[c][i] = d.data[c][i]
NotNamed(d, c, i, name) == ListedIn(d, c, i) => d.data[c][i].name # name

LEMMA SameFound ==
    ASSUME NEW d, IsVolume(d), InRange(d), NEW e, IsVolume(e), InRange(e),
           NEW D, DirsSound(d, D), DirsSound(e, D),
           NEW h, h \in Starts(d, D), h \in Starts(e, D), Chain(e, h) = Chain(d, h), NEW name,
           \A c \in ToSet(Chain(d, h)), i \in 1 .. ClusterUnits :
               SlotKept(d, e, c, i) \/ (NotNamed(d, c, i, name) /\ NotNamed(e, c, i, name))
    PROVE  Found(e, h, name) = Found(d, h, name)
<1>1. PICK S : S = ToSet(Chain(d, h)) /\ S = ToSet(Chain(e, h))
      OBVIOUS
<1>2. \A c \in S, i \in 1 .. ClusterUnits :
          ListedIn(d, c, i) => Found(d, h, d.data[c][i].name) = d.data[c][i]
      BY <1>1, FoundIs DEF FindsListed
<1>3. \A c \in S, i \in 1 .. ClusterUnits :
          ListedIn(e, c, i) => Found(e, h, e.data[c][i].name) = e.data[c][i]
      BY <1>1, FoundIs DEF FindsListed
<1>4. \A c \in S, i \in 1 .. ClusterUnits :
          SlotKept(d, e, c, i) \/ (NotNamed(d, c, i, name) /\ NotNamed(e, c, i, name))
      BY <1>1
<1>5. CASE Found(d, h, name) # None
  <2>1. PICK c \in S, i \in 1 .. ClusterUnits :
              /\ ListedIn(d, c, i) /\ d.data[c][i].name = name
              /\ Found(d, h, name) = d.data[c][i]
        BY <1>1, <1>5, FoundIs DEF FindsNamed
  <2>2. ListedIn(e, c, i) /\ e.data[c][i] = d.data[c][i]
        BY <1>4, <2>1 DEF SlotKept, NotNamed
  <2> QED BY <1>3, <2>1, <2>2
<1>6. CASE Found(e, h, name) # None
  <2>1. PICK c \in S, i \in 1 .. ClusterUnits :
              /\ ListedIn(e, c, i) /\ e.data[c][i].name = name
              /\ Found(e, h, name) = e.data[c][i]
        BY <1>1, <1>6, FoundIs DEF FindsNamed
  <2>2. ListedIn(d, c, i) /\ e.data[c][i] = d.data[c][i]
        BY <1>4, <2>1 DEF SlotKept, NotNamed
  <2> QED BY <1>2, <2>1, <2>2
<1> QED BY <1>5, <1>6

(* Clusters that no chain leaves, the same on two volumes: files in them   *)
(* read the same.                                                          *)
SameIn(d, e, E) ==
    \A c \in E : /\ read_fat_entry(e, c) = read_fat_entry(d, c)
                 /\ \A i \in 1 .. ClusterUnits : e.data[c][i] = d.data[c][i]

(* An entry whose file reads the same, and has the same clusters.          *)
SameFile(d, e, v) ==
    /\ read_file(e, v) = read_file(d, v)
    /\ Chain(e, v.first_cluster) = Chain(d, v.first_cluster)
    /\ WholeChain(e, v.first_cluster) = WholeChain(d, v.first_cluster)

LEMMA SameRead ==
    ASSUME NEW d, IsVolume(d), InRange(d), NEW e, IsVolume(e), InRange(e),
           NEW E, Closed(d, E), SameIn(d, e, E), NEW v, v.first_cluster \in {0, 1} \cup E
    PROVE  SameFile(d, e, v)
<1> SUFFICES read_file(e, v) = read_file(d, v)
  <2>1. MaxCluster \in Nat \ {0}
    <3>1. MaxCluster \in Nat /\ MaxCluster >= 2
          BY FatAssumption
    <3> QED BY ONLY <3>1
  <2>2. \A c \in E : read_fat_entry(e, c) = read_fat_entry(d, c)
        BY DEF SameIn
  <2>3. PICK h : h = v.first_cluster
        OBVIOUS
  <2>4. h \in {0, 1} \cup E /\ MaxCluster \in Nat \ {0}
        BY <2>1, <2>3
  <2>5. Links(e, h, MaxCluster) = Links(d, h, MaxCluster)
        BY <2>2, <2>4, SameLinks
  <2>6. MaxChain \in Nat \ {0}
        BY FatAssumption
  <2>7. Links(e, h, MaxChain) = Links(d, h, MaxChain)
        BY <2>2, <2>4, <2>6, SameLinks
  <2> QED BY <2>3, <2>5, <2>7 DEF SameFile, WholeChain, Chain
<1>1. PICK h : h = v.first_cluster
      OBVIOUS
<1>2. CASE h \in {0, 1}
  <2>1. follow_chain(d, h) = Err("InvalidCluster") /\ follow_chain(e, h) = Err("InvalidCluster")
        BY <1>2 DEF follow_chain
  <2>2. ~ Err("InvalidCluster").ok
        BY DEF Err
  <2>3. read_file(d, v) = IF ~ is_file(v) THEN Err("NotAFile")
                          ELSE IF v.size = 0 THEN Ok(<<>>) ELSE Err("InvalidCluster")
        BY <1>1, <2>1, <2>2 DEF read_file, Try
  <2>4. read_file(e, v) = IF ~ is_file(v) THEN Err("NotAFile")
                          ELSE IF v.size = 0 THEN Ok(<<>>) ELSE Err("InvalidCluster")
        BY <1>1, <2>1, <2>2 DEF read_file, Try
  <2> QED BY <2>3, <2>4
<1>3. CASE h \in E
  <2>1. PICK s : s = Chain(d, h)
        OBVIOUS
  <2>2. MaxChain \in Nat \ {0} /\ MaxChain \in Nat /\ h \in 0 .. MaxCluster /\ h >= 2
    <3>1. h \in Clusters
          BY <1>3 DEF Closed
    <3>2. MaxCluster \in Nat /\ MaxChain \in Nat \ {0}
          BY FatAssumption
    <3> QED BY ONLY <3>1, <3>2 DEF Clusters
  <2>3. IsChain(d, h, MaxChain, s)
        BY <2>1, <2>2, LinksAreChain DEF Chain
  <2>4. \A c \in E : read_fat_entry(e, c) = read_fat_entry(d, c)
        BY DEF SameIn
  <2>5. Links(e, h, MaxChain) = Links(d, h, MaxChain)
    <3>1. h \in {0, 1} \cup E /\ MaxChain \in Nat \ {0}
          BY <1>3, <2>2
    <3> QED BY <2>4, <3>1, SameLinks
  <2>6. Chain(e, h) = s
        BY <2>1, <2>5 DEF Chain
  <2>7. \A k \in 1 .. Len(s) : s[k] \in E
        BY <1>3, <2>2, <2>3, ChainInside
  <2>8. Len(s) \in Nat /\ DOMAIN s = 1 .. Len(s) /\ Len(s) >= 1 /\ Len(s) \in 1 .. Len(s)
        BY <2>2, <2>3 DEF IsChain
  <2>9. read_fat_entry(e, Last(s)) = read_fat_entry(d, Last(s))
        BY <2>4, <2>7, <2>8 DEF Last
  <2>10. follow_chain(e, h) = follow_chain(d, h)
        BY <2>1, <2>6, <2>9 DEF follow_chain, CheckEnd
  <2>11. Units(e, s) = Units(d, s)
    <3>1. \A n \in 1 .. Len(s) * ClusterUnits :
             e.data[SlotCluster(s, n)][SlotIndex(n)] = d.data[SlotCluster(s, n)][SlotIndex(n)]
      <4> SUFFICES ASSUME NEW n \in 1 .. Len(s) * ClusterUnits
                   PROVE  e.data[SlotCluster(s, n)][SlotIndex(n)]
                              = d.data[SlotCluster(s, n)][SlotIndex(n)]
          OBVIOUS
      <4>1. PICK k \in 1 .. Len(s), i \in 1 .. ClusterUnits :
                  SlotCluster(s, n) = s[k] /\ SlotIndex(n) = i
            BY <2>8, SlotIsPos
      <4> QED BY <2>7, <4>1 DEF SameIn
    <3> QED BY <3>1 DEF Units
  <2>12. CASE follow_chain(d, h).ok
    <3>1. follow_chain(d, h).val = s
          BY <2>1, <2>12, Followable
    <3>2. read_file(d, v) = IF ~ is_file(v) THEN Err("NotAFile")
                            ELSE IF v.size = 0 THEN Ok(<<>>) ELSE Ok(Cut(Units(d, s), v.size))
          BY <1>1, <2>12, <3>1 DEF read_file, Try
    <3>3. read_file(e, v) = IF ~ is_file(v) THEN Err("NotAFile")
                            ELSE IF v.size = 0 THEN Ok(<<>>) ELSE Ok(Cut(Units(e, s), v.size))
          BY <1>1, <2>10, <2>12, <3>1 DEF read_file, Try
    <3> QED BY <2>11, <3>2, <3>3
  <2>13. CASE ~ follow_chain(d, h).ok
    <3>1. read_file(d, v) = IF ~ is_file(v) THEN Err("NotAFile")
                            ELSE IF v.size = 0 THEN Ok(<<>>) ELSE follow_chain(d, h)
          BY <1>1, <2>13 DEF read_file, Try
    <3>2. read_file(e, v) = IF ~ is_file(v) THEN Err("NotAFile")
                            ELSE IF v.size = 0 THEN Ok(<<>>) ELSE follow_chain(d, h)
          BY <1>1, <2>10, <2>13 DEF read_file, Try
    <3> QED BY <3>1, <3>2
  <2> QED BY <2>12, <2>13
<1> QED BY <1>1, <1>2, <1>3

(* Two volumes on which paths read the same: every slot but those of X     *)
(* lists the same, and the files there read the same.                      *)
ReadsKept(d, e, D, X) ==
    \A c \in D, i \in 1 .. ClusterUnits :
        <<c, i>> \notin X =>
            /\ SlotKept(d, e, c, i)
            /\ ListedIn(d, c, i) /\ is_file(d.data[c][i])
               => SameFile(d, e, d.data[c][i])

Elsewhere(d, e, X, h, name) ==
    \A c \in ToSet(Chain(d, h)), i \in 1 .. ClusterUnits :
        <<c, i>> \in X => NotNamed(d, c, i, name) /\ NotNamed(e, c, i, name)

LEMMA SameReadIn ==
    ASSUME NEW d, IsVolume(d), InRange(d), NEW e, IsVolume(e), InRange(e),
           NEW D, DirsSound(d, D), DirsSound(e, D), DirsKept(d, e, D),
           NEW X, ReadsKept(d, e, D, X), NEW h \in {0, 1} \cup Starts(d, D), NEW name,
           Elsewhere(d, e, X, h, name)
    PROVE  ReadIn(e, h, name) = ReadIn(d, h, name)
<1>1. TableSound(d, D) /\ D \subseteq Clusters
      BY DEF DirsSound, TableSound
<1>2. follow_chain(e, h) = follow_chain(d, h)
      BY <1>1, KeptFollowed
<1>3. CASE ~ follow_chain(d, h).ok
      BY <1>2, <1>3 DEF ReadIn
<1>4. CASE follow_chain(d, h).ok
  <2>1. h \in Starts(d, D)
    <3>1. ASSUME h \in {0, 1} PROVE FALSE
      <4>1. follow_chain(d, h) = Err("InvalidCluster")
            BY <3>1 DEF follow_chain
      <4>2. ~ Err("InvalidCluster").ok
            BY DEF Err
      <4> QED BY <1>4, <4>1, <4>2
    <3> QED BY <3>1
  <2>2. h \in D /\ h \in Starts(e, D)
        BY <1>1, <2>1, KeptChains, StartsInRange
  <2>3. \A g \in {0, 1} \cup D : Chain(e, g) = Chain(d, g)
        BY <1>1, KeptChains
  <2>4. Chain(e, h) = Chain(d, h)
        BY <2>2, <2>3
  <2>5. PICK S : S = ToSet(Chain(d, h))
        OBVIOUS
  <2>6. \A c \in S : c \in D
        BY <1>1, <2>1, <2>5, DirChain
  <2>7. \A c \in S, i \in 1 .. ClusterUnits :
           SlotKept(d, e, c, i) \/ (NotNamed(d, c, i, name) /\ NotNamed(e, c, i, name))
        BY <2>5, <2>6 DEF ReadsKept, Elsewhere
  <2>8. Found(e, h, name) = Found(d, h, name)
        BY <2>1, <2>2, <2>4, <2>5, <2>7, SameFound
  <2>9. CASE Found(d, h, name) = None
        BY <1>2, <1>4, <2>8, <2>9 DEF ReadIn
  <2>10. CASE Found(d, h, name) # None
    <3>1. PICK v : v = Found(d, h, name)
          OBVIOUS
    <3>2. PICK c \in S, i \in 1 .. ClusterUnits :
                ListedIn(d, c, i) /\ d.data[c][i].name = name /\ v = d.data[c][i]
      <4>1. FindsNamed(d, h, name)
            BY <2>1, <2>10, FoundIs
      <4> QED BY ONLY <2>5, <3>1, <4>1 DEF FindsNamed
    <3>3. <<c, i>> \notin X /\ c \in D
          BY <2>5, <2>6, <3>2 DEF NotNamed, Elsewhere
    <3>4. read_file(e, v) = read_file(d, v)
      <4>1. CASE is_file(v)
            BY <3>2, <3>3, <4>1 DEF ReadsKept, SameFile
      <4>2. CASE ~ is_file(v)
            BY <4>2 DEF read_file
      <4> QED BY <4>1, <4>2
    <3>5. ReadIn(d, h, name) = read_file(d, v)
          BY <1>4, <2>10, <3>1 DEF ReadIn
    <3>6. ReadIn(e, h, name) = read_file(e, v)
          BY <1>2, <1>4, <2>8, <2>10, <3>1 DEF ReadIn
    <3> QED BY <3>4, <3>5, <3>6
  <2> QED BY <2>9, <2>10
<1> QED BY <1>3, <1>4

(* What is returned for a directory that cannot be read is an error.       *)
Fails(r) == ~ r.ok => r.err # "Ok"

LEMMA FollowFails ==
    ASSUME NEW d, NEW h
    PROVE  Fails(follow_chain(d, h))
<1>1. Fails(Err("InvalidCluster")) /\ \A v : Fails(Ok(v))
      BY DEF Fails, Err, Ok
<1> QED BY <1>1 DEF follow_chain, CheckEnd

LEMMA PartFails ==
    ASSUME NEW d, NEW r, Fails(r), NEW name
    PROVE  Fails(open_part(d, r, name))
<1>1. PICK h : h = r.val.first_cluster
      OBVIOUS
<1>2. PICK l : l = list_dir_cluster(d, h)
      OBVIOUS
<1>3. l = IF follow_chain(d, h).ok THEN Ok(Entries(BeforeEnd(Units(d, Chain(d, h)))))
          ELSE follow_chain(d, h)
      BY <1>2, ListIs
<1>4. \A v : Fails(Ok(v))
      BY DEF Fails, Ok
<1>5. Fails(l)
      BY <1>3, <1>4, FollowFails
<1>6. open_part(d, r, name) = IF r.ok /\ r.val # None
                              THEN IF l.ok THEN Ok(Lookup(l.val, name)) ELSE l
                              ELSE r
      BY <1>1, <1>2 DEF open_part, TrySome, Try
<1> QED BY <1>4, <1>5, <1>6

LEMMA WalkFails ==
    ASSUME NEW d, NEW path, Len(path) \in Nat
    PROVE  \A k \in 0 .. Len(path) : Fails(Walk(d, path)[k])
<1> DEFINE T == {k \in 0 .. Len(path) : ~ Fails(Walk(d, path)[k])}
<1>1. SUFFICES ASSUME T # {} PROVE FALSE
      OBVIOUS
<1>2. PICK k \in T : \A j \in T : k <= j
  <2>1. T \in SUBSET Nat
        OBVIOUS
  <2> HIDE DEF T
  <2> QED BY <1>1, <2>1, Least
<1>3. k \in 0 .. Len(path) /\ ~ Fails(Walk(d, path)[k])
      BY <1>2
<1>4. CASE k = 0
  <2>1. Walk(d, path)[0] = Ok(RootEntry)
        BY WalkIs
  <2>2. \A v : Fails(Ok(v))
        BY DEF Fails, Ok
  <2> QED BY <1>3, <1>4, <2>1, <2>2
<1>5. CASE k # 0
  <2>1. k \in 1 .. Len(path) /\ k - 1 \in 0 .. Len(path) /\ ~ (k <= k - 1)
        BY <1>3, <1>5
  <2>2. k - 1 \notin T
        BY <1>2, <2>1
  <2>3. Fails(Walk(d, path)[k - 1])
        BY <2>1, <2>2
  <2>4. Walk(d, path)[k] = open_part(d, Walk(d, path)[k - 1], path[k])
        BY <2>1, WalkIs
  <2> QED BY <1>3, <2>3, <2>4, PartFails
<1> QED BY <1>4, <1>5

LEMMA DirFails ==
    ASSUME NEW d, NEW path, Len(path) \in Nat
    PROVE  Fails(DirCluster(d, path))
<1>1. /\ Fails(Err("PathNotFound")) /\ Fails(Err("NotADirectory"))
      /\ \A v : Fails(Ok(v))
      BY DEF Fails, Err, Ok
<1>2. CASE path = <<>>
      BY <1>1, <1>2 DEF DirCluster
<1>3. CASE path # <<>>
  <2>1. PICK r : r = Walk(d, path)[Len(path)]
        OBVIOUS
  <2>2. Fails(r)
        BY <2>1, WalkFails
  <2>3. PICK o : o = ok_or(r, "PathNotFound")
        OBVIOUS
  <2>4. Fails(o)
        BY <1>1, <2>2, <2>3 DEF ok_or
  <2>5. DirCluster(d, path) = IF o.ok THEN
            (IF is_dir(o.val) THEN Ok(o.val.first_cluster) ELSE Err("NotADirectory"))
            ELSE o
        BY <1>3, <2>1, <2>3 DEF DirCluster, open_path, Try
  <2> QED BY <1>1, <2>4, <2>5
<1> QED BY <1>2, <1>3
-----------------------------------------------------------------------------
(* Chains to their very end.                                               *)
LEMMA WholeIsChain ==
    ASSUME NEW d, IsVolume(d), InRange(d), NEW start \in 0 .. MaxCluster,
           NEW s, s = Links(d, start, MaxCluster)
    PROVE  /\ IsChain(d, start, MaxCluster, s) /\ MaxCluster \in Nat
           /\ WholeChain(d, start) = {s[k] : k \in 1 .. Len(s)}
<1>1. MaxCluster \in Nat \ {0} /\ MaxCluster \in Nat
      BY FatAssumption
<1>2. IsChain(d, start, MaxCluster, s)
      BY <1>1, LinksAreChain
<1>3. DOMAIN s = 1 .. Len(s)
      BY <1>2 DEF IsChain
<1>4. ToSet(s) = {s[k] : k \in 1 .. Len(s)}
      BY <1>3 DEF ToSet
<1> QED BY <1>1, <1>2, <1>4 DEF WholeChain

LEMMA WholeInside ==
    ASSUME NEW d, IsVolume(d), InRange(d), NEW E, Closed(d, E), NEW start \in {0, 1} \cup E
    PROVE  /\ WholeChain(d, start) \subseteq E
           /\ start \in {0, 1} => WholeChain(d, start) = {}
<1>1. PICK s : s = Links(d, start, MaxCluster)
      OBVIOUS
<1>2. start \in 0 .. MaxCluster
  <2>1. MaxCluster \in Nat /\ MaxCluster >= 2
        BY FatAssumption
  <2> QED BY <2>1 DEF Closed, Clusters
<1>3. /\ IsChain(d, start, MaxCluster, s) /\ MaxCluster \in Nat
      /\ WholeChain(d, start) = {s[k] : k \in 1 .. Len(s)}
      BY <1>1, <1>2, WholeIsChain
<1>4. CASE start \in {0, 1}
  <2>1. Len(s) = 0
        BY <1>3, <1>4 DEF IsChain
  <2>2. {s[k] : k \in 1 .. Len(s)} = {}
        BY <2>1
  <2> QED BY <1>3, <2>2
<1>5. CASE start \in E
  <2>1. \A k \in 1 .. Len(s) : s[k] \in E
        BY <1>3, <1>5, ChainInside
  <2>2. start \notin {0, 1}
        BY <1>5 DEF Closed, Clusters
  <2> QED BY <1>3, <2>1, <2>2
<1> QED BY <1>4, <1>5

LEMMA WholeApart ==
    ASSUME NEW d, IsVolume(d), InRange(d), NEW E, Closed(d, E), Apart(d, E),
           NEW g \in Starts(d, E), NEW h \in Starts(d, E), g # h
    PROVE  WholeChain(d, g) \cap WholeChain(d, h) = {}
<1>1. PICK s : s = Links(d, g, MaxCluster)
      OBVIOUS
<1>2. PICK t : t = Links(d, h, MaxCluster)
      OBVIOUS
<1>3. g \in 0 .. MaxCluster /\ h \in 0 .. MaxCluster
      BY FatAssumption DEF Closed, Clusters, Starts
<1>4. /\ IsChain(d, g, MaxCluster, s) /\ IsChain(d, h, MaxCluster, t) /\ MaxCluster \in Nat
      /\ WholeChain(d, g) = {s[k] : k \in 1 .. Len(s)}
      /\ WholeChain(d, h) = {t[k] : k \in 1 .. Len(t)}
      BY <1>1, <1>2, <1>3, WholeIsChain
<1>5. \A k \in 1 .. Len(s), l \in 1 .. Len(t) : s[k] # t[l]
      BY <1>4, ChainsApart
<1> QED BY <1>4, <1>5

=============================================================================
