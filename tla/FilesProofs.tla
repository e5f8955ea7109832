---------------------------- MODULE FilesProofs ----------------------------
(***************************************************************************)
(* Proofs about Files: the files' chains stay apart, what is written is    *)
(* kept, what is read is the file's, and nothing is written astray, for    *)
(* any size of sectors, clusters, disk and directory and any number of     *)
(* programs, calls and misuses.                                            *)
(*                                                                         *)
(* The calls are loops.  A loop is a function over 0 .. K that is defined  *)
(* from its value before; that there is such a function, and that what     *)
(* each iteration preserves holds of all of it, are lemmas here (Recursion *)
(* and Induction), from the least element of a set of numbers, which the   *)
(* library's theorem on strict inclusion of finite sets gives.             *)
(***************************************************************************)
EXTENDS Files, TLAPS, FiniteSetTheorems, WellFoundedInduction

-----------------------------------------------------------------------------
(* Numbers and loops.                                                      *)

(* The constants, as numbers.                                              *)
LEMMA Constants ==
    /\ S \in Nat /\ S > 0 /\ SPC \in Nat /\ SPC > 0 /\ DIRSLOTS \in Nat /\ DIRSLOTS > 0
    /\ NC \in Nat /\ MaxSize \in Nat /\ MaxCount \in Nat /\ MaxMisuse \in Nat
    /\ PerCluster \in Nat /\ PerCluster > 0 /\ PerCluster = SPC * S
    /\ 0 \notin Values /\ NoName \notin Names
<1>1. SPC * S \in Nat /\ SPC * S > 0
  <2>1. {S, SPC} \subseteq Nat \ {0}
    BY FilesAssumption
  <2> QED BY <2>1
<1> QED BY <1>1, FilesAssumption DEF PerCluster

(* A bounded set of numbers has a least one.                               *)
LEMMA Least ==
    ASSUME NEW K \in Nat, NEW T, T \subseteq 0 .. K, T # {}
    PROVE  \E m \in T : \A k \in T : m <= k
<1> DEFINE U == 0 .. K
           Below(k) == 0 .. k
           B == {Below(k) : k \in T}
<1>1. IsFiniteSet(U)
  BY FS_Interval
<1>2. \A k \in T : Below(k) \in SUBSET U
  OBVIOUS
<1>3. FiniteSubsetsOf(U) = SUBSET U
  <2> HIDE DEF U
  <2> QED BY <1>1, FS_FiniteSubsetsOfFinite
<1>4. B \subseteq FiniteSubsetsOf(U) /\ B # {}
  <2>1. B # {}
    OBVIOUS
  <2> HIDE DEF Below, U
  <2> QED BY <1>2, <1>3, <2>1
<1>5. \E V \in B : \A W \in B : ~ (<<W, V>> \in StrictSubsetOrdering(U))
  <2> HIDE DEF B, U
  <2> QED BY <1>1, <1>4, FS_StrictSubsetOrderingWellFounded, WFMin
<1>6. PICK m \in T : \A k \in T : ~ (<<Below(k), Below(m)>> \in StrictSubsetOrdering(U))
  <2> HIDE DEF Below
  <2> QED BY <1>5
<1>7. ASSUME NEW k \in T, k < m PROVE FALSE
  <2>1. Below(k) \subseteq Below(m) /\ Below(k) # Below(m)
    <3>1. m \in Below(m) /\ m \notin Below(k)
      BY <1>7
    <3>2. Below(k) \subseteq Below(m)
      BY <1>7
    <3> HIDE DEF Below
    <3> QED BY <3>1, <3>2
  <2> HIDE DEF Below, U
  <2>2. <<Below(k), Below(m)>> \in StrictSubsetOrdering(U)
    BY <1>2, <1>3, <2>1 DEF StrictSubsetOrdering
  <2> QED BY <1>6, <2>2
<1>8. \A k \in T : m <= k
  BY <1>7
<1> QED BY <1>8

(* What holds at 0 and goes from n to n + 1 holds up to K.                 *)
LEMMA Induction ==
    ASSUME NEW K \in Nat, NEW T, 0 \in T, \A n \in 0 .. K - 1 : n \in T => n + 1 \in T
    PROVE  \A n \in 0 .. K : n \in T
<1> DEFINE R == {n \in 0 .. K : n \notin T}
<1> SUFFICES ASSUME R # {} PROVE FALSE
  OBVIOUS
<1>1. R \subseteq 0 .. K
  OBVIOUS
<1>2. \E m \in R : \A k \in R : m <= k
  <2> HIDE DEF R
  <2> QED BY <1>1, Least
<1>3. PICK m \in R : \A k \in R : m <= k
  BY <1>2
<1>4. m # 0 /\ m - 1 \in 0 .. K - 1
  OBVIOUS
<1>5. m - 1 \in T
  BY <1>3, <1>4
<1> QED BY <1>4, <1>5

(* A loop that starts with x and iterates F, and goes from Good[k - 1] to  *)
(* Good[k] in its k-th iteration.                                          *)
Runs(f, K, Good, x, F) ==
    /\ f = [k \in 0 .. K |-> f[k]]
    /\ f[0] = x /\ x \in Good[0]
    /\ \A k \in 1 .. K : f[k] = F[f[k - 1]]
    /\ \A k \in 0 .. K : f[k] \in Good[k]

(* There is a function that a loop computes, and it keeps Good[k] after k  *)
(* rounds.                                                                 *)
LEMMA Recursion ==
    ASSUME NEW K \in Nat, NEW Good, NEW F, NEW x \in Good[0],
           \A k \in 1 .. K : \A s \in Good[k - 1] : F[s] \in Good[k]
    PROVE  \E f : Runs(f, K, Good, x, F)
<1> DEFINE T == {n \in 0 .. K : \E f : Runs(f, n, Good, x, F)}
<1>1. 0 \in T
  <2> DEFINE g == [k \in 0 .. 0 |-> x]
  <2>1. Runs(g, 0, Good, x, F)
    BY DEF Runs
  <2> QED BY <2>1
<1>2. ASSUME NEW n \in 0 .. K - 1, n \in T PROVE n + 1 \in T
  <2>1. PICK f : Runs(f, n, Good, x, F)
    BY <1>2
  <2> DEFINE g == [k \in 0 .. n + 1 |-> IF k = n + 1 THEN F[f[n]] ELSE f[k]]
  <2>2. g[0] = x /\ g = [k \in 0 .. n + 1 |-> g[k]]
    BY <2>1 DEF Runs
  <2>3. ASSUME NEW k \in 1 .. n + 1 PROVE g[k] = F[g[k - 1]]
    <3>1. CASE k = n + 1
      BY <3>1
    <3>2. CASE k # n + 1
      <4>1. k \in 1 .. n /\ g[k] = f[k] /\ g[k - 1] = f[k - 1]
        BY <3>2
      <4> HIDE DEF g
      <4> QED BY <2>1, <4>1 DEF Runs
    <3> QED BY <3>1, <3>2
  <2>4. ASSUME NEW k \in 0 .. n + 1 PROVE g[k] \in Good[k]
    <3>1. CASE k = n + 1
      <4>1. f[n] \in Good[n] /\ g[k] = F[f[n]]
        BY <2>1, <3>1 DEF Runs
      <4>2. n + 1 \in 1 .. K /\ n + 1 - 1 = n
        OBVIOUS
      <4> HIDE DEF g
      <4> QED BY <3>1, <4>1, <4>2
    <3>2. CASE k # n + 1
      <4>1. k \in 0 .. n /\ g[k] = f[k]
        BY <3>2
      <4> HIDE DEF g
      <4> QED BY <2>1, <4>1 DEF Runs
    <3> QED BY <3>1, <3>2
  <2> HIDE DEF g
  <2>5. Runs(g, n + 1, Good, x, F)
    BY <2>2, <2>3, <2>4 DEF Runs
  <2> QED BY <2>5
<1>3. K \in T
  <2> HIDE DEF T
  <2> QED BY <1>1, <1>2, Induction
<1> QED BY <1>3

(* Two functions that begin alike and go on alike are the same.            *)
LEMMA SameRun ==
    ASSUME NEW K \in Nat, NEW f, NEW g, f[0] = g[0],
           \A k \in 1 .. K : f[k - 1] = g[k - 1] => f[k] = g[k]
    PROVE  \A k \in 0 .. K : f[k] = g[k]
<1> DEFINE T == {k \in 0 .. K : f[k] = g[k]}
<1>1. 0 \in T
  OBVIOUS
<1>2. ASSUME NEW n \in 0 .. K - 1, n \in T PROVE n + 1 \in T
  <2>1. n + 1 \in 1 .. K /\ n + 1 - 1 = n
    OBVIOUS
  <2> QED BY <1>2, <2>1
<1>3. \A n \in 0 .. K : n \in T
  <2> HIDE DEF T
  <2> QED BY <1>1, <1>2, Induction
<1> QED BY <1>3

(* A quotient and a remainder are known from any division.                 *)
LEMMA Division ==
    ASSUME NEW b \in Nat, b > 0, NEW q \in Int, NEW r \in 0 .. b - 1, NEW x \in Int, x = b * q + r
    PROVE  x \div b = q /\ x % b = r
<1> DEFINE p == x \div b
           s == x % b
<1>2. x = b * p + s /\ s \in 0 .. b - 1 /\ p \in Int
  OBVIOUS
<1> HIDE DEF p, s
<1>3. CASE p >= q + 1
  <2>1. b * p >= b * (q + 1)
    BY <1>2, <1>3
  <2>2. b * (q + 1) = b * q + b
    OBVIOUS
  <2> QED BY <1>2, <2>1, <2>2
<1>4. CASE q >= p + 1
  <2>1. b * q >= b * (p + 1)
    BY <1>2, <1>4
  <2>2. b * (p + 1) = b * p + b
    BY <1>2
  <2> QED BY <1>2, <2>1, <2>2
<1>5. CASE p = q
  BY <1>2, <1>5 DEF p, s
<1> QED BY <1>2, <1>3, <1>4, <1>5

(* Quotient and remainder.                                                 *)
LEMMA Divided ==
    ASSUME NEW b \in Nat, b > 0, NEW x \in Nat
    PROVE  x = b * (x \div b) + (x % b) /\ x % b \in 0 .. b - 1 /\ x \div b \in Nat
<1> DEFINE q == x \div b
           r == x % b
<1>1. x = b * q + r /\ r \in 0 .. b - 1 /\ q \in Int
  OBVIOUS
<1> HIDE DEF q, r
<1>2. q >= 0
  <2> SUFFICES ASSUME q <= -1 PROVE FALSE
    BY <1>1
  <2>1. b * q <= b * (-1)
    BY <1>1
  <2> QED BY <1>1, <2>1
<1>3. x = b * q + r /\ r \in 0 .. b - 1 /\ q \in Nat
  BY <1>1, <1>2
<1> QED BY <1>3 DEF q, r

-----------------------------------------------------------------------------
(* Chains.                                                                 *)

ClusterNumbers == Clusters \cup {FREE, END}
(* Tables, sectors and disks.                                              *)
Tables == [Clusters -> ClusterNumbers]

(* The clusters p, one behind the other in the table t, to the end.        *)
Path(t, p) ==
    /\ p \in Seq(Clusters) /\ Len(p) > 0
    /\ \A j, k \in 1 .. Len(p) : p[j] = p[k] => j = k
    /\ \A k \in 1 .. Len(p) - 1 : t[p[k]] = p[k + 1]
    /\ t[p[Len(p)]] = END

(* The clusters of a sequence.                                             *)
On(p) == {p[k] : k \in 1 .. Len(p)}

(* The marks of the table are no data clusters.                            *)
LEMMA Marks ==
    /\ FREE = 0 /\ END \in Nat /\ END # FREE /\ END \notin Clusters /\ FREE \notin Clusters
    /\ Clusters \subseteq Nat /\ \A c \in Clusters : c <= NC /\ c >= 3
  BY Constants DEF FREE, END, Clusters

(* fatclustervalue of a cluster and of the marks.                          *)
LEMMA NextIs ==
    ASSUME NEW d
    PROVE  /\ \A c \in Clusters : fatclustervalue(d, c) = d.fat[c]
           /\ fatclustervalue(d, FREE) = END /\ fatclustervalue(d, END) = FREE
           /\ d.fat \in Tables => \A c \in ClusterNumbers : fatclustervalue(d, c) \in ClusterNumbers
<1>1. \A c \in Clusters : fatclustervalue(d, c) = d.fat[c]
  BY Marks DEF fatclustervalue
<1>2. fatclustervalue(d, FREE) = END /\ fatclustervalue(d, END) = FREE
  BY Marks DEF fatclustervalue
<1>3. ASSUME d.fat \in Tables, NEW c \in ClusterNumbers PROVE fatclustervalue(d, c) \in ClusterNumbers
  <2>1. CASE c \in Clusters
    BY <1>1, <1>3, <2>1 DEF Tables
  <2>2. CASE c \notin Clusters
    BY <1>2, <1>3, <2>2 DEF ClusterNumbers
  <2> QED BY <2>1, <2>2
<1> QED BY <1>1, <1>2, <1>3

(* A path has no cluster twice, none that is free, and ends.               *)
LEMMA PathParts ==
    ASSUME NEW t, NEW p, Path(t, p)
    PROVE  /\ Len(p) \in Nat /\ Len(p) > 0 /\ p \in Seq(Clusters)
           /\ \A k \in 1 .. Len(p) : p[k] \in Clusters /\ p[k] \in On(p)
           /\ p[1] \in On(p) /\ p[1] \in Clusters
           /\ p[Len(p)] \in On(p) /\ p[Len(p)] \in Clusters
           /\ On(p) \subseteq Clusters
           /\ \A c \in On(p) : t[c] # FREE
<1>1. p \in Seq(Clusters) /\ Len(p) \in Nat /\ Len(p) > 0
  BY DEF Path
<1>2. \A k \in 1 .. Len(p) : p[k] \in Clusters /\ p[k] \in On(p)
  BY <1>1 DEF On
<1>3. 1 \in 1 .. Len(p) /\ Len(p) \in 1 .. Len(p)
  BY <1>1
<1>4. On(p) \subseteq Clusters
  BY <1>2 DEF On
<1>5. ASSUME NEW k \in 1 .. Len(p) PROVE t[p[k]] # FREE
  <2>1. CASE k = Len(p)
    BY <2>1, Marks DEF Path
  <2>2. CASE k # Len(p)
    <3>1. k \in 1 .. Len(p) - 1 /\ k + 1 \in 1 .. Len(p)
      BY <1>1, <2>2
    <3> QED BY <1>2, <3>1, Marks DEF Path
  <2> QED BY <2>1, <2>2
<1> QED BY <1>1, <1>2, <1>3, <1>4, <1>5 DEF On

(* A path has no more clusters than there are.                             *)
LEMMA PathFits == ASSUME NEW t, NEW p, Path(t, p) PROVE Len(p) \in 1 .. NC
<1>1. p \in Seq(Clusters) /\ Len(p) \in Nat /\ Len(p) > 0
  BY PathParts
<1>2. p \in Injection(1 .. Len(p), 1 .. NC)
  <2>1. p \in [1 .. Len(p) -> 1 .. NC]
    BY <1>1, Constants DEF Clusters
  <2>2. \A j, k \in 1 .. Len(p) : p[j] = p[k] => j = k
    BY DEF Path
  <2> QED BY <2>1, <2>2 DEF Injection, IsInjective
<1>3. Cardinality(1 .. Len(p)) = Len(p) /\ Cardinality(1 .. NC) = NC /\ IsFiniteSet(1 .. NC)
  <2>1. \A n \in Nat : IsFiniteSet(1 .. n) /\ Cardinality(1 .. n) = IF 1 > n THEN 0 ELSE n - 1 + 1
    BY FS_Interval
  <2>2. \A n \in Nat : Cardinality(1 .. n) = n
    BY <2>1
  <2> QED BY <1>1, <2>1, <2>2, Constants
<1>4. Len(p) <= NC
  BY <1>2, <1>3, FS_Injection
<1> QED BY <1>1, <1>4

(* What is k entries behind the first cluster of a path.                   *)
Ahead(p, k) == IF k < Len(p) THEN {p[k + 1]} ELSE IF k = Len(p) THEN {END} ELSE {FREE, END}

(* Counting along a path finds its clusters, and END behind the last.      *)
LEMMA BehindIs ==
    ASSUME NEW d, NEW p, Path(d.fat, p), NEW k \in Nat
    PROVE  Behind(d, p[1], k) \in Ahead(p, k)
<1> DEFINE Good == [j \in 0 .. k |-> Ahead(p, j)]
           F == [c \in ClusterNumbers |-> fatclustervalue(d, c)]
           c1 == p[1]
<1>1. c1 \in Good[0]
  BY PathParts DEF Ahead
<1>2. ASSUME NEW j \in 1 .. k, NEW s \in Good[j - 1]
      PROVE  s \in ClusterNumbers /\ F[s] \in Good[j]
  <2>1. s \in Ahead(p, j - 1) /\ j - 1 \in Nat /\ j \in 0 .. k
    OBVIOUS
  <2>2. CASE j < Len(p)
    <3>1. s = p[j] /\ j \in 1 .. Len(p) - 1 /\ j \in 1 .. Len(p)
      BY <2>1, <2>2, PathParts DEF Ahead
    <3>2. s \in Clusters /\ d.fat[s] = p[j + 1]
      BY <3>1, PathParts DEF Path
    <3> QED BY <2>1, <2>2, <3>2, NextIs DEF Ahead, ClusterNumbers
  <2>3. CASE j = Len(p)
    <3>1. s = p[j] /\ s \in Clusters /\ d.fat[s] = END
      BY <2>1, <2>3, PathParts DEF Ahead, Path
    <3> QED BY <2>1, <2>3, <3>1, NextIs DEF Ahead, ClusterNumbers
  <2>4. CASE j > Len(p)
    <3>1. s \in {FREE, END}
      BY <2>1, <2>4, PathParts DEF Ahead
    <3> QED BY <2>1, <2>4, <3>1, PathParts, NextIs DEF Ahead, ClusterNumbers
  <2> QED BY <2>2, <2>3, <2>4, PathParts
<1>3. PICK f : Runs(f, k, Good, c1, F)
  <2> HIDE DEF Good, F, c1
  <2> QED BY <1>1, <1>2, Recursion
<1>4. f = [j \in 0 .. k |-> IF j = 0 THEN c1 ELSE fatclustervalue(d, f[j - 1])]
  <2>1. ASSUME NEW j \in 1 .. k PROVE f[j] = fatclustervalue(d, f[j - 1])
    <3>1. j - 1 \in 0 .. k
      OBVIOUS
    <3>2. f[j - 1] \in Good[j - 1] /\ f[j] = F[f[j - 1]]
      BY <1>3, <3>1 DEF Runs
    <3> HIDE DEF Good
    <3> QED BY <1>2, <3>2
  <2> HIDE DEF Good, F, c1
  <2>2. ASSUME NEW j \in 0 .. k PROVE f[j] = IF j = 0 THEN c1 ELSE fatclustervalue(d, f[j - 1])
    <3>1. f[0] = c1
      BY <1>3 DEF Runs
    <3>2. j # 0 => j \in 1 .. k
      OBVIOUS
    <3> QED BY <2>1, <3>1, <3>2
  <2>3. f = [j \in 0 .. k |-> f[j]]
    BY <1>3 DEF Runs
  <2> QED BY <2>2, <2>3
<1> DEFINE w[j \in 0 .. k] == IF j = 0 THEN c1 ELSE fatclustervalue(d, w[j - 1])
<1>5. w = [j \in 0 .. k |-> IF j = 0 THEN c1 ELSE fatclustervalue(d, w[j - 1])]
  BY <1>4
<1>6. Behind(d, c1, k) = w[k]
  BY DEF Behind
<1>7. w[k] = f[k]
  <2> HIDE DEF w, c1
  <2>1. w[0] = f[0] /\ \A j \in 1 .. k : w[j - 1] = f[j - 1] => w[j] = f[j]
    BY <1>4, <1>5
  <2> QED BY <2>1, SameRun
<1>8. f[k] \in Ahead(p, k)
  BY <1>3 DEF Runs
<1> QED BY <1>6, <1>7, <1>8

(* fattraverse stops at the path's last cluster.                           *)
Within(p, k) == IF k < Len(p) THEN p[k + 1] ELSE p[Len(p)]

(* So does fattraverse, which stays on the last.                           *)
LEMMA TraverseIs ==
    ASSUME NEW d, NEW p, Path(d.fat, p), NEW k \in Nat
    PROVE  fattraverse(d, p[1], k) = Within(p, k)
<1> DEFINE Good == [j \in 0 .. k |-> {Within(p, j)}]
           F == [c \in Clusters |-> Onward(d, c)]
           c1 == p[1]
<1>1. c1 \in Good[0]
  BY PathParts DEF Within
<1>2. ASSUME NEW j \in 1 .. k, NEW s \in Good[j - 1]
      PROVE  s \in Clusters /\ F[s] \in Good[j]
  <2>1. s = Within(p, j - 1) /\ j - 1 \in Nat /\ j \in 0 .. k
    OBVIOUS
  <2>2. CASE j < Len(p)
    <3>1. s = p[j] /\ j \in 1 .. Len(p) - 1 /\ j \in 1 .. Len(p) /\ j + 1 \in 1 .. Len(p)
      BY <2>1, <2>2, PathParts DEF Within
    <3>2. s \in Clusters /\ d.fat[s] = p[j + 1] /\ p[j + 1] \in Clusters
      BY <3>1, PathParts DEF Path
    <3>3. Onward(d, s) = p[j + 1]
      BY <3>2, NextIs, Marks DEF Onward
    <3> QED BY <2>1, <2>2, <3>2, <3>3 DEF Within
  <2>3. CASE j >= Len(p)
    <3>1. s = p[Len(p)] /\ s \in Clusters /\ d.fat[s] = END
      BY <2>1, <2>3, PathParts DEF Within, Path
    <3>2. Onward(d, s) = s
      BY <3>1, NextIs DEF Onward
    <3>3. Within(p, j) = p[Len(p)]
      BY <2>3, PathParts DEF Within
    <3> QED BY <2>1, <3>1, <3>2, <3>3
  <2> QED BY <2>2, <2>3, PathParts
<1>3. PICK f : Runs(f, k, Good, c1, F)
  <2> HIDE DEF Good, F, c1
  <2> QED BY <1>1, <1>2, Recursion
<1>4. f = [j \in 0 .. k |-> IF j = 0 THEN c1 ELSE Onward(d, f[j - 1])]
  <2>1. ASSUME NEW j \in 1 .. k PROVE f[j] = Onward(d, f[j - 1])
    <3>1. j - 1 \in 0 .. k
      OBVIOUS
    <3>2. f[j - 1] \in Good[j - 1] /\ f[j] = F[f[j - 1]]
      BY <1>3, <3>1 DEF Runs
    <3> HIDE DEF Good
    <3> QED BY <1>2, <3>2
  <2> HIDE DEF Good, F, c1
  <2>2. ASSUME NEW j \in 0 .. k PROVE f[j] = IF j = 0 THEN c1 ELSE Onward(d, f[j - 1])
    <3>1. f[0] = c1
      BY <1>3 DEF Runs
    <3>2. j # 0 => j \in 1 .. k
      OBVIOUS
    <3> QED BY <2>1, <3>1, <3>2
  <2>3. f = [j \in 0 .. k |-> f[j]]
    BY <1>3 DEF Runs
  <2> QED BY <2>2, <2>3
<1> DEFINE w[j \in 0 .. k] == IF j = 0 THEN c1 ELSE Onward(d, w[j - 1])
<1>5. w = [j \in 0 .. k |-> IF j = 0 THEN c1 ELSE Onward(d, w[j - 1])]
  BY <1>4
<1>6. fattraverse(d, c1, k) = w[k]
  BY DEF fattraverse
<1>7. w[k] = f[k]
  <2> HIDE DEF w, c1
  <2>1. w[0] = f[0] /\ \A j \in 1 .. k : w[j - 1] = f[j - 1] => w[j] = f[j]
    BY <1>4, <1>5
  <2> QED BY <2>1, SameRun
<1>8. f[k] = Within(p, k)
  BY <1>3 DEF Runs
<1> QED BY <1>6, <1>7, <1>8

(* ChainFrom is the one path that starts with the cluster.                 *)
LEMMA ChainIs ==
    ASSUME NEW d, NEW p, Path(d.fat, p)
    PROVE  ChainFrom(d, p[1]) = p
<1>1. Len(p) \in 1 .. NC /\ Len(p) \in Nat /\ NC \in Nat
  BY PathFits, Constants
<1> DEFINE Ends(k) == /\ Behind(d, p[1], k) = END
                      /\ \A j \in 1 .. k - 1 : Behind(d, p[1], j) # END
           len == CHOOSE k \in 1 .. NC : Ends(k)
<1>2. ASSUME NEW j \in 0 .. Len(p) - 1 PROVE Behind(d, p[1], j) = p[j + 1] /\ p[j + 1] # END
  <2>1. j \in Nat /\ j < Len(p) /\ j + 1 \in 1 .. Len(p)
    BY <1>1
  <2> QED BY <2>1, BehindIs, PathParts, Marks DEF Ahead
<1>3. Behind(d, p[1], Len(p)) = END
  <2>1. Behind(d, p[1], Len(p)) \in Ahead(p, Len(p))
    BY <1>1, BehindIs
  <2> QED BY <1>1, <2>1 DEF Ahead
<1>4. Ends(Len(p))
  BY <1>1, <1>2, <1>3
<1>5. ASSUME NEW k \in 1 .. NC, Ends(k) PROVE k = Len(p)
  <2>1. CASE k < Len(p)
    BY <1>1, <1>2, <1>5, <2>1
  <2>2. CASE k > Len(p)
    <3>1. Len(p) \in 1 .. k - 1
      BY <1>1, <2>2
    <3> QED BY <1>3, <1>5, <3>1
  <2> QED BY <1>1, <2>1, <2>2
<1>6. len = Len(p)
  <2> HIDE DEF Ends
  <2> QED BY <1>1, <1>4, <1>5
<1>7. ChainFrom(d, p[1]) = [k \in 1 .. len |-> Behind(d, p[1], k - 1)]
  BY DEF ChainFrom
<1>8. ASSUME NEW k \in 1 .. Len(p) PROVE Behind(d, p[1], k - 1) = p[k]
  <2>1. k - 1 \in 0 .. Len(p) - 1 /\ (k - 1) + 1 = k
    BY <1>1
  <2> QED BY <1>2, <2>1
<1>9. p = [k \in 1 .. Len(p) |-> p[k]]
  BY PathParts
<1>10. ChainFrom(d, p[1]) = [k \in 1 .. Len(p) |-> Behind(d, p[1], k - 1)]
  <2> HIDE DEF len
  <2> QED BY <1>6, <1>7
<1>11. [k \in 1 .. Len(p) |-> Behind(d, p[1], k - 1)] = [k \in 1 .. Len(p) |-> p[k]]
  BY <1>8
<1> QED BY <1>9, <1>10, <1>11

(* Only the entries of its clusters matter to a path.                      *)
LEMMA PathStays ==
    ASSUME NEW t, NEW u, NEW p, Path(t, p), \A c \in On(p) : u[c] = t[c]
    PROVE  Path(u, p)
<1>1. \A k \in 1 .. Len(p) : u[p[k]] = t[p[k]]
  BY PathParts
<1>2. \A k \in 1 .. Len(p) - 1 : k \in 1 .. Len(p)
  BY PathParts
<1>3. Len(p) \in 1 .. Len(p)
  BY PathParts
<1> QED BY <1>1, <1>2, <1>3 DEF Path

(* A path whose last cluster leads on to another cluster at its end.       *)
LEMMA PathGrows ==
    ASSUME NEW t, NEW u, NEW p, Path(t, p), NEW c \in Clusters, c \notin On(p),
           u[p[Len(p)]] = c, u[c] = END,
           \A e \in On(p) : e # p[Len(p)] => u[e] = t[e]
    PROVE  /\ Path(u, Append(p, c))
           /\ On(Append(p, c)) = On(p) \cup {c}
<1> DEFINE q == Append(p, c)
<1>1. p \in Seq(Clusters) /\ Len(p) \in Nat /\ Len(p) > 0
  BY PathParts
<1>2. q \in Seq(Clusters) /\ Len(q) = Len(p) + 1 /\ q[Len(p) + 1] = c
      /\ \A k \in 1 .. Len(p) : q[k] = p[k]
  BY <1>1
<1> HIDE DEF q
<1>3. \A k \in 1 .. Len(p) : p[k] # c /\ p[k] \in On(p)
  BY DEF On
<1>4. ASSUME NEW j \in 1 .. Len(q), NEW k \in 1 .. Len(q), q[j] = q[k] PROVE j = k
  BY <1>1, <1>2, <1>3, <1>4 DEF Path
<1>5. ASSUME NEW k \in 1 .. Len(q) - 1 PROVE u[q[k]] = q[k + 1]
  <2>1. CASE k = Len(p)
    BY <1>1, <1>2, <2>1
  <2>2. CASE k # Len(p)
    <3>1. k \in 1 .. Len(p) - 1 /\ k \in 1 .. Len(p) /\ k + 1 \in 1 .. Len(p)
          /\ Len(p) \in 1 .. Len(p)
      BY <1>1, <1>2, <2>2
    <3>2. p[k] # p[Len(p)]
      BY <1>1, <2>2, <3>1 DEF Path
    <3>3. u[p[k]] = t[p[k]]
      BY <1>3, <3>1, <3>2
    <3> QED BY <1>2, <3>1, <3>3 DEF Path
  <2> QED BY <2>1, <2>2
<1>6. On(q) = On(p) \cup {c}
  <2>1. \A k \in 1 .. Len(q) : k \in 1 .. Len(p) \/ k = Len(p) + 1
    BY <1>1, <1>2
  <2>2. 1 .. Len(p) \subseteq 1 .. Len(q) /\ Len(p) + 1 \in 1 .. Len(q)
    BY <1>1, <1>2
  <2> QED BY <1>2, <2>1, <2>2 DEF On
<1>7. u[q[Len(q)]] = END
  BY <1>2
<1>8. Path(u, q)
  BY <1>1, <1>2, <1>4, <1>5, <1>7 DEF Path
<1> QED BY <1>6, <1>8 DEF q

(* The first m clusters of a path, and the rest from the m-th on.          *)
LEMMA PathCut ==
    ASSUME NEW t, NEW p, Path(t, p), NEW m \in 1 .. Len(p)
    PROVE  LET front == SubSeq(p, 1, m)
               back  == SubSeq(p, m, Len(p))
           IN  /\ front \in Seq(Clusters) /\ Len(front) = m
               /\ \A k \in 1 .. m : front[k] = p[k]
               /\ On(front) \subseteq On(p)
               /\ Path(t, back) /\ back[1] = p[m] /\ Len(back) = Len(p) - m + 1
               /\ \A k \in 1 .. Len(p) - m + 1 : back[k] = p[m + k - 1]
<1> DEFINE front == SubSeq(p, 1, m)
           back  == SubSeq(p, m, Len(p))
<1>1. p \in Seq(Clusters) /\ Len(p) \in Nat /\ m \in Nat /\ m <= Len(p) /\ m >= 1
  BY PathParts
<1>2. front \in Seq(Clusters) /\ Len(front) = m /\ \A k \in 1 .. m : front[k] = p[k]
  BY <1>1
<1>3. back \in Seq(Clusters) /\ Len(back) = Len(p) - m + 1
  BY <1>1
<1>4. \A k \in 1 .. Len(p) - m + 1 : back[k] = p[m + k - 1]
  BY <1>1
<1> HIDE DEF front, back
<1>5. On(front) \subseteq On(p)
  BY <1>1, <1>2 DEF On
<1>6. ASSUME NEW j \in 1 .. Len(back), NEW k \in 1 .. Len(back), back[j] = back[k] PROVE j = k
  <2>1. m + j - 1 \in 1 .. Len(p) /\ m + k - 1 \in 1 .. Len(p) /\ p[m + j - 1] = p[m + k - 1]
    BY <1>1, <1>3, <1>4, <1>6
  <2>2. m + j - 1 = m + k - 1
    BY <2>1 DEF Path
  <2> QED BY <1>1, <1>3, <2>2
<1>7. ASSUME NEW k \in 1 .. Len(back) - 1 PROVE t[back[k]] = back[k + 1]
  <2>1. /\ k \in 1 .. Len(p) - m + 1 /\ k + 1 \in 1 .. Len(p) - m + 1
        /\ m + k - 1 \in 1 .. Len(p) - 1 /\ m + (k + 1) - 1 = (m + k - 1) + 1
    BY <1>1, <1>3
  <2> QED BY <1>4, <2>1 DEF Path
<1>8. t[back[Len(back)]] = END
  <2>1. Len(p) - m + 1 \in 1 .. Len(p) - m + 1 /\ m + (Len(p) - m + 1) - 1 = Len(p)
    BY <1>1
  <2>2. back[Len(back)] = p[Len(p)]
    BY <1>3, <1>4, <2>1
  <2> QED BY <2>2 DEF Path
<1>9. Path(t, back)
  BY <1>1, <1>3, <1>6, <1>7, <1>8 DEF Path
<1>10. back[1] = p[m]
  <2>1. 1 \in 1 .. Len(p) - m + 1 /\ m + 1 - 1 = m
    BY <1>1
  <2> QED BY <1>4, <2>1
<1> QED BY <1>2, <1>3, <1>4, <1>5, <1>9, <1>10 DEF front, back

Datas == [Clusters -> [Sectors -> Buffers]]
Disks == [fat : Tables, data : Datas, stray : BOOLEAN]

(* What fatdeallocclusters leaves of a path: its first m clusters.         *)
LEMMA DeallocIs ==
    ASSUME NEW d \in Disks, NEW p, Path(d.fat, p), NEW m \in 1 .. Len(p)
    PROVE  LET front == SubSeq(p, 1, m)
               e == fatdeallocclusters(d, p[m])
           IN  /\ e \in Disks /\ e.data = d.data /\ e.stray = d.stray
               /\ Path(e.fat, front)
               /\ \A c \in Clusters \ On(p) : e.fat[c] = d.fat[c]
               /\ \A c \in On(p) \ On(front) : e.fat[c] = FREE
<1> DEFINE front == SubSeq(p, 1, m)
           back  == SubSeq(p, m, Len(p))
           e == fatdeallocclusters(d, p[m])
           tail == {back[k] : k \in 2 .. Len(back)}
           u == [c \in Clusters |-> IF c = p[m] THEN END ELSE IF c \in tail THEN FREE ELSE d.fat[c]]
<1>1. /\ p \in Seq(Clusters) /\ Len(p) \in Nat /\ m \in Nat /\ m <= Len(p) /\ m >= 1
      /\ \A k \in 1 .. Len(p) : p[k] \in Clusters /\ p[k] \in On(p)
      /\ \A j, k \in 1 .. Len(p) : p[j] = p[k] => j = k
  <2>1. /\ p \in Seq(Clusters) /\ Len(p) \in Nat
        /\ \A k \in 1 .. Len(p) : p[k] \in Clusters /\ p[k] \in On(p)
    BY PathParts
  <2>2. \A j, k \in 1 .. Len(p) : p[j] = p[k] => j = k
    BY DEF Path
  <2>3. m \in Nat /\ m <= Len(p) /\ m >= 1
    BY <2>1
  <2> QED BY <2>1, <2>2, <2>3
<1>2. /\ front \in Seq(Clusters) /\ Len(front) = m
      /\ \A k \in 1 .. m : front[k] = p[k]
      /\ On(front) \subseteq On(p)
      /\ Path(d.fat, back) /\ back[1] = p[m] /\ Len(back) = Len(p) - m + 1
      /\ \A k \in 1 .. Len(p) - m + 1 : back[k] = p[m + k - 1]
  BY PathCut
<1> HIDE DEF front, back
<1>3. ChainFrom(d, p[m]) = back
  BY <1>2, ChainIs
<1>4. d.fat \in Tables
  BY DEF Disks
<1>5. e = [d EXCEPT !.fat = u]
  BY <1>3 DEF fatdeallocclusters
<1>6. u \in Tables
  BY <1>4 DEF Tables, ClusterNumbers
<1>7. e \in Disks /\ e.fat = u /\ e.data = d.data /\ e.stray = d.stray
  <2> HIDE DEF u, e
  <2> QED BY <1>5, <1>6 DEF Disks
<1>8. ASSUME NEW c \in tail PROVE \E k \in m + 1 .. Len(p) : c = p[k]
  <2>1. PICK k \in 2 .. Len(back) : c = back[k]
    BY <1>8
  <2>2. k \in 1 .. Len(p) - m + 1 /\ m + k - 1 \in m + 1 .. Len(p)
    BY <1>1, <1>2, <2>1
  <2> QED BY <1>2, <2>1, <2>2
<1>9. ASSUME NEW k \in m + 1 .. Len(p) PROVE p[k] \in tail
  <2>1. k - m + 1 \in 2 .. Len(back) /\ k - m + 1 \in 1 .. Len(p) - m + 1 /\ m + (k - m + 1) - 1 = k
    BY <1>1, <1>2
  <2>2. back[k - m + 1] = p[k]
    BY <1>2, <2>1
  <2> QED BY <2>1, <2>2
<1> HIDE DEF tail, e
<1>10. ASSUME NEW k \in 1 .. m - 1 PROVE u[p[k]] = p[k + 1]
  <2>1. k \in 1 .. Len(p) - 1 /\ k \in 1 .. Len(p) /\ k # m /\ m \in 1 .. Len(p)
        /\ \A j \in m + 1 .. Len(p) : j \in 1 .. Len(p) /\ j # k
    BY <1>1
  <2>2. p[k] # p[m] /\ p[k] \notin tail /\ p[k] \in Clusters
    BY <1>1, <1>8, <2>1
  <2>3. d.fat[p[k]] = p[k + 1]
    BY <2>1 DEF Path
  <2> QED BY <2>2, <2>3
<1>11. Path(u, front)
  <2>1. u[p[m]] = END
    BY <1>1
  <2>2. \A k \in 1 .. m - 1 : k \in 1 .. m /\ k + 1 \in 1 .. m
    BY <1>1
  <2>3. \A j \in 1 .. m : j \in 1 .. Len(p)
    BY <1>1
  <2>4. m \in 1 .. m
    BY <1>1
  <2> HIDE DEF u
  <2>5. \A j, k \in 1 .. Len(front) : front[j] = front[k] => j = k
    BY <1>1, <1>2, <2>3
  <2>6. \A k \in 1 .. Len(front) - 1 : u[front[k]] = front[k + 1]
    BY <1>2, <1>10, <2>2
  <2> QED BY <1>1, <1>2, <2>1, <2>4, <2>5, <2>6 DEF Path
<1>12. ASSUME NEW c \in Clusters \ On(p) PROVE u[c] = d.fat[c]
  <2>1. c # p[m] /\ c \notin tail
    <3>1. \A k \in m + 1 .. Len(p) : k \in 1 .. Len(p)
      BY <1>1
    <3> QED BY <1>1, <1>8, <3>1
  <2> QED BY <2>1
<1>13. ASSUME NEW c \in On(p) \ On(front) PROVE u[c] = FREE
  <2>1. PICK k \in 1 .. Len(p) : c = p[k]
    BY DEF On
  <2>2. k \notin 1 .. m
    BY <1>2, <2>1 DEF On
  <2>3. k \in m + 1 .. Len(p) /\ k # m
    BY <1>1, <2>2
  <2>4. c # p[m] /\ c \in tail /\ c \in Clusters
    BY <1>1, <1>9, <2>1, <2>3
  <2> QED BY <2>4
<1> HIDE DEF u
<1> QED BY <1>7, <1>11, <1>12, <1>13 DEF front, e

(* fatfindfreecluster finds a free cluster.                                *)
LEMMA FindFree ==
    ASSUME NEW d, FreeClusters(d) # {}
    PROVE  fatfindfreecluster(d) \in FreeClusters(d)
<1> DEFINE T == FreeClusters(d)
<1>1. T \subseteq 0 .. NC /\ NC \in Nat /\ T # {}
  <2>1. \A c \in Clusters : c \in 0 .. NC
    BY Constants DEF Clusters
  <2> QED BY <2>1, Constants DEF FreeClusters
<1>2. \E m \in T : \A k \in T : m <= k
  <2> HIDE DEF T
  <2> QED BY <1>1, Least
<1> QED BY <1>2 DEF fatfindfreecluster

LEMMA FreeFinite ==
    ASSUME NEW d
    PROVE  IsFiniteSet(FreeClusters(d)) /\ Cardinality(FreeClusters(d)) \in Nat
<1>1. IsFiniteSet(Clusters)
  BY FS_Interval, Constants DEF Clusters
<1>2. FreeClusters(d) \subseteq Clusters
  BY DEF FreeClusters
<1> QED BY <1>1, <1>2, FS_Subset, FS_CardinalityType

(* What linking k clusters behind the path p of d leaves.                  *)
Linked(d, p, k, a) ==
    /\ a.d \in Disks /\ a.d.data = d.data /\ a.d.stray = d.stray
    /\ \E q : /\ Path(a.d.fat, q) /\ Len(q) = Len(p) + k
              /\ \A j \in 1 .. Len(p) : q[j] = p[j]
              /\ a.top = q[Len(q)]
              /\ On(q) \subseteq On(p) \cup FreeClusters(d)
    /\ \A c \in Clusters \ (On(p) \cup FreeClusters(d)) : a.d.fat[c] = d.fat[c]
    /\ FreeClusters(a.d) \subseteq FreeClusters(d)
    /\ Cardinality(FreeClusters(a.d)) >= Cardinality(FreeClusters(d)) - k

(* One free cluster is linked behind the last of a path.                   *)
LEMMA LinkIs ==
    ASSUME NEW d \in Disks, NEW p, Path(d.fat, p), NEW k \in Nat, NEW a, Linked(d, p, k, a),
           k < Cardinality(FreeClusters(d))
    PROVE  Linked(d, p, k + 1, Link(a)) /\ Link(a) \in [d : Disks, top : Clusters]
<1> DEFINE new == fatfindfreecluster(a.d)
           top == a.top
           t == a.d.fat
           u == [t EXCEPT ![top] = new, ![new] = END]
           e == [a.d EXCEPT !.fat[top] = new, !.fat[new] = END]
<1>1. PICK q : /\ Path(t, q) /\ Len(q) = Len(p) + k
               /\ \A j \in 1 .. Len(p) : q[j] = p[j]
               /\ top = q[Len(q)]
               /\ On(q) \subseteq On(p) \cup FreeClusters(d)
  BY DEF Linked
<1>2. FreeClusters(a.d) # {}
  <2> SUFFICES ASSUME FreeClusters(a.d) = {} PROVE FALSE
    OBVIOUS
  <2>1. Cardinality(FreeClusters(a.d)) = 0
    BY FS_EmptySet
  <2> QED BY <2>1, FreeFinite DEF Linked
<1>3. new \in FreeClusters(a.d) /\ new \in FreeClusters(d) /\ new \in Clusters /\ t[new] = FREE
  <2>1. new \in FreeClusters(a.d)
    BY <1>2, FindFree
  <2> QED BY <2>1 DEF Linked, FreeClusters
<1>4. top \in Clusters /\ top \in On(q) /\ new \notin On(q)
  BY <1>1, <1>3, PathParts
<1>5. a.d \in Disks /\ a.d.data = d.data /\ a.d.stray = d.stray /\ t \in Tables
  BY DEF Linked, Disks
<1> HIDE DEF new, top
<1>6. Link(a) = [d |-> e, top |-> new]
  BY DEF Link, new, top
<1>7. e = [a.d EXCEPT !.fat = u]
  BY <1>5 DEF Disks
<1>8. u \in Tables
  BY <1>3, <1>4, <1>5 DEF Tables, ClusterNumbers
<1>9. u[top] = new /\ u[new] = END /\ \A c \in Clusters : c # top /\ c # new => u[c] = t[c]
  BY <1>3, <1>4, <1>5 DEF Tables
<1> HIDE DEF u, t
<1>10. e \in Disks /\ e.fat = u /\ e.data = d.data /\ e.stray = d.stray
  <2> HIDE DEF e
  <2> QED BY <1>5, <1>7, <1>8 DEF Disks
<1>11. PICK r : /\ r = Append(q, new) /\ Path(u, r) /\ On(r) = On(q) \cup {new}
  <2>1. \A c \in On(q) : c # top => u[c] = t[c]
    BY <1>1, <1>3, <1>4, <1>9, PathParts DEF FreeClusters
  <2>2. /\ Path(t, q) /\ new \in Clusters /\ new \notin On(q)
        /\ u[q[Len(q)]] = new /\ u[new] = END
        /\ \A c \in On(q) : c # q[Len(q)] => u[c] = t[c]
    BY <1>1, <1>3, <1>4, <1>9, <2>1
  <2>3. Path(u, Append(q, new)) /\ On(Append(q, new)) = On(q) \cup {new}
    BY <2>2, PathGrows
  <2> QED BY <2>3
<1>12. Len(r) = Len(p) + (k + 1) /\ r[Len(r)] = new /\ \A j \in 1 .. Len(p) : r[j] = p[j]
  <2>1. q \in Seq(Clusters) /\ Len(q) \in Nat /\ Len(p) \in Nat
    BY <1>1, PathParts
  <2>2. \A j \in 1 .. Len(p) : j \in 1 .. Len(q)
    BY <1>1, <2>1
  <2>3. Len(r) = Len(q) + 1 /\ r[Len(q) + 1] = new /\ \A j \in 1 .. Len(q) : r[j] = q[j]
    BY <1>3, <1>11, <2>1
  <2> QED BY <1>1, <2>1, <2>2, <2>3
<1>13. On(r) \subseteq On(p) \cup FreeClusters(d)
  BY <1>1, <1>3, <1>11
<1>14. ASSUME NEW c \in Clusters \ (On(p) \cup FreeClusters(d)) PROVE u[c] = d.fat[c]
  <2>1. c # top /\ c # new
    BY <1>1, <1>3, <1>4
  <2> QED BY <1>9, <2>1 DEF Linked, t
<1>15. FreeClusters(e) = FreeClusters(a.d) \ {new}
  <2>1. \A c \in Clusters : u[c] = FREE <=> t[c] = FREE /\ c # new
    BY <1>1, <1>3, <1>4, <1>9, Marks, PathParts
  <2> QED BY <1>10, <2>1 DEF FreeClusters, t
<1>16. Cardinality(FreeClusters(e)) >= Cardinality(FreeClusters(d)) - (k + 1)
  <2>1. Cardinality(FreeClusters(e)) = Cardinality(FreeClusters(a.d)) - 1
    BY <1>3, <1>15, FreeFinite, FS_RemoveElement
  <2> QED BY <2>1, FreeFinite DEF Linked
<1>17. FreeClusters(e) \subseteq FreeClusters(d)
  BY <1>15 DEF Linked
<1> HIDE DEF e
<1>18. Link(a).d = e /\ Link(a).top = new
  BY <1>6
<1>19. Link(a) \in [d : Disks, top : Clusters]
  BY <1>3, <1>6, <1>10
<1> QED BY <1>10, <1>11, <1>12, <1>13, <1>14, <1>16, <1>17, <1>18, <1>19 DEF Linked

(* fatallocclusters lengthens a path by free clusters.                     *)
LEMMA AllocIs ==
    ASSUME NEW d \in Disks, NEW p, Path(d.fat, p), NEW n \in Nat, n <= Cardinality(FreeClusters(d))
    PROVE  Linked(d, p, n, fatallocclusters(d, p[Len(p)], n))
<1> DEFINE A == [d : Disks, top : Clusters]
           Good == [k \in 0 .. n |-> {a \in A : Linked(d, p, k, a)}]
           F == [a \in A |-> Link(a)]
           x == [d |-> d, top |-> p[Len(p)]]
<1>1. x \in Good[0]
  <2>1. x \in A
    BY PathParts
  <2>2. Len(p) + 0 = Len(p)
    BY PathParts
  <2>3. Cardinality(FreeClusters(d)) >= Cardinality(FreeClusters(d)) - 0
    BY FreeFinite
  <2>4. Linked(d, p, 0, x)
    BY <2>2, <2>3 DEF Linked
  <2> QED BY <2>1, <2>4
<1>2. ASSUME NEW k \in 1 .. n, NEW s \in Good[k - 1]
      PROVE  s \in A /\ F[s] \in Good[k]
  <2>1. k - 1 \in 0 .. n /\ k \in 0 .. n /\ k - 1 \in Nat /\ (k - 1) + 1 = k
        /\ k - 1 < Cardinality(FreeClusters(d))
    BY FreeFinite
  <2>2. s \in A /\ Linked(d, p, k - 1, s)
    BY <2>1
  <2>3. Linked(d, p, k, Link(s)) /\ Link(s) \in A
    BY <2>1, <2>2, LinkIs
  <2> QED BY <2>1, <2>2, <2>3
<1>3. PICK f : Runs(f, n, Good, x, F)
  <2> HIDE DEF Good, F, x
  <2> QED BY <1>1, <1>2, Recursion
<1>4. f = [j \in 0 .. n |-> IF j = 0 THEN x ELSE Link(f[j - 1])]
  <2>1. ASSUME NEW j \in 1 .. n PROVE f[j] = Link(f[j - 1])
    <3>1. j - 1 \in 0 .. n
      OBVIOUS
    <3>2. f[j - 1] \in Good[j - 1] /\ f[j] = F[f[j - 1]]
      BY <1>3, <3>1 DEF Runs
    <3> HIDE DEF Good
    <3> QED BY <1>2, <3>2
  <2> HIDE DEF Good, F, x
  <2>2. ASSUME NEW j \in 0 .. n PROVE f[j] = IF j = 0 THEN x ELSE Link(f[j - 1])
    <3>1. f[0] = x
      BY <1>3 DEF Runs
    <3>2. j # 0 => j \in 1 .. n
      OBVIOUS
    <3> QED BY <2>1, <3>1, <3>2
  <2>3. f = [j \in 0 .. n |-> f[j]]
    BY <1>3 DEF Runs
  <2> QED BY <2>2, <2>3
<1> DEFINE w[j \in 0 .. n] == IF j = 0 THEN x ELSE Link(w[j - 1])
<1>5. w = [j \in 0 .. n |-> IF j = 0 THEN x ELSE Link(w[j - 1])]
  BY <1>4
<1>6. fatallocclusters(d, p[Len(p)], n) = w[n]
  BY DEF fatallocclusters
<1>7. w[n] = f[n]
  <2> HIDE DEF w, x
  <2>1. w[0] = f[0] /\ \A j \in 1 .. n : w[j - 1] = f[j - 1] => w[j] = f[j]
    BY <1>4, <1>5
  <2> QED BY <2>1, SameRun
<1>8. Linked(d, p, n, f[n])
  <2>1. f[n] \in Good[n]
    BY <1>3 DEF Runs
  <2> QED BY <2>1
<1> QED BY <1>6, <1>7, <1>8

-----------------------------------------------------------------------------
(* The inductive invariant.                                                *)

(* The handles of open files.                                              *)
Opened == [opened : {TRUE}, dirty : BOOLEAN,
           entry : [name : Names, size : Nat, first : Clusters],
           position : Nat, totalclusters : Nat, lastcluster : Clusters,
           currentcluster : ClusterNumbers, sectorincluster : Sectors, buffer : Buffers]
OpenHandles  == {h \in Handles : handles[h].opened}

(* Every variable has its type.                                            *)
Types ==
    /\ disk \in Disks
    /\ slots \in [Slots -> Entries]
    /\ enoent \in BOOLEAN
    /\ handles \in [Handles -> Opened \cup {Closed}]
    /\ content \in [Names -> Seq(Values)]
    /\ session \in [Handles -> {"none", "reading", "writing", "full"}]
    /\ spoiled \subseteq Names /\ lost \subseteq Names
    /\ got.name \in Names \cup {NoName}

(* The chain of c in d is the one that starts with c.                      *)
HasChain(d, c) == Path(d.fat, ChainFrom(d, c)) /\ ChainFrom(d, c)[1] = c
Place(d, c)    == On(ChainFrom(d, c))

(* The chains of the clusters in R end, and share no cluster.              *)
Apart(d, R) ==
    /\ \A c \in R : HasChain(d, c)
    /\ \A b, c \in R : b # c => Place(d, b) \cap Place(d, c) = {}

(* The first clusters of all files, in the directory and in handles.       *)
Roots == {slots[k].first : k \in UsedSlots} \cup {handles[h].entry.first : h \in OpenHandles}

(* No two entries and no two handles are of one file, and an entry and a   *)
(* handle are of one file if they have its name.                           *)
OneEach ==
    /\ \A j, k \in UsedSlots : slots[j].first = slots[k].first => j = k
    /\ \A j, k \in UsedSlots : slots[j].name = slots[k].name => j = k
    /\ \A k \in UsedSlots, j \in Slots : j < k => j \in UsedSlots
    /\ \A g, h \in OpenHandles : handles[g].entry.first = handles[h].entry.first => g = h
    /\ \A g, h \in OpenHandles : handles[g].entry.name = handles[h].entry.name => g = h
    /\ \A h \in OpenHandles, k \in UsedSlots :
          handles[h].entry.first = slots[k].first <=> handles[h].entry.name = slots[k].name

\* a handle grows its file at the end
AtEnd(d, h) == h.lastcluster = ChainFrom(d, h.entry.first)[Len(ChainFrom(d, h.entry.first))]

(* What is known of the lengths of a file that is not spoiled.             *)
Sized(d, h) == /\ h.position <= h.entry.size
               /\ h.entry.size <= Capacity(h)
               /\ h.totalclusters = Len(ChainFrom(d, h.entry.first))

(* What is true of the chains, the entries and the handles at any time.    *)
Chains ==
    /\ Apart(disk, Roots)
    /\ OneEach
    /\ \A h \in OpenHandles : AtEnd(disk, handles[h])
    /\ \A h \in OpenHandles : handles[h].entry.name \notin spoiled => Sized(disk, handles[h])
    /\ \A k \in UsedSlots : slots[k].name \notin spoiled =>
          slots[k].size <= Len(ChainFrom(disk, slots[k].first)) * PerCluster

(* The q-th sector of the clusters p, where it is and what it holds.       *)
Sector(d, p, q) == d.data[p[(q \div SPC) + 1]][q % SPC]
(* The handle h is on the sector q, or behind the last.                    *)
Cursor(p, h, q) ==
    /\ q \in 0 .. Len(p) * SPC
    /\ h.currentcluster = IF q < Len(p) * SPC THEN p[(q \div SPC) + 1] ELSE END
    /\ h.sectorincluster = q % SPC

\* the sector that a handle whose user has done s is on
At(h, s) == IF s = "full" THEN (h.position \div S) - 1 ELSE h.position \div S

(* The i-th unit of the file, with the sector q in the handle's buffer.    *)
Unit(d, p, h, q, i) == IF i \div S = q THEN h.buffer[i % S] ELSE Sector(d, p, i \div S)[i % S]

(* The units c of the file, in the buffer or in the sectors.               *)
View(d, p, h, q, c) ==
    \A i \in 0 .. Len(c) - 1 :
        c[i + 1] = Unit(d, p, h, q, i)

(* The handle h, whose user has done s, is on the right sector and has the *)
(* contents c.                                                             *)
Honest(d, h, c, s) ==
    LET p == ChainFrom(d, h.entry.first)
    IN /\ h.entry.size = Len(c)
       /\ Cursor(p, h, At(h, s))
       /\ View(d, p, h, At(h, s), c)
       /\ s # "none"
       /\ s = "full" => h.position % S = 0 /\ h.position > 0
       /\ s # "reading" => h.dirty /\ At(h, s) < Len(p) * SPC
       /\ s = "reading" => ~h.dirty
       /\ s = "reading" /\ At(h, s) < Len(p) * SPC =>
            h.buffer = d.data[h.currentcluster][h.sectorincluster]

(* A handle stays in its file's clusters.                                  *)
Near(d, h) == h.currentcluster \in Place(d, h.entry.first) \cup {FREE, END}

-----------------------------------------------------------------------------
(* Chains of several files.                                                *)

(* The file of c has got free clusters or given back some of its own; no   *)
(* other cluster's entry has changed.                                      *)
Regrown(d, e, c) ==
    /\ HasChain(e, c)
    /\ Place(e, c) \subseteq Place(d, c) \cup FreeClusters(d)
    /\ \A a \in Clusters \ (Place(d, c) \cup FreeClusters(d)) : e.fat[a] = d.fat[a]

LEMMA ChainOf ==
    ASSUME NEW d, NEW p, Path(d.fat, p), NEW c, c = p[1]
    PROVE  HasChain(d, c) /\ ChainFrom(d, c) = p /\ Place(d, c) = On(p)
  BY ChainIs DEF HasChain, Place

(* What a chain is made of.                                                *)
LEMMA ChainParts ==
    ASSUME NEW d, NEW c, HasChain(d, c)
    PROVE  LET p == ChainFrom(d, c)
           IN  /\ Path(d.fat, p) /\ p[1] = c /\ Place(d, c) = On(p)
               /\ Len(p) \in Nat /\ Len(p) > 0 /\ p \in Seq(Clusters)
               /\ \A k \in 1 .. Len(p) : p[k] \in Clusters /\ p[k] \in On(p)
               /\ p[Len(p)] \in Clusters /\ c \in Clusters /\ c \in Place(d, c)
               /\ Place(d, c) \subseteq Clusters
               /\ Place(d, c) \cap FreeClusters(d) = {}
<1> DEFINE p == ChainFrom(d, c)
<1>1. Path(d.fat, p) /\ p[1] = c /\ Place(d, c) = On(p)
  BY DEF HasChain, Place
<1>2. \A a \in On(p) : a \notin FreeClusters(d)
  BY <1>1, PathParts DEF FreeClusters
<1> HIDE DEF p
<1>3. /\ Len(p) \in Nat /\ Len(p) > 0 /\ p \in Seq(Clusters)
      /\ \A k \in 1 .. Len(p) : p[k] \in Clusters /\ p[k] \in On(p)
      /\ p[1] \in On(p) /\ p[1] \in Clusters /\ p[Len(p)] \in Clusters
      /\ On(p) \subseteq Clusters
  BY <1>1, PathParts
<1> QED BY <1>1, <1>2, <1>3 DEF p

(* A chain only depends on the entries of its clusters.                    *)
LEMMA ChainStays ==
    ASSUME NEW d, NEW e, NEW c, HasChain(d, c), \A a \in Place(d, c) : e.fat[a] = d.fat[a]
    PROVE  HasChain(e, c) /\ ChainFrom(e, c) = ChainFrom(d, c) /\ Place(e, c) = Place(d, c)
<1> DEFINE p == ChainFrom(d, c)
<1>1. Path(d.fat, p) /\ p[1] = c /\ Place(d, c) = On(p)
  BY DEF HasChain, Place
<1> HIDE DEF p
<1>2. Path(e.fat, p)
  BY <1>1, PathStays
<1>3. HasChain(e, c) /\ ChainFrom(e, c) = p /\ Place(e, c) = On(p)
  BY <1>1, <1>2, ChainOf
<1> QED BY <1>1, <1>3 DEF p

(* A file that only takes free clusters and gives back its own leaves all  *)
(* others alone.                                                           *)
LEMMA ApartStays ==
    ASSUME NEW d, NEW e, NEW R, Apart(d, R), NEW c \in R, Regrown(d, e, c)
    PROVE  /\ Apart(e, R)
           /\ \A b \in R : b # c => ChainFrom(e, b) = ChainFrom(d, b) /\ Place(e, b) = Place(d, b)
<1>1. ASSUME NEW b \in R, b # c
      PROVE  HasChain(e, b) /\ ChainFrom(e, b) = ChainFrom(d, b) /\ Place(e, b) = Place(d, b)
  <2>1. HasChain(d, b) /\ Place(d, b) \cap Place(d, c) = {}
    BY <1>1 DEF Apart
  <2>2. Place(d, b) \subseteq Clusters /\ Place(d, b) \cap FreeClusters(d) = {}
    BY <2>1, ChainParts
  <2>3. \A a \in Place(d, b) : e.fat[a] = d.fat[a]
    BY <2>1, <2>2 DEF Regrown
  <2> QED BY <2>1, <2>3, ChainStays
<1>2. ASSUME NEW b \in R, b # c PROVE Place(e, b) \cap Place(e, c) = {}
  <2>1. Place(d, b) \cap FreeClusters(d) = {} /\ Place(d, b) \cap Place(d, c) = {}
    BY <1>2, ChainParts DEF Apart
  <2> QED BY <1>1, <1>2, <2>1 DEF Regrown
<1>3. \A b \in R : HasChain(e, b)
  BY <1>1 DEF Regrown
<1>4. ASSUME NEW a \in R, NEW b \in R, a # b PROVE Place(e, a) \cap Place(e, b) = {}
  <2>1. CASE a = c
    BY <1>2, <1>4, <2>1
  <2>2. CASE b = c
    BY <1>2, <1>4, <2>2
  <2>3. CASE a # c /\ b # c
    BY <1>1, <1>4, <2>3 DEF Apart
  <2> QED BY <2>1, <2>2, <2>3
<1> QED BY <1>1, <1>3, <1>4 DEF Apart

(* So does a file that starts with a free cluster.                         *)
LEMMA FreshApart ==
    ASSUME NEW d, d.fat \in Tables, NEW e, NEW R, Apart(d, R), NEW c \in FreeClusters(d),
           e.fat = [d.fat EXCEPT ![c] = END]
    PROVE  /\ c \notin R /\ Apart(e, R \cup {c}) /\ Apart(e, R)
           /\ ChainFrom(e, c) = <<c>> /\ HasChain(e, c)
           /\ \A b \in R : ChainFrom(e, b) = ChainFrom(d, b) /\ Place(e, b) = Place(d, b)
           /\ \A b \in R : c \notin Place(d, b)
<1>1. c \in Clusters /\ d.fat[c] = FREE /\ e.fat[c] = END
      /\ \A a \in Clusters : a # c => e.fat[a] = d.fat[a]
  BY DEF FreeClusters, Tables
<1>2. Path(e.fat, <<c>>) /\ On(<<c>>) = {c}
  BY <1>1 DEF Path, On
<1>3. HasChain(e, c) /\ ChainFrom(e, c) = <<c>> /\ Place(e, c) = {c}
  BY <1>2, ChainOf
<1>4. ASSUME NEW b \in R
      PROVE  /\ HasChain(e, b) /\ ChainFrom(e, b) = ChainFrom(d, b) /\ Place(e, b) = Place(d, b)
             /\ c \notin Place(d, b) /\ b # c
  <2>1. HasChain(d, b)
    BY DEF Apart
  <2>2. Place(d, b) \subseteq Clusters /\ Place(d, b) \cap FreeClusters(d) = {} /\ b \in Place(d, b)
    BY <2>1, ChainParts
  <2>3. c \notin Place(d, b) /\ b # c
    BY <2>2
  <2>4. \A a \in Place(d, b) : e.fat[a] = d.fat[a]
    BY <1>1, <2>2, <2>3
  <2>5. HasChain(e, b) /\ ChainFrom(e, b) = ChainFrom(d, b) /\ Place(e, b) = Place(d, b)
    BY <2>1, <2>4, ChainStays
  <2> QED BY <2>3, <2>5
<1>5. Apart(e, R)
  BY <1>4 DEF Apart
<1>6. Apart(e, R \cup {c})
  BY <1>3, <1>4, <1>5 DEF Apart
<1> QED BY <1>3, <1>4, <1>5, <1>6

(* An unchanged table leaves every chain alone.                            *)
LEMMA RegrownSame ==
    ASSUME NEW d, NEW e, NEW c, HasChain(d, c), e.fat = d.fat
    PROVE  /\ Regrown(d, e, c) /\ HasChain(e, c)
           /\ ChainFrom(e, c) = ChainFrom(d, c) /\ Place(e, c) = Place(d, c)
<1>1. HasChain(e, c) /\ ChainFrom(e, c) = ChainFrom(d, c) /\ Place(e, c) = Place(d, c)
  BY ChainStays
<1> QED BY <1>1 DEF Regrown

-----------------------------------------------------------------------------
(* Rounding.                                                               *)

(* Rounding up gives the least number of blocks that hold x.               *)
LEMMA CeilIs ==
    ASSUME NEW b \in Nat, b > 0, NEW x \in Nat
    PROVE  LET k == (x + b - 1) \div b
           IN k \in Nat /\ x <= k * b /\ \A n \in Nat : x <= b * n => k <= n
<1> DEFINE y == x + b - 1
           k == y \div b
           r == y % b
<1>1. y \in Nat
  OBVIOUS
<1>2. y = b * k + r /\ r \in 0 .. b - 1 /\ k \in Nat
  <2> HIDE DEF y
  <2> QED BY <1>1, Divided
<1> HIDE DEF k, r
<1>3. b * k = k * b
  BY <1>2
<1>4. x <= k * b
  BY <1>2, <1>3
<1>5. ASSUME NEW n \in Nat, x <= b * n, k >= n + 1 PROVE FALSE
  <2>1. b * k >= b * (n + 1)
    BY <1>2, <1>5
  <2>2. b * (n + 1) = b * n + b
    OBVIOUS
  <2> QED BY <1>2, <1>5, <2>1, <2>2
<1>6. \A n \in Nat : x <= b * n => k <= n
  BY <1>2, <1>5
<1> QED BY <1>2, <1>4, <1>6 DEF k

(* Rounding down gives the greatest number of whole blocks in x.           *)
LEMMA FloorIs ==
    ASSUME NEW b \in Nat, b > 0, NEW x \in Nat, NEW n \in Nat
    PROVE  /\ x <= n * b => x \div b <= n
           /\ x < n * b <=> x \div b < n
           /\ x \div b \in Nat
<1> DEFINE k == x \div b
           r == x % b
<1>1. x = b * k + r /\ r \in 0 .. b - 1 /\ k \in Nat
  BY Divided
<1> HIDE DEF k, r
<1>2. ASSUME k >= n + 1 PROVE x >= n * b + b
  <2>1. b * k >= b * (n + 1)
    BY <1>1, <1>2
  <2>2. b * (n + 1) = n * b + b
    OBVIOUS
  <2> QED BY <1>1, <2>1, <2>2
<1>3. ASSUME n >= k + 1 PROVE x < n * b
  <2>1. b * n >= b * (k + 1)
    BY <1>1, <1>3
  <2>2. b * (k + 1) = b * k + b /\ b * n = n * b
    BY <1>1
  <2> QED BY <1>1, <2>1, <2>2
<1>4. ASSUME k = n PROVE x >= n * b
  <2>1. b * k = n * b
    BY <1>1, <1>4
  <2> QED BY <1>1, <2>1
<1>5. n * b \in Nat
  OBVIOUS
<1>6. k \in Nat /\ (x <= n * b => k <= n) /\ (x < n * b <=> k < n)
  BY <1>1, <1>2, <1>3, <1>4, <1>5
<1> QED BY <1>6 DEF k

-----------------------------------------------------------------------------
(* The calls on a handle: what they leave of its file and of the others.   *)

(* A disk and a handle, on which the calls work.                           *)
Pairs == [d : Disks, h : Opened]

(* A handle of an open file: the chain of its file is there.               *)
Handled(x) == /\ x \in Pairs
              /\ HasChain(x.d, x.h.entry.first)
              /\ AtEnd(x.d, x.h)

(* From x to y the file has its name and first cluster, and only its own   *)
(* entries of the table and free ones have changed.                        *)
Moved(x, y) ==
    /\ Handled(y)
    /\ y.h.entry.name = x.h.entry.name /\ y.h.entry.first = x.h.entry.first
    /\ Regrown(x.d, y.d, x.h.entry.first)

(* Nor has the handle left its file's clusters, or written to others.      *)
OwnData(x, y) ==
    Near(x.d, x.h) =>
        /\ Near(y.d, y.h)
        /\ \A c \in Clusters \ Place(y.d, x.h.entry.first) : y.d.data[c] = x.d.data[c]

(* What a handle of an open file has.                                      *)
LEMMA HandleParts ==
    ASSUME NEW x, Handled(x)
    PROVE  /\ x.d \in Disks /\ x.d.fat \in Tables /\ x.d.data \in Datas /\ x.d.stray \in BOOLEAN
           /\ x.h \in Opened /\ x = [d |-> x.d, h |-> x.h]
           /\ x.h.entry \in [name : Names, size : Nat, first : Clusters]
           /\ x.h.entry.size \in Nat /\ x.h.entry.first \in Clusters /\ x.h.entry.name \in Names
           /\ x.h.position \in Nat /\ x.h.totalclusters \in Nat /\ x.h.lastcluster \in Clusters
           /\ x.h.currentcluster \in ClusterNumbers /\ x.h.sectorincluster \in Sectors
           /\ x.h.buffer \in Buffers /\ x.h.dirty \in BOOLEAN /\ x.h.opened = TRUE
           /\ HasChain(x.d, x.h.entry.first)
           /\ x.h.lastcluster = ChainFrom(x.d, x.h.entry.first)[Len(ChainFrom(x.d, x.h.entry.first))]
<1>1. x \in Pairs /\ x.d \in Disks /\ x.h \in Opened /\ x = [d |-> x.d, h |-> x.h]
  BY DEF Handled, Pairs
<1>2. x.d.fat \in Tables /\ x.d.data \in Datas /\ x.d.stray \in BOOLEAN
  BY <1>1 DEF Disks
<1>3. /\ x.h.entry \in [name : Names, size : Nat, first : Clusters]
      /\ x.h.entry.size \in Nat /\ x.h.entry.first \in Clusters /\ x.h.entry.name \in Names
      /\ x.h.position \in Nat /\ x.h.totalclusters \in Nat /\ x.h.lastcluster \in Clusters
      /\ x.h.currentcluster \in ClusterNumbers /\ x.h.sectorincluster \in Sectors
      /\ x.h.buffer \in Buffers /\ x.h.dirty \in BOOLEAN /\ x.h.opened = TRUE
  BY <1>1 DEF Opened
<1> QED BY <1>1, <1>2, <1>3 DEF Handled, AtEnd

(* The chain that fatallocclusters lengthens by n clusters.                *)
LEMMA AllocChain ==
    ASSUME NEW d \in Disks, NEW c, HasChain(d, c), NEW n \in Nat, n <= Cardinality(FreeClusters(d)),
           NEW last, last = ChainFrom(d, c)[Len(ChainFrom(d, c))]
    PROVE  LET a == fatallocclusters(d, last, n)
               p == ChainFrom(d, c)
               q == ChainFrom(a.d, c)
           IN  /\ a.d \in Disks /\ a.d.data = d.data /\ a.d.stray = d.stray
               /\ Regrown(d, a.d, c) /\ HasChain(a.d, c)
               /\ Len(q) = Len(p) + n /\ \A j \in 1 .. Len(p) : q[j] = p[j]
               /\ a.top = q[Len(q)] /\ a.top \in Clusters
               /\ Place(d, c) \subseteq Place(a.d, c)
<1> DEFINE p == ChainFrom(d, c)
           a == fatallocclusters(d, last, n)
<1>1. Path(d.fat, p) /\ p[1] = c /\ Place(d, c) = On(p) /\ Len(p) \in Nat /\ Len(p) > 0
  BY ChainParts
<1> HIDE DEF p, a
<1>2. Linked(d, p, n, a)
  BY <1>1, AllocIs DEF p, a
<1>3. PICK q : /\ Path(a.d.fat, q) /\ Len(q) = Len(p) + n
               /\ \A j \in 1 .. Len(p) : q[j] = p[j]
               /\ a.top = q[Len(q)]
               /\ On(q) \subseteq On(p) \cup FreeClusters(d)
  BY <1>2 DEF Linked
<1>4. q[1] = c
  BY <1>1, <1>3
<1>5. HasChain(a.d, c) /\ ChainFrom(a.d, c) = q /\ Place(a.d, c) = On(q)
  BY <1>3, <1>4, ChainOf
<1>6. Regrown(d, a.d, c)
  BY <1>1, <1>2, <1>3, <1>5 DEF Regrown, Linked
<1>7. a.top \in Clusters
  BY <1>3, PathParts
<1>8. On(p) \subseteq On(q)
  <2>1. \A j \in 1 .. Len(p) : j \in 1 .. Len(q)
    BY <1>1, <1>3
  <2> QED BY <1>3, <2>1 DEF On
<1>9. a.d \in Disks /\ a.d.data = d.data /\ a.d.stray = d.stray
  BY <1>2 DEF Linked
<1> QED BY <1>1, <1>3, <1>5, <1>6, <1>7, <1>8, <1>9 DEF p, a

(* The chain that fatdeallocclusters cuts behind its m-th cluster.         *)
LEMMA DeallocChain ==
    ASSUME NEW d \in Disks, NEW c, HasChain(d, c), NEW m \in 1 .. Len(ChainFrom(d, c)),
           NEW last, last = ChainFrom(d, c)[m]
    PROVE  LET e == fatdeallocclusters(d, last)
               q == ChainFrom(e, c)
           IN  /\ e \in Disks /\ e.data = d.data /\ e.stray = d.stray
               /\ Regrown(d, e, c) /\ HasChain(e, c)
               /\ last = q[Len(q)] /\ last \in Clusters
               /\ \A a \in Place(d, c) : a \in Place(e, c) \/ a \in FreeClusters(e)
<1> DEFINE p == ChainFrom(d, c)
           e == fatdeallocclusters(d, last)
           q == SubSeq(p, 1, m)
<1>1. Path(d.fat, p) /\ p[1] = c /\ Place(d, c) = On(p) /\ Len(p) \in Nat /\ Len(p) > 0
      /\ On(p) \subseteq Clusters
      /\ \A k \in 1 .. Len(p) : p[k] \in Clusters /\ p[k] \in On(p)
  BY ChainParts
<1>2. m \in 1 .. Len(p) /\ last = p[m]
  OBVIOUS
<1> HIDE DEF p, e, q
<1>3. /\ e \in Disks /\ e.data = d.data /\ e.stray = d.stray
      /\ Path(e.fat, q)
      /\ \A a \in Clusters \ On(p) : e.fat[a] = d.fat[a]
      /\ \A a \in On(p) \ On(q) : e.fat[a] = FREE
  BY <1>1, <1>2, DeallocIs DEF e, q
<1>4. Len(q) = m /\ (\A k \in 1 .. m : q[k] = p[k]) /\ On(q) \subseteq On(p)
  BY <1>1, <1>2, PathCut DEF q
<1>5. q[1] = c /\ q[Len(q)] = last /\ last \in Clusters
  BY <1>1, <1>2, <1>4
<1>6. HasChain(e, c) /\ ChainFrom(e, c) = q /\ Place(e, c) = On(q)
  BY <1>3, <1>5, ChainOf
<1>7. Regrown(d, e, c)
  BY <1>1, <1>3, <1>4, <1>6 DEF Regrown
<1>8. \A a \in On(p) : a \in On(q) \/ a \in FreeClusters(e)
  BY <1>1, <1>3 DEF FreeClusters
<1> QED BY <1>1, <1>3, <1>5, <1>6, <1>7, <1>8 DEF p, e

(* fileresize that makes a file longer than its clusters.                  *)
LEMMA GrowIs ==
    ASSUME NEW x, Handled(x), NEW size \in Nat, size > Capacity(x.h),
           size <= PerCluster * (x.h.totalclusters + Cardinality(FreeClusters(x.d)))
    PROVE  LET y == fileresize(x, size)
               c == x.h.entry.first
               p == ChainFrom(x.d, c)
               q == ChainFrom(y.d, c)
           IN  /\ Moved(x, y) /\ OwnData(x, y)
               /\ y.d.data = x.d.data /\ y.d.stray = x.d.stray
               /\ y.h.position = x.h.position /\ y.h.currentcluster = x.h.currentcluster
               /\ y.h.sectorincluster = x.h.sectorincluster /\ y.h.buffer = x.h.buffer
               /\ y.h.dirty /\ y.h.entry.size = size
               /\ size <= Capacity(y.h)
               /\ Len(q) - Len(p) = y.h.totalclusters - x.h.totalclusters
               /\ Len(q) >= Len(p) /\ \A j \in 1 .. Len(p) : q[j] = p[j]
<1> DEFINE h == x.h
           c == h.entry.first
           total == h.totalclusters
           short == size - total * PerCluster
           more == ClustersFor(short)
           a == fatallocclusters(x.d, h.lastcluster, more)
           y == fileresize(x, size)
<1>1. /\ x.d \in Disks /\ h \in Opened /\ x = [d |-> x.d, h |-> x.h]
      /\ h.entry \in [name : Names, size : Nat, first : Clusters]
      /\ total \in Nat /\ HasChain(x.d, c)
      /\ h.lastcluster = ChainFrom(x.d, c)[Len(ChainFrom(x.d, c))]
  BY HandleParts
<1>2. /\ total * PerCluster \in Nat /\ short \in Nat /\ short > 0
      /\ PerCluster \in Nat /\ PerCluster > 0
      /\ Cardinality(FreeClusters(x.d)) \in Nat
      /\ short <= PerCluster * Cardinality(FreeClusters(x.d))
  <2>1. total * PerCluster \in Nat /\ PerCluster \in Nat /\ PerCluster > 0
    BY <1>1, Constants
  <2>2. Cardinality(FreeClusters(x.d)) \in Nat
    BY FreeFinite
  <2>3. PerCluster * (total + Cardinality(FreeClusters(x.d)))
        = total * PerCluster + PerCluster * Cardinality(FreeClusters(x.d))
    BY <1>1, <2>1, <2>2
  <2>4. /\ size \in Nat /\ size > total * PerCluster
        /\ size <= PerCluster * (total + Cardinality(FreeClusters(x.d)))
    BY DEF Capacity
  <2> DEFINE held == total * PerCluster
             free == PerCluster * Cardinality(FreeClusters(x.d))
  <2>5. free \in Nat
    <3> DEFINE f == Cardinality(FreeClusters(x.d))
    <3>1. f \in Nat /\ PerCluster \in Nat
      BY <2>1, <2>2
    <3> HIDE DEF f
    <3>2. PerCluster * f \in Nat
      BY <3>1
    <3> QED BY <3>2 DEF f
  <2>6. held \in Nat /\ size > held /\ size <= held + free
    BY <2>1, <2>3, <2>4
  <2>7. short = size - held
    OBVIOUS
  <2> HIDE DEF held, free, short
  <2>8. short \in Nat /\ short > 0 /\ short <= free
    BY <2>4, <2>5, <2>6, <2>7
  <2> QED BY <2>1, <2>2, <2>8 DEF free, held
<1> HIDE DEF short
<1>3. more \in Nat /\ short <= more * PerCluster /\ more <= Cardinality(FreeClusters(x.d))
  BY <1>2, CeilIs DEF ClustersFor
<1> HIDE DEF more
<1>4. LET p == ChainFrom(x.d, c)
          q == ChainFrom(a.d, c)
      IN  /\ a.d \in Disks /\ a.d.data = x.d.data /\ a.d.stray = x.d.stray
          /\ Regrown(x.d, a.d, c) /\ HasChain(a.d, c)
          /\ Len(q) = Len(p) + more /\ \A j \in 1 .. Len(p) : q[j] = p[j]
          /\ a.top = q[Len(q)] /\ a.top \in Clusters
          /\ Place(x.d, c) \subseteq Place(a.d, c)
  BY <1>1, <1>3, AllocChain
<1> DEFINE g == [h EXCEPT !.totalclusters = @ + more, !.lastcluster = a.top,
                          !.entry.size = size, !.dirty = TRUE]
<1>5. y = [d |-> a.d, h |-> g]
  <2>1. size > Capacity(h) /\ short = size - Capacity(h) /\ ~ (size < Capacity(h))
    BY <1>2 DEF Capacity, short
  <2>2. y = Grow(x, size)
    BY <2>1 DEF fileresize
  <2> HIDE DEF y
  <2>3. ClustersFor(size - Capacity(h)) = more
    BY <2>1 DEF more
  <2> HIDE DEF h
  <2>4. Grow(x, size) = [d |-> a.d, h |-> g]
    BY <2>3 DEF Grow, h
  <2> QED BY <2>2, <2>4
<1> HIDE DEF a, y
<1>6. /\ g \in Opened /\ g.totalclusters = total + more /\ g.lastcluster = a.top
      /\ g.entry = [h.entry EXCEPT !.size = size] /\ g.entry.first = c
      /\ g.entry.name = h.entry.name /\ g.currentcluster = h.currentcluster
  <2>1. total + more \in Nat /\ a.top \in Clusters
    BY <1>1, <1>3, <1>4
  <2> HIDE DEF a
  <2> QED BY <1>1, <2>1 DEF Opened
<1>13. /\ g.position = h.position /\ g.sectorincluster = h.sectorincluster
       /\ g.buffer = h.buffer /\ g.dirty /\ g.entry.size = size
  <2> HIDE DEF a
  <2> QED BY <1>1, <1>6 DEF Opened
<1>7. size <= g.totalclusters * PerCluster
  <2>1. (total + more) * PerCluster = total * PerCluster + more * PerCluster
        /\ more * PerCluster \in Nat
    BY <1>1, <1>2, <1>3
  <2>2. size = total * PerCluster + short
    BY <1>2 DEF short
  <2>3. g.totalclusters * PerCluster = total * PerCluster + more * PerCluster
    <3> HIDE DEF g
    <3> QED BY <1>6, <2>1
  <2> HIDE DEF g
  <2> QED BY <1>2, <1>3, <2>1, <2>2, <2>3
<1> HIDE DEF g
<1>8. Handled(y)
  BY <1>4, <1>5, <1>6 DEF Handled, Pairs, AtEnd
<1>9. Moved(x, y) /\ OwnData(x, y)
  BY <1>4, <1>5, <1>6, <1>8 DEF Moved, OwnData, Near
<1>10. Len(ChainFrom(x.d, c)) \in Nat
  BY <1>1, ChainParts
<1>11. Len(ChainFrom(a.d, c)) - Len(ChainFrom(x.d, c)) = g.totalclusters - total
       /\ Len(ChainFrom(a.d, c)) >= Len(ChainFrom(x.d, c))
  BY <1>1, <1>3, <1>4, <1>6, <1>10
<1>12. y.d = a.d /\ y.h = g
  BY <1>5
<1> HIDE DEF y
<1>14. /\ Moved(x, y) /\ OwnData(x, y) /\ y.d.data = x.d.data /\ y.d.stray = x.d.stray
       /\ y.h.position = h.position /\ y.h.currentcluster = h.currentcluster
       /\ y.h.sectorincluster = h.sectorincluster /\ y.h.buffer = h.buffer
       /\ y.h.dirty /\ y.h.entry.size = size
       /\ size <= Capacity(y.h)
  BY <1>4, <1>6, <1>7, <1>9, <1>12, <1>13 DEF Capacity
<1>15. LET p == ChainFrom(x.d, c)
           q == ChainFrom(y.d, c)
       IN  /\ Len(q) - Len(p) = y.h.totalclusters - total
           /\ Len(q) >= Len(p) /\ \A j \in 1 .. Len(p) : q[j] = p[j]
  BY <1>4, <1>11, <1>12
<1> QED BY <1>14, <1>15 DEF y

(* Any other fileresize.                                                   *)
LEMMA ShrinkIs ==
    ASSUME NEW x, Handled(x), NEW size \in Nat, size <= Capacity(x.h)
    PROVE  LET y == fileresize(x, size)
           IN  /\ Moved(x, y) /\ y.d.data = x.d.data /\ y.d.stray = x.d.stray
               /\ y.h.currentcluster = x.h.currentcluster
               /\ \A c \in Place(x.d, x.h.entry.first) :
                     c \in Place(y.d, x.h.entry.first) \/ c \in FreeClusters(y.d)
<1> DEFINE h == x.h
           c == h.entry.first
           p == ChainFrom(x.d, c)
           total == h.totalclusters
           spare == total * PerCluster - size
           fewer == spare \div PerCluster
           keep == total - fewer
           last == fattraverse(x.d, c, keep)
           y == fileresize(x, size)
<1>1. /\ x.d \in Disks /\ h \in Opened /\ x = [d |-> x.d, h |-> x.h]
      /\ h.entry \in [name : Names, size : Nat, first : Clusters]
      /\ total \in Nat /\ HasChain(x.d, c) /\ h.lastcluster = p[Len(p)]
  BY HandleParts
<1>2. Path(x.d.fat, p) /\ p[1] = c /\ Len(p) \in Nat /\ Len(p) > 0
  BY <1>1, ChainParts
<1> HIDE DEF p
<1>3. total * PerCluster \in Nat /\ spare \in Nat /\ PerCluster \in Nat /\ PerCluster > 0
  <2>1. total * PerCluster \in Nat /\ PerCluster \in Nat /\ PerCluster > 0
    BY <1>1, Constants
  <2> QED BY <2>1 DEF Capacity
<1>4. spare <= total * PerCluster
  BY <1>3 DEF Capacity
<1> HIDE DEF spare
<1>5. fewer \in Nat /\ fewer <= total
  BY <1>1, <1>3, <1>4, FloorIs
<1>6. keep \in Nat
  BY <1>1, <1>5
<1> HIDE DEF fewer, keep
<1>7. PICK m \in 1 .. Len(p) : last = p[m]
  <2>1. last = Within(p, keep)
    BY <1>2, <1>6, TraverseIs
  <2>2. keep < Len(p) => keep + 1 \in 1 .. Len(p)
    BY <1>2, <1>6
  <2>3. Len(p) \in 1 .. Len(p)
    BY <1>2
  <2> HIDE DEF last
  <2> QED BY <2>1, <2>2, <2>3 DEF Within
<1> DEFINE e == fatdeallocclusters(x.d, last)
<1>8. CASE size < total * PerCluster
  <2> DEFINE g == [h EXCEPT !.totalclusters = @ - fewer, !.lastcluster = last,
                            !.entry.size = size, !.dirty = TRUE]
  <2>1. LET q == ChainFrom(e, c)
        IN  /\ e \in Disks /\ e.data = x.d.data /\ e.stray = x.d.stray
            /\ Regrown(x.d, e, c) /\ HasChain(e, c)
            /\ last = q[Len(q)] /\ last \in Clusters
            /\ \A a \in Place(x.d, c) : a \in Place(e, c) \/ a \in FreeClusters(e)
    BY <1>1, <1>7, DeallocChain DEF p
  <2>2. y = [d |-> e, h |-> g]
    <3>1. ~ (size > Capacity(h)) /\ size < Capacity(h) /\ spare = Capacity(h) - size
      BY <1>3, <1>8 DEF Capacity, spare
    <3>2. y = Shrink(x, size)
      BY <3>1 DEF fileresize
    <3> HIDE DEF y
    <3>3. (Capacity(h) - size) \div PerCluster = fewer
      BY <3>1 DEF fewer
    <3>4. total - fewer = keep
      BY DEF keep
    <3>5. Shrink(x, size) = [d |-> e, h |-> g]
      BY <3>3, <3>4 DEF Shrink
    <3> QED BY <3>2, <3>5
  <2> HIDE DEF last, e, y
  <2>3. /\ g \in Opened /\ g.lastcluster = last
        /\ g.entry.first = c /\ g.entry.name = h.entry.name
        /\ g.currentcluster = h.currentcluster
    <3>1. total - fewer \in Nat
      BY <1>1, <1>5
    <3> QED BY <1>1, <2>1, <3>1 DEF Opened
  <2> HIDE DEF g
  <2>4. Handled(y)
    BY <2>1, <2>2, <2>3 DEF Handled, Pairs, AtEnd
  <2>5. Moved(x, y)
    BY <2>1, <2>2, <2>3, <2>4 DEF Moved
  <2> QED BY <2>1, <2>2, <2>3, <2>5 DEF y
<1>9. CASE ~ (size < total * PerCluster)
  <2> DEFINE g == [h EXCEPT !.entry.size = size, !.dirty = TRUE]
  <2>1. y = [d |-> x.d, h |-> g]
    <3>1. ~ (size > Capacity(h)) /\ ~ (size < Capacity(h))
      BY <1>3, <1>9 DEF Capacity
    <3>2. y = [x EXCEPT !.h.entry.size = size, !.h.dirty = TRUE]
      BY <3>1 DEF fileresize
    <3> QED BY <1>1, <3>2
  <2> HIDE DEF y
  <2>2. /\ g \in Opened /\ g.lastcluster = h.lastcluster
        /\ g.entry.first = c /\ g.entry.name = h.entry.name
        /\ g.currentcluster = h.currentcluster
    BY <1>1 DEF Opened
  <2> HIDE DEF g
  <2>3. Regrown(x.d, x.d, c)
    BY <1>1, RegrownSame
  <2>4. Handled(y)
    BY <1>1, <2>1, <2>2 DEF Handled, Pairs, AtEnd, p
  <2>5. Moved(x, y)
    BY <2>1, <2>2, <2>3, <2>4 DEF Moved
  <2> QED BY <2>1, <2>2, <2>5 DEF y
<1> QED BY <1>8, <1>9

(* Two states of a handle of one file.                                     *)
SameFile(h, g) == /\ g.entry = h.entry /\ g.totalclusters = h.totalclusters
                  /\ g.lastcluster = h.lastcluster

(* A call that does not change the table.                                  *)
LEMMA SameTable ==
    ASSUME NEW x, Handled(x), NEW y, y \in Pairs, y.d.fat = x.d.fat,
           y.h.entry.name = x.h.entry.name, y.h.entry.first = x.h.entry.first,
           y.h.lastcluster = x.h.lastcluster
    PROVE  /\ Moved(x, y)
           /\ ChainFrom(y.d, x.h.entry.first) = ChainFrom(x.d, x.h.entry.first)
           /\ Place(y.d, x.h.entry.first) = Place(x.d, x.h.entry.first)
<1> DEFINE c == x.h.entry.first
<1>1. HasChain(x.d, c)
  BY HandleParts
<1> HIDE DEF c
<1>2. Regrown(x.d, y.d, c) /\ HasChain(y.d, c) /\ ChainFrom(y.d, c) = ChainFrom(x.d, c)
      /\ Place(y.d, c) = Place(x.d, c)
  BY <1>1, RegrownSame
<1>3. Handled(y)
  BY <1>2 DEF Handled, AtEnd, c
<1> QED BY <1>2, <1>3 DEF Moved, c

(* The chain and what lies behind its end are closed under going on.       *)
LEMMA NearNext ==
    ASSUME NEW d, d.fat \in Tables, NEW c, HasChain(d, c)
    PROVE  /\ \A e \in Place(d, c) \cup {FREE, END} : fatclustervalue(d, e) \in Place(d, c) \cup {FREE, END}
           /\ \A k \in Nat : Behind(d, c, k) \in Place(d, c) \cup {FREE, END}
<1> DEFINE p == ChainFrom(d, c)
<1>1. /\ Path(d.fat, p) /\ p[1] = c /\ Place(d, c) = On(p) /\ Len(p) \in Nat
      /\ \A k \in 1 .. Len(p) : p[k] \in Clusters /\ p[k] \in On(p)
  BY ChainParts
<1> HIDE DEF p
<1>2. ASSUME NEW e \in On(p) PROVE fatclustervalue(d, e) \in On(p) \cup {END}
  <2>1. PICK k \in 1 .. Len(p) : e = p[k]
    BY DEF On
  <2>2. fatclustervalue(d, e) = d.fat[p[k]]
    BY <1>1, <2>1, NextIs
  <2>3. CASE k = Len(p)
    BY <1>1, <2>2, <2>3 DEF Path
  <2>4. CASE k # Len(p)
    <3>1. k \in 1 .. Len(p) - 1 /\ k + 1 \in 1 .. Len(p)
      BY <1>1, <2>4
    <3> QED BY <1>1, <2>2, <3>1 DEF Path
  <2> QED BY <2>3, <2>4
<1>3. fatclustervalue(d, FREE) = END /\ fatclustervalue(d, END) = FREE
  BY NextIs
<1>4. ASSUME NEW k \in Nat PROVE Behind(d, c, k) \in On(p) \cup {FREE, END}
  <2>1. Behind(d, c, k) \in Ahead(p, k)
    BY <1>1, BehindIs
  <2>2. k < Len(p) => k + 1 \in 1 .. Len(p)
    BY <1>1
  <2> QED BY <1>1, <2>1, <2>2 DEF Ahead
<1> QED BY <1>1, <1>2, <1>3, <1>4

(* The next sector is of the same file, or the handle is behind its end.   *)
LEMMA NextSectorIs ==
    ASSUME NEW d, d.fat \in Tables, NEW h \in Opened
    PROVE  LET g == NextSector(d, h)
           IN  /\ g \in Opened
               /\ SameFile(h, g) /\ g.dirty = h.dirty /\ g.position = h.position /\ g.buffer = h.buffer
               /\ HasChain(d, h.entry.first) /\ Near(d, h) => Near(d, g)
<1> DEFINE g == NextSector(d, h)
           s == h.sectorincluster
           c == h.currentcluster
           n == fatclustervalue(d, c)
<1>1. s \in Sectors /\ c \in ClusterNumbers /\ SPC \in Nat /\ SPC > 0
      /\ n \in ClusterNumbers
  <2>1. s \in Sectors /\ c \in ClusterNumbers
    BY DEF Opened
  <2> QED BY <2>1, Constants, NextIs
<1>2. HasChain(d, h.entry.first) /\ Near(d, h) => n \in Place(d, h.entry.first) \cup {FREE, END}
  BY NearNext DEF Near
<1> HIDE DEF n
<1>3. CASE s + 1 < SPC
  <2>1. g = [h EXCEPT !.sectorincluster = s + 1]
    BY <1>3 DEF NextSector
  <2>2. s + 1 \in Sectors
    BY <1>1, <1>3 DEF Sectors
  <2> HIDE DEF g
  <2> QED BY <2>1, <2>2 DEF Opened, Near, SameFile, g
<1>4. CASE ~ (s + 1 < SPC)
  <2>1. g = [h EXCEPT !.sectorincluster = 0, !.currentcluster = n]
    BY <1>4 DEF NextSector, n
  <2>2. 0 \in Sectors
    BY <1>1 DEF Sectors
  <2> HIDE DEF g
  <2>3. /\ g \in Opened /\ g.currentcluster = n /\ SameFile(h, g)
        /\ g.dirty = h.dirty /\ g.position = h.position /\ g.buffer = h.buffer
    BY <1>1, <2>1, <2>2 DEF Opened, SameFile
  <2> QED BY <1>2, <2>3 DEF Near, SameFile, g
<1> QED BY <1>3, <1>4

LEMMA SectorValue ==
    ASSUME NEW d \in Disks, NEW c, NEW s \in Sectors
    PROVE  fatreadsector(d, c, s) \in Buffers
<1>1. CASE c \in Clusters
  BY <1>1 DEF fatreadsector, Disks, Datas
<1>2. CASE c \notin Clusters
  BY <1>2 DEF fatreadsector, Buffers, UnitValues
<1> QED BY <1>1, <1>2

(* A sector of a data cluster is written in place; any other goes astray.  *)
LEMMA WriteHere ==
    ASSUME NEW d \in Disks, NEW c \in Clusters, NEW s \in Sectors, NEW b \in Buffers
    PROVE  LET e == fatwritesector(d, c, s, b)
           IN  /\ e \in Disks /\ e.fat = d.fat /\ e.stray = d.stray
               /\ e.data[c][s] = b
               /\ \A t \in Sectors : t # s => e.data[c][t] = d.data[c][t]
               /\ \A a \in Clusters : a # c => e.data[a] = d.data[a]
<1> DEFINE e == fatwritesector(d, c, s, b)
           u == [d.data EXCEPT ![c][s] = b]
<1>1. e = [d EXCEPT !.data[c][s] = b]
  BY DEF fatwritesector
<1>2. d.data \in Datas
  BY DEF Disks
<1>3. u \in Datas /\ u[c][s] = b /\ (\A t \in Sectors : t # s => u[c][t] = d.data[c][t])
      /\ \A a \in Clusters : a # c => u[a] = d.data[a]
  BY <1>2 DEF Datas
<1>4. e = [d EXCEPT !.data = u]
  BY <1>1
<1> HIDE DEF u, e
<1>5. e \in Disks /\ e.fat = d.fat /\ e.stray = d.stray /\ e.data = u
  BY <1>3, <1>4 DEF Disks
<1> QED BY <1>3, <1>5 DEF e, u

LEMMA WriteAstray ==
    ASSUME NEW d \in Disks, NEW c, c \notin Clusters, NEW s, NEW b
    PROVE  LET e == fatwritesector(d, c, s, b)
           IN  e \in Disks /\ e.fat = d.fat /\ e.data = d.data
<1> DEFINE e == fatwritesector(d, c, s, b)
<1>1. e = [d EXCEPT !.stray = TRUE]
  BY DEF fatwritesector
<1> HIDE DEF e
<1>2. e \in Disks /\ e.fat = d.fat /\ e.data = d.data
  BY <1>1 DEF Disks
<1> QED BY <1>2 DEF e

(* Only the cluster that is written changes.                               *)
LEMMA WriteFrame ==
    ASSUME NEW d \in Disks, NEW c, NEW s \in Sectors, NEW b \in Buffers
    PROVE  LET e == fatwritesector(d, c, s, b)
           IN  /\ e \in Disks /\ e.fat = d.fat
               /\ \A a \in Clusters : a # c => e.data[a] = d.data[a]
<1>1. CASE c \in Clusters
  BY <1>1, WriteHere
<1>2. CASE c \notin Clusters
  BY <1>2, WriteAstray
<1> QED BY <1>1, <1>2

(* fileflush.                                                              *)
LEMMA FlushIs ==
    ASSUME NEW x, Handled(x)
    PROVE  LET y == fileflush(x)
               g == NextSector(x.d, x.h)
           IN  /\ Moved(x, y) /\ OwnData(x, y) /\ y.d.fat = x.d.fat
               /\ y.h \in Opened /\ ~y.h.dirty
               /\ SameFile(x.h, y.h) /\ y.h.position = x.h.position /\ y.h.buffer = x.h.buffer
               /\ ~x.h.dirty => y = x
               /\ x.h.dirty => /\ y.d = fatwritesector(x.d, x.h.currentcluster, x.h.sectorincluster,
                                                       x.h.buffer)
                               /\ y.h.sectorincluster = g.sectorincluster
                               /\ y.h.currentcluster = g.currentcluster
<1> DEFINE y == fileflush(x)
           g == NextSector(x.d, x.h)
           c == x.h.entry.first
           b == x.h.currentcluster
           s == x.h.sectorincluster
           e == fatwritesector(x.d, b, s, x.h.buffer)
           f == [g EXCEPT !.dirty = FALSE]
<1>1. /\ x.d \in Disks /\ x.d.fat \in Tables /\ x.h \in Opened /\ x = [d |-> x.d, h |-> x.h]
      /\ b \in ClusterNumbers /\ s \in Sectors /\ x.h.buffer \in Buffers
      /\ HasChain(x.d, c) /\ x.h.dirty \in BOOLEAN
  BY HandleParts
<1>2. CASE ~x.h.dirty
  <2>1. y = x
    BY <1>2 DEF fileflush
  <2>2. Moved(x, x)
    BY <1>1, SameTable DEF Pairs
  <2>3. SameFile(x.h, x.h)
    BY DEF SameFile
  <2> HIDE DEF y
  <2> QED BY <1>1, <1>2, <2>1, <2>2, <2>3 DEF OwnData, y
<1>3. CASE x.h.dirty
  <2>1. y = [d |-> e, h |-> f]
    BY <1>3 DEF fileflush
  <2>2. /\ e \in Disks /\ e.fat = x.d.fat /\ \A a \in Clusters : a # b => e.data[a] = x.d.data[a]
    <3> HIDE DEF b, s, c, g, f, y
    <3> DEFINE d == x.d
               buf == x.h.buffer
    <3>1. d \in Disks /\ s \in Sectors /\ buf \in Buffers
      BY <1>1
    <3> HIDE DEF d, buf
    <3>2. LET w == fatwritesector(d, b, s, buf)
          IN  w \in Disks /\ w.fat = d.fat /\ \A a \in Clusters : a # b => w.data[a] = d.data[a]
      BY <3>1, WriteFrame
    <3> QED BY <3>2 DEF d, buf
  <2>3. /\ g \in Opened /\ SameFile(x.h, g)
        /\ g.dirty = x.h.dirty /\ g.position = x.h.position /\ g.buffer = x.h.buffer
        /\ Near(x.d, x.h) => Near(x.d, g)
    BY <1>1, NextSectorIs
  <2> HIDE DEF e, g, y
  <2>4. /\ f \in Opened /\ ~f.dirty
        /\ SameFile(x.h, f) /\ f.position = x.h.position /\ f.buffer = x.h.buffer
        /\ f.sectorincluster = g.sectorincluster /\ f.currentcluster = g.currentcluster
        /\ f.entry = x.h.entry /\ f.entry = g.entry /\ f.lastcluster = x.h.lastcluster
    BY <1>1, <2>3 DEF Opened, SameFile
  <2> HIDE DEF f
  <2>5. y \in Pairs /\ y.d = e /\ y.h = f
    BY <2>1, <2>2, <2>4 DEF Pairs
  <2>6. Moved(x, y) /\ Place(y.d, c) = Place(x.d, c)
    BY <2>2, <2>4, <2>5, SameTable
  <2>7. OwnData(x, y)
    <3> SUFFICES ASSUME Near(x.d, x.h)
                 PROVE  /\ Near(y.d, y.h)
                        /\ \A a \in Clusters \ Place(y.d, c) : y.d.data[a] = x.d.data[a]
      BY DEF OwnData
    <3>1. g.currentcluster \in Place(x.d, c) \cup {FREE, END}
      BY <2>3, <2>4 DEF Near
    <3>2. Near(y.d, y.h)
      BY <2>4, <2>5, <2>6, <3>1 DEF Near
    <3>3. \A a \in Clusters \ Place(x.d, c) : a # b
      BY Marks DEF Near
    <3> QED BY <2>2, <2>5, <2>6, <3>2, <3>3
  <2> QED BY <1>3, <2>2, <2>4, <2>5, <2>6, <2>7 DEF y, e, g
<1> QED BY <1>1, <1>2, <1>3

(* fileseek.                                                               *)
LEMMA SeekIs ==
    ASSUME NEW x, Handled(x), NEW p \in Nat
    PROVE  LET y == fileseek(x, p)
               c == Behind(x.d, x.h.entry.first, p \div PerCluster)
               s == (p \div S) % SPC
           IN  /\ Moved(x, y) /\ OwnData(x, y) /\ y.d = x.d
               /\ SameFile(x.h, y.h) /\ y.h.dirty = x.h.dirty
               /\ y.h.position = p /\ y.h.currentcluster = c /\ y.h.sectorincluster = s
               /\ x.h.currentcluster = c /\ x.h.sectorincluster = s => y.h.buffer = x.h.buffer
               /\ ~ (x.h.currentcluster = c /\ x.h.sectorincluster = s) =>
                    y.h.buffer = fatreadsector(x.d, c, s)
<1> DEFINE y == fileseek(x, p)
           f == x.h.entry.first
           c == Behind(x.d, f, p \div PerCluster)
           s == (p \div S) % SPC
           moved == x.h.currentcluster # c \/ x.h.sectorincluster # s
           b == IF moved THEN fatreadsector(x.d, c, s) ELSE x.h.buffer
<1>1. /\ x.d \in Disks /\ x.d.fat \in Tables /\ x.h \in Opened /\ x = [d |-> x.d, h |-> x.h]
      /\ x.h.buffer \in Buffers /\ HasChain(x.d, f)
  BY HandleParts
<1>2. p \div PerCluster \in Nat
  BY Constants, Divided
<1>3. s \in Sectors
  <2>1. p \div S \in Nat
    BY Constants, Divided
  <2>2. \A q \in Nat : q % SPC \in 0 .. SPC - 1
    BY Constants, Divided
  <2> QED BY <2>1, <2>2 DEF Sectors
<1>4. c \in Place(x.d, f) \cup {FREE, END} /\ c \in ClusterNumbers
  <2>1. c \in Place(x.d, f) \cup {FREE, END}
    BY <1>1, <1>2, NearNext
  <2>2. Place(x.d, f) \subseteq Clusters
    BY <1>1, ChainParts
  <2> HIDE DEF c, f
  <2> QED BY <2>1, <2>2 DEF ClusterNumbers
<1>5. b \in Buffers
  BY <1>1, <1>3, SectorValue
<1> DEFINE g == [x.h EXCEPT !.position = p, !.currentcluster = c, !.sectorincluster = s, !.buffer = b]
<1>6. y = [x EXCEPT !.h.position = p, !.h.currentcluster = c, !.h.sectorincluster = s, !.h.buffer = b]
  BY DEF fileseek
<1> HIDE DEF c, s, b, y, f
<1>7. y = [d |-> x.d, h |-> g]
  BY <1>1, <1>6
<1>8. /\ g \in Opened /\ g.entry = x.h.entry /\ g.lastcluster = x.h.lastcluster /\ g.buffer = b
      /\ g.currentcluster = c
      /\ SameFile(x.h, g) /\ g.dirty = x.h.dirty /\ g.position = p /\ g.sectorincluster = s
  BY <1>1, <1>3, <1>4, <1>5 DEF Opened, SameFile
<1> HIDE DEF g
<1>9. y \in Pairs /\ y.d = x.d /\ y.h = g
  BY <1>1, <1>7, <1>8 DEF Pairs
<1>10. Moved(x, y)
  BY <1>8, <1>9, SameTable
<1>11. OwnData(x, y)
  BY <1>4, <1>8, <1>9 DEF OwnData, Near, f
<1> QED BY <1>8, <1>9, <1>10, <1>11 DEF y, c, s, b, f

(* filereset.                                                              *)
LEMMA ResetIs ==
    ASSUME NEW x, Handled(x)
    PROVE  LET y == filereset(x)
               c == x.h.entry.first
           IN  /\ Moved(x, y) /\ OwnData(x, y) /\ y.d = x.d
               /\ SameFile(x.h, y.h) /\ y.h.dirty = x.h.dirty
               /\ y.h.position = 0 /\ y.h.currentcluster = c /\ y.h.sectorincluster = 0
               /\ x.h.position < S => y.h.buffer = x.h.buffer
               /\ x.h.position >= S => y.h.buffer = fatreadsector(x.d, c, 0)
<1> DEFINE y == filereset(x)
           c == x.h.entry.first
           b == IF x.h.position >= S THEN fatreadsector(x.d, c, 0) ELSE x.h.buffer
<1>1. /\ x.d \in Disks /\ x.h \in Opened /\ x = [d |-> x.d, h |-> x.h] /\ c \in Clusters
      /\ x.h.buffer \in Buffers /\ HasChain(x.d, c) /\ x.h.position \in Nat
  BY HandleParts
<1>2. 0 \in Sectors
  BY Constants DEF Sectors
<1>3. c \in Place(x.d, c) /\ c \in ClusterNumbers
  BY <1>1, ChainParts DEF ClusterNumbers
<1>4. b \in Buffers
  BY <1>1, <1>2, SectorValue
<1> DEFINE g == [x.h EXCEPT !.position = 0, !.currentcluster = c, !.sectorincluster = 0, !.buffer = b]
<1>5. y = [x EXCEPT !.h.position = 0, !.h.currentcluster = c, !.h.sectorincluster = 0, !.h.buffer = b]
  BY DEF filereset
<1> HIDE DEF b, y
<1>6. y = [d |-> x.d, h |-> g]
  BY <1>1, <1>5
<1>7. /\ g \in Opened /\ g.entry = x.h.entry /\ g.lastcluster = x.h.lastcluster /\ g.buffer = b
      /\ g.currentcluster = c
      /\ SameFile(x.h, g) /\ g.dirty = x.h.dirty /\ g.position = 0 /\ g.sectorincluster = 0
  BY <1>1, <1>2, <1>3, <1>4 DEF Opened, SameFile
<1> HIDE DEF g
<1>8. y \in Pairs /\ y.d = x.d /\ y.h = g
  BY <1>1, <1>6, <1>7 DEF Pairs
<1>9. Moved(x, y)
  BY <1>7, <1>8, SameTable
<1>10. OwnData(x, y)
  BY <1>3, <1>7, <1>8 DEF OwnData, Near
<1>11. (x.h.position < S => b = x.h.buffer) /\ (x.h.position >= S => b = fatreadsector(x.d, c, 0))
  BY <1>1, Constants DEF b
<1> QED BY <1>7, <1>8, <1>9, <1>10, <1>11 DEF y

-----------------------------------------------------------------------------
(* Reading.                                                                *)

(* Where the k-th sector from the one that at is in begins, but at itself  *)
(* for the first.                                                          *)
Spot(at, k) == IF k = 0 THEN at ELSE S * ((at \div S) + k)

(* The rounds of a loop divide what it moves at the ends of sectors.       *)
LEMMA SpotIs ==
    ASSUME NEW at \in Nat, NEW k \in Nat
    PROVE  /\ Spot(at, k) \in Nat /\ Spot(at, k) >= at
           /\ Spot(at, k) % S = IF k = 0 THEN at % S ELSE 0
           /\ Spot(at, k) \div S = (at \div S) + k
           /\ Spot(at, k) % S \in Units
           /\ Spot(at, k) + (S - (Spot(at, k) % S)) = Spot(at, k + 1)
<1> DEFINE q == at \div S
           r == at % S
<1>1. S \in Nat /\ S > 0 /\ at = S * q + r /\ r \in 0 .. S - 1 /\ q \in Nat
  BY Constants, Divided
<1> HIDE DEF q, r
<1>2. S * (q + k) = S * q + S * k /\ S * k \in Nat /\ S * (q + (k + 1)) = S * q + S * k + S
      /\ S * q \in Nat
  BY <1>1
<1>3. Spot(at, k + 1) = S * (q + (k + 1))
  BY DEF Spot, q
<1>4. CASE k = 0
  <2>1. Spot(at, k) = at /\ at % S = r /\ at \div S = q
    BY <1>4 DEF Spot, q, r
  <2>2. S * k = 0
    BY <1>1, <1>4
  <2> QED BY <1>1, <1>2, <1>3, <1>4, <2>1, <2>2 DEF Units
<1>5. CASE k # 0
  <2>1. Spot(at, k) = S * (q + k)
    BY <1>5 DEF Spot, q
  <2>2. S * k >= S
    BY <1>1, <1>5
  <2>3. S * (q + k) \in Nat /\ S * (q + k) >= at
    BY <1>1, <1>2, <2>2
  <2>4. (S * (q + k)) \div S = q + k /\ (S * (q + k)) % S = 0
    <3>1. S * (q + k) = S * (q + k) + 0 /\ 0 \in 0 .. S - 1 /\ q + k \in Int
      BY <1>1, <2>3
    <3> QED BY <1>1, <2>3, <3>1, Division
  <2> QED BY <1>1, <1>2, <1>3, <1>5, <2>1, <2>3, <2>4 DEF Units, q
<1> QED BY <1>4, <1>5

(* Of the n units from at, the sectors read to their ends, and the rest.   *)
LEMMA SpotEnd ==
    ASSUME NEW at \in Nat, NEW n \in Nat, NEW K, K = ((at % S) + n) \div S
    PROVE  /\ K \in Nat
           /\ \A k \in 0 .. K : Spot(at, k) <= at + n
           /\ (at + n) - Spot(at, K) \in 0 .. S - (Spot(at, K) % S)
           /\ (at + n) - Spot(at, K) < S - (Spot(at, K) % S)
           /\ (at + n) \div S = (at \div S) + K
<1> DEFINE q == at \div S
           r == at % S
           e == (r + n) % S
<1>1. S \in Nat /\ S > 0 /\ at = S * q + r /\ r \in 0 .. S - 1 /\ q \in Nat
  BY Constants, Divided
<1>2. r + n = S * K + e /\ e \in 0 .. S - 1 /\ K \in Nat
  <2> HIDE DEF r
  <2>1. r + n \in Nat /\ K = (r + n) \div S
    BY <1>1 DEF r
  <2> QED BY <1>1, <2>1, Divided
<1> HIDE DEF q, e
<1>3. \A k \in 0 .. K : Spot(at, k) = IF k = 0 THEN at ELSE S * q + S * k
  <2>1. \A k \in Nat : S * (q + k) = S * q + S * k
    BY <1>1
  <2> QED BY <1>2, <2>1 DEF Spot, q
<1>4. Spot(at, K) % S = IF K = 0 THEN r ELSE 0
  BY <1>2, SpotIs
<1> HIDE DEF r
<1>5. ASSUME NEW k \in 0 .. K PROVE S * k <= S * K /\ S * k \in Nat
  BY <1>1, <1>2
<1>6. S * q \in Nat /\ S * K \in Nat
  BY <1>1, <1>2
<1>7. \A k \in 0 .. K : Spot(at, k) <= at + n
  BY <1>1, <1>2, <1>3, <1>5, <1>6
<1>8. K \in 0 .. K
  BY <1>2
<1>11. (at + n) \div S = q + K
  <2>1. at + n = S * (q + K) + e /\ q + K \in Int /\ at + n \in Int
    <3>1. S * (q + K) = S * q + S * K
      BY <1>1, <1>2
    <3> QED BY <1>1, <1>2, <1>6, <3>1
  <2> QED BY <1>1, <1>2, <2>1, Division
<1>12. /\ (at + n) - Spot(at, K) \in 0 .. S - (Spot(at, K) % S)
       /\ (at + n) - Spot(at, K) < S - (Spot(at, K) % S)
  <2>1. \/ Spot(at, K) = at /\ Spot(at, K) % S = r /\ S * K = 0
        \/ Spot(at, K) = S * q + S * K /\ Spot(at, K) % S = 0
    <3>1. K = 0 => S * K = 0
      BY <1>1
    <3> QED BY <1>3, <1>4, <1>8, <3>1
  <2> DEFINE m == S * K
             v == S * q
  <2>2. /\ m \in Nat /\ v \in Nat /\ at = v + r /\ r + n = m + e
        /\ r \in 0 .. S - 1 /\ e \in 0 .. S - 1 /\ S \in Nat
        /\ \/ Spot(at, K) = at /\ Spot(at, K) % S = r /\ m = 0
           \/ Spot(at, K) = v + m /\ Spot(at, K) % S = 0
    BY <1>1, <1>2, <1>6, <2>1
  <2> HIDE DEF m, v
  <2>3. CASE Spot(at, K) = at /\ Spot(at, K) % S = r /\ m = 0
    <3>1. (at + n) - Spot(at, K) = e - r /\ e - r \in 0 .. S - r /\ e - r < S - r
      BY <2>2, <2>3
    <3> QED BY <2>3, <3>1
  <2>4. CASE Spot(at, K) = v + m /\ Spot(at, K) % S = 0
    <3>1. (at + n) - Spot(at, K) = e /\ e \in 0 .. S - 0 /\ e < S - 0
      BY <2>2, <2>4
    <3> QED BY <2>4, <3>1
  <2> QED BY <2>2, <2>3, <2>4
<1> QED BY <1>2, <1>7, <1>11, <1>12 DEF q

(* What the loops have in hand.                                            *)
Reading == [h : Opened, units : Seq(UnitValues), eof : BOOLEAN, ret : Nat]

LEMMA TakeIs ==
    ASSUME NEW y \in Reading, NEW k \in 0 .. S - (y.h.position % S)
    PROVE  LET z == Take(y, k)
           IN  /\ z \in Reading /\ z.h = [y.h EXCEPT !.position = @ + k]
               /\ z.eof = y.eof /\ z.ret = y.ret
               /\ Len(z.units) = Len(y.units) + k
               /\ \A j \in 1 .. Len(y.units) : z.units[j] = y.units[j]
               /\ \A j \in 1 .. k : z.units[Len(y.units) + j] = y.h.buffer[(y.h.position % S) + j - 1]
<1> DEFINE r == y.h.position % S
           t == [j \in 1 .. k |-> y.h.buffer[r + j - 1]]
           z == Take(y, k)
           g == [y.h EXCEPT !.position = @ + k]
<1>1. /\ y.h \in Opened /\ y.units \in Seq(UnitValues)
      /\ y = [h |-> y.h, units |-> y.units, eof |-> y.eof, ret |-> y.ret]
  BY DEF Reading
<1>2. y.h.position \in Nat /\ y.h.buffer \in Buffers /\ S \in Nat /\ S > 0
  BY <1>1, Constants DEF Opened
<1>3. r \in 0 .. S - 1 /\ k \in Nat
  BY <1>2, Divided
<1> HIDE DEF r
<1>4. k \in 0 .. S - r
  BY DEF r
<1>5. t \in Seq(UnitValues) /\ Len(t) = k
  <2>1. \A j \in 1 .. k : r + j - 1 \in Units
    BY <1>2, <1>3, <1>4 DEF Units
  <2>2. \A j \in 1 .. k : t[j] \in UnitValues
    BY <1>2, <2>1 DEF Buffers
  <2> QED BY <1>3, <2>2
<1>6. z = [y EXCEPT !.units = @ \o t, !.h.position = @ + k]
  BY DEF Take, r
<1>7. \A j \in 1 .. k : t[j] = y.h.buffer[r + j - 1]
  OBVIOUS
<1> HIDE DEF t, z
<1>8. z = [h |-> g, units |-> y.units \o t, eof |-> y.eof, ret |-> y.ret]
  <2> DEFINE u == y.units \o t
             i == y.h.position + k
  <2>1. z = [y EXCEPT !.units = u, !.h.position = i] /\ g = [y.h EXCEPT !.position = i]
    BY <1>6
  <2> HIDE DEF u, i, g
  <2>2. z = [h |-> g, units |-> u, eof |-> y.eof, ret |-> y.ret]
    BY <1>1, <2>1
  <2> QED BY <2>2 DEF u
<1>9. g \in Opened
  <2>1. y.h.position + k \in Nat
    BY <1>2, <1>3
  <2> QED BY <1>1, <2>1 DEF Opened
<1> HIDE DEF g
<1>10. y.units \o t \in Seq(UnitValues) /\ Len(y.units \o t) = Len(y.units) + k
       /\ (\A j \in 1 .. Len(y.units) : (y.units \o t)[j] = y.units[j])
       /\ \A j \in 1 .. k : (y.units \o t)[Len(y.units) + j] = t[j]
  BY <1>1, <1>3, <1>5
<1>11. z \in Reading /\ z.h = g /\ z.units = y.units \o t /\ z.eof = y.eof /\ z.ret = y.ret
  <2> DEFINE u == y.units \o t
  <2>1. u \in Seq(UnitValues) /\ y.eof \in BOOLEAN /\ y.ret \in Nat
    BY <1>10 DEF Reading
  <2> HIDE DEF u
  <2>2. z = [h |-> g, units |-> u, eof |-> y.eof, ret |-> y.ret]
    BY <1>8 DEF u
  <2> QED BY <1>9, <2>1, <2>2 DEF Reading, u
<1> QED BY <1>7, <1>10, <1>11 DEF z, g, r

(* What reading k sectors leaves of the handle of x.                       *)
ReadOn(x, k, y) ==
    /\ y \in Reading
    /\ SameFile(x.h, y.h) /\ y.h.dirty = x.h.dirty
    /\ Near(x.d, x.h) => Near(x.d, y.h)
    /\ y.eof => y.h.position = x.h.entry.size
    /\ ~y.eof => /\ y.h.position = Spot(x.h.position, k)
                 /\ Len(y.units) = y.h.position - x.h.position

(* One sector is read.                                                     *)
LEMMA ReadSectorIs ==
    ASSUME NEW x, Handled(x), NEW k \in Nat, NEW y, ReadOn(x, k, y)
    PROVE  /\ ReadOn(x, k + 1, ReadSector(x.d, y))
           /\ y.eof => ReadSector(x.d, y) = y
           /\ ~y.eof =>
                LET z == Take(y, S - (y.h.position % S))
                    g == NextSector(x.d, z.h)
                    w == ReadSector(x.d, y)
                IN  /\ w.units = z.units
                    /\ w.h.currentcluster = g.currentcluster /\ w.h.sectorincluster = g.sectorincluster
                    /\ w.eof <=> g.sectorincluster = 0 /\ g.currentcluster = END
                    /\ ~w.eof => /\ w.ret = y.ret
                                 /\ w.h.buffer = fatreadsector(x.d, g.currentcluster, g.sectorincluster)
                    /\ w.eof => w.ret = 0
<1> DEFINE c == x.h.entry.first
           z == Take(y, S - (y.h.position % S))
           g == NextSector(x.d, z.h)
           w == ReadSector(x.d, y)
           at == x.h.position
<1>1. /\ x.d \in Disks /\ x.d.fat \in Tables /\ x.h \in Opened /\ at \in Nat /\ HasChain(x.d, c)
      /\ x.h.entry.size \in Nat
  BY HandleParts
<1>2. /\ y \in Reading /\ y.eof \in BOOLEAN /\ y.ret \in Nat /\ y.units \in Seq(UnitValues)
      /\ y.h \in Opened /\ y.h.entry = x.h.entry /\ y.h.position \in Nat
      /\ SameFile(x.h, y.h) /\ y.h.dirty = x.h.dirty
  BY <1>1 DEF ReadOn, Reading, Opened, SameFile
<1>3. CASE y.eof
  <2>1. w = y
    BY <1>3 DEF ReadSector
  <2> HIDE DEF w
  <2>2. ReadOn(x, k + 1, y)
    BY <1>3 DEF ReadOn
  <2> QED BY <1>3, <2>1, <2>2 DEF w
<1>4. CASE ~y.eof
  <2>1. y.h.position = Spot(at, k) /\ Len(y.units) = y.h.position - at
        /\ (Near(x.d, x.h) => Near(x.d, y.h))
    BY <1>4 DEF ReadOn
  <2>2. /\ S - (y.h.position % S) \in 0 .. S - (y.h.position % S)
        /\ S - (y.h.position % S) \in Nat
        /\ y.h.position + (S - (y.h.position % S)) = Spot(at, k + 1)
        /\ Spot(at, k) \in Nat /\ Spot(at, k + 1) \in Nat
    <3>1. k + 1 \in Nat
      OBVIOUS
    <3>2. y.h.position % S \in 0 .. S - 1
      BY <1>1, <2>1, SpotIs DEF Units
    <3>3. S \in Nat
      BY Constants
    <3> HIDE DEF at
    <3>4. S - (y.h.position % S) \in 0 .. S - (y.h.position % S) /\ S - (y.h.position % S) \in Nat
      BY <3>2, <3>3
    <3> QED BY <1>1, <2>1, <3>1, <3>4, SpotIs
  <2>3. /\ z \in Reading /\ z.h = [y.h EXCEPT !.position = @ + (S - (y.h.position % S))]
        /\ z.eof = y.eof /\ z.ret = y.ret
        /\ Len(z.units) = Len(y.units) + (S - (y.h.position % S))
    BY <1>2, <2>2, TakeIs
  <2> HIDE DEF z
  <2>4. z.h \in Opened /\ z.units \in Seq(UnitValues) /\ z.ret \in Nat /\ z.h.position = Spot(at, k + 1)
        /\ z.h.entry = x.h.entry /\ SameFile(x.h, z.h) /\ z.h.dirty = x.h.dirty
        /\ Len(z.units) = z.h.position - at
        /\ z = [h |-> z.h, units |-> z.units, eof |-> FALSE, ret |-> z.ret]
    <3>1. z.h \in Opened /\ z.units \in Seq(UnitValues) /\ z.ret \in Nat
          /\ z = [h |-> z.h, units |-> z.units, eof |-> z.eof, ret |-> z.ret] /\ z.eof = FALSE
      BY <1>4, <2>3 DEF Reading
    <3>2. z.h.position = y.h.position + (S - (y.h.position % S)) /\ z.h.entry = y.h.entry
          /\ SameFile(x.h, z.h) /\ z.h.dirty = x.h.dirty
      BY <1>2, <2>3 DEF Opened, SameFile
    <3> HIDE DEF at
    <3>3. Len(z.units) = z.h.position - at
      BY <1>1, <1>2, <2>1, <2>2, <2>3, <3>2
    <3> QED BY <1>2, <2>2, <3>1, <3>2, <3>3
  <2>5. /\ g \in Opened /\ SameFile(z.h, g)
        /\ g.dirty = z.h.dirty /\ g.position = z.h.position /\ g.buffer = z.h.buffer
        /\ Near(x.d, z.h) => Near(x.d, g)
    BY <1>1, <2>4, NextSectorIs
  <2>6. Near(x.d, x.h) => Near(x.d, z.h)
    <3>1. z.h.currentcluster = y.h.currentcluster
      BY <1>2, <2>3 DEF Opened
    <3> QED BY <1>2, <2>1, <2>4, <3>1 DEF Near
  <2> HIDE DEF g
  <2>7. CASE g.sectorincluster = 0 /\ g.currentcluster = END
    <3> DEFINE f == [g EXCEPT !.position = g.entry.size]
    <3>1. w = [z EXCEPT !.h = f, !.eof = TRUE, !.ret = 0]
      <4> HIDE DEF w, f
      <4> QED BY <1>4, <2>7 DEF w, f, ReadSector, z, g
    <3>2. /\ f \in Opened /\ f.position = x.h.entry.size /\ f.entry = x.h.entry
          /\ f.currentcluster = g.currentcluster /\ f.sectorincluster = g.sectorincluster
      BY <1>1, <2>4, <2>5 DEF Opened, SameFile
    <3>3. SameFile(x.h, f) /\ f.dirty = x.h.dirty
      BY <2>4, <2>5 DEF Opened, SameFile
    <3> HIDE DEF f, w
    <3>4. w = [h |-> f, units |-> z.units, eof |-> TRUE, ret |-> 0]
      BY <2>4, <3>1
    <3>5. w \in Reading /\ w.h = f /\ w.eof /\ w.ret = 0 /\ w.units = z.units
      BY <2>4, <3>2, <3>4 DEF Reading
    <3>6. Near(x.d, x.h) => Near(x.d, w.h)
      BY <1>1, <2>4, <2>5, <2>6, <3>2, <3>5 DEF Near, SameFile
    <3>7. ReadOn(x, k + 1, w)
      BY <3>2, <3>3, <3>5, <3>6 DEF ReadOn
    <3> QED BY <1>4, <2>7, <3>2, <3>5, <3>7 DEF w, g, z
  <2>8. CASE ~ (g.sectorincluster = 0 /\ g.currentcluster = END)
    <3> DEFINE b == fatreadsector(x.d, g.currentcluster, g.sectorincluster)
               f == [g EXCEPT !.buffer = b]
    <3>1. w = [z EXCEPT !.h = f]
      <4> HIDE DEF w, f
      <4> QED BY <1>4, <2>8 DEF w, f, ReadSector, z, g
    <3>2. b \in Buffers
      <4>1. g.sectorincluster \in Sectors
        BY <2>5 DEF Opened
      <4> QED BY <1>1, <4>1, SectorValue
    <3> HIDE DEF b
    <3>3. /\ f \in Opened /\ f.position = z.h.position /\ f.entry = x.h.entry /\ f.buffer = b
          /\ f.currentcluster = g.currentcluster /\ f.sectorincluster = g.sectorincluster
      BY <1>1, <2>4, <2>5, <3>2 DEF Opened, SameFile
    <3>4. SameFile(x.h, f) /\ f.dirty = x.h.dirty
      BY <2>4, <2>5 DEF Opened, SameFile
    <3> HIDE DEF f, w
    <3>5. w \in Reading /\ w.h = f /\ w.eof = z.eof /\ w.ret = z.ret /\ w.units = z.units
      BY <2>3, <3>1, <3>3 DEF Reading
    <3>6. w \in Reading /\ w.h = f /\ ~w.eof /\ w.ret = y.ret /\ w.units = z.units
      BY <1>4, <2>3, <3>5
    <3>7. Near(x.d, x.h) => Near(x.d, w.h)
      BY <1>1, <2>4, <2>5, <2>6, <3>3, <3>6 DEF Near, SameFile
    <3>8. ReadOn(x, k + 1, w)
      BY <2>4, <3>3, <3>4, <3>6, <3>7 DEF ReadOn
    <3> QED BY <1>4, <2>8, <3>3, <3>6, <3>8 DEF w, g, z, b
  <2> QED BY <2>7, <2>8
<1> QED BY <1>2, <1>3, <1>4

(* All sectors are.                                                        *)
LEMMA ReadLoopIs ==
    ASSUME NEW x, Handled(x), NEW size \in Nat
    PROVE  LET run == ReadLoop(x, size)
               K   == FullSectors(x.h, size)
           IN  /\ K \in Nat
               /\ run[0] = [h |-> x.h, units |-> <<>>, eof |-> FALSE, ret |-> size]
               /\ \A k \in 1 .. K : run[k] = ReadSector(x.d, run[k - 1])
               /\ \A k \in 0 .. K : ReadOn(x, k, run[k])
<1> DEFINE K == FullSectors(x.h, size)
           Good == [k \in 0 .. K |-> {y \in Reading : ReadOn(x, k, y)}]
           F == [y \in Reading |-> ReadSector(x.d, y)]
           x0 == [h |-> x.h, units |-> <<>>, eof |-> FALSE, ret |-> size]
<1>1. x.h \in Opened /\ x.h.position \in Nat
  BY HandleParts
<1>2. K \in Nat
  BY <1>1, SpotEnd DEF FullSectors
<1> HIDE DEF K
<1>3. x0 \in Good[0]
  <2>1. x0 \in Reading
    BY <1>1 DEF Reading
  <2>2. Len(x0.units) = x.h.position - x.h.position
    BY <1>1
  <2>3. ReadOn(x, 0, x0)
    BY <2>1, <2>2 DEF ReadOn, SameFile, Spot
  <2> HIDE DEF x0
  <2> QED BY <1>2, <2>1, <2>3
<1>4. ASSUME NEW k \in 1 .. K, NEW s \in Good[k - 1] PROVE s \in Reading /\ F[s] \in Good[k]
  <2>1. k - 1 \in 0 .. K /\ k \in 0 .. K /\ k - 1 \in Nat /\ (k - 1) + 1 = k
    BY <1>2
  <2>2. s \in Reading /\ ReadOn(x, k - 1, s)
    BY <2>1
  <2>3. ReadOn(x, k, ReadSector(x.d, s))
    BY <2>1, <2>2, ReadSectorIs
  <2>4. ReadSector(x.d, s) \in Reading
    BY <2>3 DEF ReadOn
  <2> QED BY <2>1, <2>2, <2>3, <2>4
<1>5. PICK f : Runs(f, K, Good, x0, F)
  <2> HIDE DEF Good, F, x0
  <2> QED BY <1>2, <1>3, <1>4, Recursion
<1>6. f = [k \in 0 .. K |-> IF k = 0 THEN x0 ELSE ReadSector(x.d, f[k - 1])]
  <2>1. ASSUME NEW k \in 1 .. K PROVE f[k] = ReadSector(x.d, f[k - 1])
    <3>1. k - 1 \in 0 .. K
      BY <1>2
    <3>2. f[k - 1] \in Good[k - 1] /\ f[k] = F[f[k - 1]]
      BY <1>5, <3>1 DEF Runs
    <3> HIDE DEF Good
    <3> QED BY <1>4, <3>2
  <2> HIDE DEF Good, F, x0
  <2>2. ASSUME NEW k \in 0 .. K PROVE f[k] = IF k = 0 THEN x0 ELSE ReadSector(x.d, f[k - 1])
    <3>1. f[0] = x0
      BY <1>5 DEF Runs
    <3>2. k # 0 => k \in 1 .. K
      BY <1>2
    <3> QED BY <2>1, <3>1, <3>2
  <2>3. f = [k \in 0 .. K |-> f[k]]
    BY <1>5 DEF Runs
  <2> QED BY <2>2, <2>3
<1> DEFINE run[k \in 0 .. K] == IF k = 0 THEN x0 ELSE ReadSector(x.d, run[k - 1])
<1>7. run = [k \in 0 .. K |-> IF k = 0 THEN x0 ELSE ReadSector(x.d, run[k - 1])]
  BY <1>6
<1>8. ReadLoop(x, size) = run
  BY DEF ReadLoop, K
<1> HIDE DEF run, x0, F
<1>9. \A k \in 0 .. K : run[k] = f[k]
  <2>1. run[0] = f[0] /\ \A k \in 1 .. K : run[k - 1] = f[k - 1] => run[k] = f[k]
    BY <1>2, <1>6, <1>7
  <2> QED BY <1>2, <2>1, SameRun
<1>10. \A k \in 0 .. K : ReadOn(x, k, run[k])
  <2>1. \A k \in 0 .. K : f[k] \in Good[k]
    BY <1>5 DEF Runs
  <2> QED BY <1>9, <2>1
<1>11. run[0] = x0 /\ \A k \in 1 .. K : run[k] = ReadSector(x.d, run[k - 1])
  BY <1>2, <1>7
<1> QED BY <1>2, <1>8, <1>10, <1>11 DEF K, x0

(* How many units _fileread moves.                                         *)
LEMMA ReadableIs ==
    ASSUME NEW h \in Opened, NEW n \in Nat
    PROVE  /\ Readable(h, n) \in Nat
           /\ h.position <= h.entry.size /\ h.entry.size <= Capacity(h) =>
                Readable(h, n) = Lesser(n, h.entry.size - h.position)
<1>1. /\ h.position \in Nat /\ h.entry.size \in Nat /\ h.totalclusters \in Nat
  BY DEF Opened
<1>2. Capacity(h) \in Nat
  BY <1>1, Constants DEF Capacity
<1> QED BY <1>1, <1>2 DEF Readable, Lesser

(* _fileread.                                                              *)
LEMMA ReadIs ==
    ASSUME NEW x, Handled(x), NEW n \in Nat
    PROVE  LET r == _fileread(x, n)
               y == [d |-> x.d, h |-> r.h]
           IN  /\ Moved(x, y) /\ OwnData(x, y)
               /\ SameFile(x.h, r.h) /\ r.h.dirty = x.h.dirty
               /\ x.h.position <= x.h.entry.size /\ x.h.entry.size <= Capacity(x.h) =>
                    r.h.position <= x.h.entry.size
<1> DEFINE m == Readable(x.h, n)
           K == FullSectors(x.h, m)
           end == ReadLoop(x, m)[K]
           r == _fileread(x, n)
           y == [d |-> x.d, h |-> r.h]
           at == x.h.position
<1>1. x.h \in Opened /\ at \in Nat /\ x.d \in Disks /\ x.h.entry.size \in Nat
  BY HandleParts
<1>2. m \in Nat
  BY <1>1, ReadableIs
<1>3. x.h.position <= x.h.entry.size /\ x.h.entry.size <= Capacity(x.h) =>
         at + m <= x.h.entry.size
  <2>1. x.h.position <= x.h.entry.size /\ x.h.entry.size <= Capacity(x.h) =>
           m = Lesser(n, x.h.entry.size - at)
    BY <1>1, ReadableIs
  <2> HIDE DEF m
  <2> QED BY <1>1, <1>2, <2>1 DEF Lesser
<1> HIDE DEF m
<1>4. K \in Nat /\ K \in 0 .. K /\ ReadOn(x, K, end)
  <2>1. K \in Nat /\ \A k \in 0 .. K : ReadOn(x, k, ReadLoop(x, m)[k])
    BY <1>2, ReadLoopIs
  <2> HIDE DEF K
  <2> QED BY <2>1
<1>5. K = ((at % S) + m) \div S
  BY DEF FullSectors
<1>6. r = IF end.eof THEN end ELSE Take(end, m - Len(end.units))
  BY DEF _fileread, m
<1>7. (at + m) - Spot(at, K) \in 0 .. S - (Spot(at, K) % S)
  BY <1>1, <1>2, <1>5, SpotEnd
<1>8. Spot(at, K) \in Nat
  BY <1>1, <1>4, SpotIs
<1> HIDE DEF K, end, r
<1>9. end \in Reading /\ end.h \in Opened
  BY <1>4 DEF ReadOn, Reading
<1>10. CASE end.eof
  <2>1. r = end
    BY <1>6, <1>10
  <2>2. SameFile(x.h, r.h) /\ r.h.dirty = x.h.dirty /\ r.h.position = x.h.entry.size
        /\ (Near(x.d, x.h) => Near(x.d, r.h)) /\ r.h \in Opened
    BY <1>4, <1>9, <1>10, <2>1 DEF ReadOn
  <2>3. y \in Pairs /\ y.d = x.d /\ y.h = r.h
    BY <1>1, <2>2 DEF Pairs
  <2>4. Moved(x, y)
    BY <2>2, <2>3, SameTable DEF SameFile
  <2> QED BY <1>1, <2>2, <2>3, <2>4 DEF OwnData, r
<1>11. CASE ~end.eof
  <2> DEFINE k == m - Len(end.units)
  <2>1. end.h.position = Spot(at, K) /\ Len(end.units) = end.h.position - at
        /\ SameFile(x.h, end.h) /\ end.h.dirty = x.h.dirty
        /\ (Near(x.d, x.h) => Near(x.d, end.h))
    BY <1>4, <1>11 DEF ReadOn
  <2>2. k = (at + m) - Spot(at, K)
    <3> HIDE DEF at
    <3> QED BY <1>1, <1>2, <1>8, <2>1
  <2>3. k \in 0 .. S - (end.h.position % S)
    BY <1>7, <2>1, <2>2
  <2>4. r = Take(end, k)
    BY <1>6, <1>11
  <2> HIDE DEF k
  <2>5. r \in Reading /\ r.h = [end.h EXCEPT !.position = @ + k]
    BY <1>9, <2>3, <2>4, TakeIs
  <2>6. r.h \in Opened /\ SameFile(x.h, r.h) /\ r.h.dirty = x.h.dirty
        /\ r.h.position = end.h.position + k /\ r.h.currentcluster = end.h.currentcluster
        /\ r.h.entry = end.h.entry
    BY <1>9, <2>1, <2>5 DEF Reading, Opened, SameFile
  <2>7. y \in Pairs /\ y.d = x.d /\ y.h = r.h
    BY <1>1, <2>6 DEF Pairs
  <2>8. Moved(x, y)
    BY <2>6, <2>7, SameTable DEF SameFile
  <2>9. Near(x.d, x.h) => Near(x.d, r.h)
    BY <2>1, <2>6 DEF Near
  <2>10. r.h.position = at + m
    <3> HIDE DEF at
    <3> QED BY <1>1, <1>2, <1>8, <2>1, <2>2, <2>6
  <2>11. OwnData(x, y)
    BY <2>7, <2>9 DEF OwnData
  <2> QED BY <1>3, <2>6, <2>7, <2>8, <2>10, <2>11 DEF r
<1> QED BY <1>10, <1>11

-----------------------------------------------------------------------------
(* Writing.                                                                *)

Writing == [d : Disks, h : Opened, left : Nat, pos : Units]

(* What is left of n units from at when k sectors have been written.       *)
Left(at, n, k) == IF Spot(at, k) <= at + n THEN (at + n) - Spot(at, k) ELSE 0

(* What writing k sectors of the n units leaves of x.                      *)
WriteOn(x, n, k, y) ==
    /\ y \in Writing
    /\ SameFile(x.h, y.h) /\ y.d.fat = x.d.fat
    /\ y.left = Left(x.h.position, n, k)
    /\ y.h.position = (x.h.position + n) - y.left
    /\ y.pos = Spot(x.h.position, k) % S
    /\ OwnData(x, [d |-> y.d, h |-> y.h])

(* The buffer with w units of value v from pos on.                         *)
Filled(b, v, pos, w) == [u \in Units |-> IF u \in pos .. pos + w - 1 THEN v ELSE b[u]]

LEMMA FilledIs ==
    ASSUME NEW b \in Buffers, NEW v \in Values, NEW pos, NEW w
    PROVE  Filled(b, v, pos, w) \in Buffers
  BY DEF Filled, Buffers, UnitValues

(* Two steps in the file are in the file.                                  *)
LEMMA OwnDataGoesOn ==
    ASSUME NEW x, NEW y, NEW z, OwnData(x, y), OwnData(y, z),
           y.h.entry.first = x.h.entry.first,
           Place(z.d, x.h.entry.first) = Place(y.d, x.h.entry.first)
    PROVE  OwnData(x, z)
  BY DEF OwnData

(* One sector is written.                                                  *)
LEMMA WriteSectorIs ==
    ASSUME NEW x, Handled(x), NEW v \in Values, NEW n \in Nat, NEW k \in Nat, NEW y,
           WriteOn(x, n, k, y)
    PROVE  LET w == Lesser(y.left, S - y.pos)
               b == Filled(y.h.buffer, v, y.pos, w)
               z == WriteSector(v, y)
               g == NextSector(y.d, y.h)
           IN  /\ WriteOn(x, n, k + 1, z)
               /\ z.h.buffer = b
               /\ y.left > S - y.pos =>
                    /\ z.d = fatwritesector(y.d, y.h.currentcluster, y.h.sectorincluster, b)
                    /\ z.h.currentcluster = g.currentcluster
                    /\ z.h.sectorincluster = g.sectorincluster
               /\ y.left <= S - y.pos =>
                    /\ z.d = y.d /\ z.h.dirty
                    /\ z.h.currentcluster = y.h.currentcluster
                    /\ z.h.sectorincluster = y.h.sectorincluster
<1> DEFINE at == x.h.position
           c == x.h.entry.first
           w == Lesser(y.left, S - y.pos)
           b == Filled(y.h.buffer, v, y.pos, w)
           z == WriteSector(v, y)
           e == [y.h EXCEPT !.buffer = b, !.dirty = TRUE, !.position = @ + w]
           u == [d |-> y.d, h |-> e]
           f == fileflush(u)
<1>1. /\ x.d \in Disks /\ x.h \in Opened /\ at \in Nat /\ HasChain(x.d, c) /\ S \in Nat /\ S > 0
  BY HandleParts, Constants
<1>2. /\ y.d \in Disks /\ y.h \in Opened /\ y.left \in Nat /\ y.pos \in Units
      /\ y.left = Left(at, n, k) /\ y.pos = Spot(at, k) % S
      /\ y.h.position = (at + n) - y.left /\ SameFile(x.h, y.h) /\ y.d.fat = x.d.fat
  BY DEF WriteOn, Writing
<1>3. /\ Spot(at, k) \in Nat /\ Spot(at, k + 1) \in Nat /\ Spot(at, k) >= at
      /\ Spot(at, k) + (S - y.pos) = Spot(at, k + 1)
      /\ Spot(at, k + 1) % S \in Units
      /\ Spot(at, k + 1) % S = 0
  <2>1. k + 1 \in Nat /\ k + 1 # 0
    OBVIOUS
  <2> HIDE DEF at
  <2> QED BY <1>1, <1>2, <2>1, SpotIs
<1> HIDE DEF at
<1>4. y.pos \in 0 .. S - 1 /\ w \in Nat /\ y.left - w \in Nat
      /\ (y.left > S - y.pos <=> y.left > w)
      /\ (y.left > S - y.pos => w = S - y.pos) /\ (y.left <= S - y.pos => w = y.left)
  BY <1>1, <1>2 DEF Units, Lesser
<1>5. y.left - w = Left(at, n, k + 1)
  <2>1. CASE y.left > S - y.pos
    BY <1>1, <1>2, <1>3, <1>4, <2>1 DEF Left
  <2>2. CASE y.left <= S - y.pos
    BY <1>1, <1>2, <1>3, <1>4, <2>2 DEF Left
  <2> QED BY <1>1, <1>2, <1>4, <2>1, <2>2
<1>6. y.h.position + w = (at + n) - (y.left - w) /\ y.h.position + w \in Nat
  <2>1. y.h.position \in Nat
    BY <1>2 DEF Opened
  <2> QED BY <1>1, <1>2, <1>4, <2>1
<1>7. b \in Buffers
  <2>1. y.h.buffer \in Buffers
    BY <1>2 DEF Opened
  <2> QED BY <2>1, FilledIs
<1>8. z = IF y.left > w THEN [d |-> f.d, h |-> f.h, left |-> y.left - w, pos |-> 0]
                        ELSE [d |-> y.d, h |-> e, left |-> y.left - w, pos |-> 0]
  <2> HIDE DEF z, w, f
  <2>1. y.left > w => z = [d |-> f.d, h |-> f.h, left |-> y.left - w, pos |-> 0]
    BY DEF WriteSector, Filled, z, w, f
  <2>2. ~ (y.left > w) => z = [d |-> y.d, h |-> e, left |-> y.left - w, pos |-> 0]
    BY DEF WriteSector, Filled, z, w, f
  <2> QED BY <2>1, <2>2
<1> HIDE DEF b, w, z
<1>9. /\ e \in Opened /\ SameFile(x.h, e) /\ e.dirty /\ e.buffer = b /\ e.position = y.h.position + w
      /\ e.currentcluster = y.h.currentcluster /\ e.sectorincluster = y.h.sectorincluster
      /\ e.entry = x.h.entry /\ e.lastcluster = x.h.lastcluster
  BY <1>2, <1>6, <1>7 DEF Opened, SameFile
<1>10. HasChain(y.d, c) /\ Place(y.d, c) = Place(x.d, c) /\ ChainFrom(y.d, c) = ChainFrom(x.d, c)
  BY <1>1, <1>2, RegrownSame
<1> HIDE DEF e
<1>11. u \in Pairs /\ u.d = y.d /\ u.h = e
  BY <1>2, <1>9 DEF Pairs
<1>12. Handled(u)
  <2>1. u.d.fat = x.d.fat /\ u.h.entry = x.h.entry /\ u.h.lastcluster = x.h.lastcluster
    BY <1>2, <1>9, <1>11
  <2> HIDE DEF u, c
  <2>2. Moved(x, u)
    BY <1>11, <2>1, SameTable
  <2> QED BY <2>2 DEF Moved
<1> HIDE DEF u
<1>13. /\ OwnData(u, f) /\ f.d.fat = u.d.fat /\ f.h \in Opened
       /\ SameFile(u.h, f.h) /\ f.h.position = u.h.position /\ f.h.buffer = u.h.buffer
       /\ f.d \in Disks
       /\ f.d = fatwritesector(u.d, u.h.currentcluster, u.h.sectorincluster, u.h.buffer)
       /\ f.h.sectorincluster = NextSector(u.d, u.h).sectorincluster
       /\ f.h.currentcluster = NextSector(u.d, u.h).currentcluster
  <2>1. Moved(u, f) /\ OwnData(u, f) /\ f.d.fat = u.d.fat /\ f.h \in Opened
        /\ SameFile(u.h, f.h) /\ f.h.position = u.h.position /\ f.h.buffer = u.h.buffer
    BY <1>12, FlushIs
  <2>2. /\ f.d = fatwritesector(u.d, u.h.currentcluster, u.h.sectorincluster, u.h.buffer)
        /\ f.h.sectorincluster = NextSector(u.d, u.h).sectorincluster
        /\ f.h.currentcluster = NextSector(u.d, u.h).currentcluster
    BY <1>9, <1>11, <1>12, FlushIs
  <2>3. f.d \in Disks
    BY <2>1 DEF Moved, Handled, Pairs
  <2> QED BY <2>1, <2>2, <2>3
<1> HIDE DEF f
<1>14. /\ NextSector(u.d, u.h).sectorincluster = NextSector(y.d, y.h).sectorincluster
       /\ NextSector(u.d, u.h).currentcluster = NextSector(y.d, y.h).currentcluster
  <2>1. \A h \in Opened :
          /\ NextSector(y.d, h).sectorincluster = IF h.sectorincluster + 1 < SPC THEN h.sectorincluster + 1 ELSE 0
          /\ NextSector(y.d, h).currentcluster = IF h.sectorincluster + 1 < SPC THEN h.currentcluster
                                                 ELSE fatclustervalue(y.d, h.currentcluster)
    BY DEF NextSector, Opened
  <2> QED BY <1>2, <1>9, <1>11, <2>1
<1>15. OwnData(x, u)
  <2>1. OwnData(x, [d |-> y.d, h |-> y.h])
    BY DEF WriteOn
  <2> QED BY <1>2, <1>9, <1>11, <2>1 DEF OwnData, Near, SameFile
<1>16. CASE y.left > w
  <2>1. z = [d |-> f.d, h |-> f.h, left |-> y.left - w, pos |-> 0]
    BY <1>8, <1>16
  <2>2. z \in Writing /\ z.d = f.d /\ z.h = f.h /\ z.left = y.left - w /\ z.pos = 0
    <3>1. 0 \in Units
      BY <1>1 DEF Units
    <3> QED BY <1>4, <1>13, <2>1, <3>1 DEF Writing
  <2>3. SameFile(x.h, z.h) /\ z.d.fat = x.d.fat /\ z.h.position = (at + n) - z.left
    BY <1>2, <1>6, <1>9, <1>11, <1>13, <2>2 DEF SameFile
  <2>4. OwnData(x, [d |-> z.d, h |-> z.h])
    <3>1. u.h.entry.first = c /\ Place(f.d, c) = Place(u.d, c)
      <4>1. u.h.entry.first = c
        BY <1>9, <1>11
      <4>2. HasChain(u.d, c) /\ f.d.fat = u.d.fat
        BY <1>10, <1>11, <1>13
      <4> HIDE DEF c
      <4>3. Place(f.d, c) = Place(u.d, c)
        BY <4>2, RegrownSame
      <4> QED BY <4>1, <4>3
    <3>2. OwnData(x, f)
      BY <1>13, <1>15, <3>1, OwnDataGoesOn
    <3> QED BY <2>2, <3>2 DEF OwnData, Near
  <2>5. WriteOn(x, n, k + 1, z)
    BY <1>3, <1>5, <2>2, <2>3, <2>4 DEF WriteOn, at
  <2> QED BY <1>4, <1>9, <1>11, <1>13, <1>14, <1>16, <2>2, <2>5 DEF z, b, w
<1>17. CASE ~ (y.left > w)
  <2>1. z = [d |-> y.d, h |-> e, left |-> y.left - w, pos |-> 0]
    BY <1>8, <1>17
  <2>2. z \in Writing /\ z.d = y.d /\ z.h = e /\ z.left = y.left - w /\ z.pos = 0
    <3>1. 0 \in Units
      BY <1>1 DEF Units
    <3> QED BY <1>2, <1>4, <1>9, <2>1, <3>1 DEF Writing
  <2>3. SameFile(x.h, z.h) /\ z.d.fat = x.d.fat /\ z.h.position = (at + n) - z.left
    BY <1>2, <1>6, <1>9, <2>2
  <2>4. OwnData(x, [d |-> z.d, h |-> z.h])
    BY <1>11, <1>15, <2>2 DEF OwnData, Near
  <2>5. WriteOn(x, n, k + 1, z)
    BY <1>3, <1>5, <2>2, <2>3, <2>4 DEF WriteOn, at
  <2> QED BY <1>4, <1>9, <1>17, <2>2, <2>5 DEF z, b, w
<1> QED BY <1>16, <1>17

(* All sectors are.                                                        *)
LEMMA WriteLoopIs ==
    ASSUME NEW x, Handled(x), NEW v \in Values, NEW n \in Nat
    PROVE  LET run == WriteLoop(x, v, n)
               K   == FullSectors(x.h, n) + 1
           IN  /\ K \in Nat /\ K > 0
               /\ run[0] = [d |-> x.d, h |-> x.h, left |-> n, pos |-> x.h.position % S]
               /\ \A k \in 1 .. K : run[k] = WriteSector(v, run[k - 1])
               /\ \A k \in 0 .. K : WriteOn(x, n, k, run[k])
               /\ run[K].left = 0
<1> DEFINE at == x.h.position
           K == FullSectors(x.h, n) + 1
           Good == [k \in 0 .. K |-> {y \in Writing : WriteOn(x, n, k, y)}]
           F == [y \in Writing |-> WriteSector(v, y)]
           x0 == [d |-> x.d, h |-> x.h, left |-> n, pos |-> at % S]
<1>1. x.h \in Opened /\ at \in Nat /\ x.d \in Disks
  BY HandleParts
<1>2. K \in Nat /\ K > 0
  <2>1. FullSectors(x.h, n) \in Nat
    BY <1>1, SpotEnd DEF FullSectors
  <2> QED BY <2>1
<1>3. Left(at, n, K) = 0
  <2> DEFINE J == FullSectors(x.h, n)
  <2>1. J = ((at % S) + n) \div S
    BY DEF FullSectors
  <2> HIDE DEF J
  <2>2. J \in Nat /\ (at + n) - Spot(at, J) < S - (Spot(at, J) % S)
    BY <1>1, <2>1, SpotEnd
  <2>3. /\ Spot(at, J) + (S - (Spot(at, J) % S)) = Spot(at, J + 1)
        /\ Spot(at, J) % S \in Units /\ Spot(at, J) \in Nat
    BY <1>1, <2>2, SpotIs
  <2>4. K = J + 1 /\ S \in Nat
    BY Constants DEF J
  <2> HIDE DEF K, at
  <2> QED BY <1>1, <2>2, <2>3, <2>4 DEF Left, Units
<1> HIDE DEF K
<1>4. x0 \in Good[0]
  <2>1. at % S \in Units /\ Spot(at, 0) = at
    <3>1. 0 \in Nat
      OBVIOUS
    <3> QED BY <1>1, <3>1, SpotIs DEF Spot
  <2>2. x0 \in Writing
    BY <1>1, <2>1 DEF Writing
  <2>3. Left(at, n, 0) = n /\ at = (at + n) - n
    BY <1>1, <2>1 DEF Left
  <2>4. OwnData(x, [d |-> x.d, h |-> x.h])
    BY DEF OwnData, Near
  <2>5. WriteOn(x, n, 0, x0)
    BY <2>1, <2>2, <2>3, <2>4 DEF WriteOn, SameFile
  <2> HIDE DEF x0
  <2> QED BY <1>2, <2>2, <2>5
<1>5. ASSUME NEW k \in 1 .. K, NEW s \in Good[k - 1] PROVE s \in Writing /\ F[s] \in Good[k]
  <2>1. k - 1 \in 0 .. K /\ k \in 0 .. K /\ k - 1 \in Nat /\ (k - 1) + 1 = k
    BY <1>2
  <2>2. s \in Writing /\ WriteOn(x, n, k - 1, s)
    BY <2>1
  <2>3. WriteOn(x, n, k, WriteSector(v, s))
    BY <2>1, <2>2, WriteSectorIs
  <2>4. WriteSector(v, s) \in Writing
    BY <2>3 DEF WriteOn
  <2> QED BY <2>1, <2>2, <2>3, <2>4
<1>6. PICK f : Runs(f, K, Good, x0, F)
  <2> HIDE DEF Good, F, x0
  <2> QED BY <1>2, <1>4, <1>5, Recursion
<1>7. f = [k \in 0 .. K |-> IF k = 0 THEN x0 ELSE WriteSector(v, f[k - 1])]
  <2>1. ASSUME NEW k \in 1 .. K PROVE f[k] = WriteSector(v, f[k - 1])
    <3>1. k - 1 \in 0 .. K
      BY <1>2
    <3>2. f[k - 1] \in Good[k - 1] /\ f[k] = F[f[k - 1]]
      BY <1>6, <3>1 DEF Runs
    <3> HIDE DEF Good
    <3> QED BY <1>5, <3>2
  <2> HIDE DEF Good, F, x0
  <2>2. ASSUME NEW k \in 0 .. K PROVE f[k] = IF k = 0 THEN x0 ELSE WriteSector(v, f[k - 1])
    <3>1. f[0] = x0
      BY <1>6 DEF Runs
    <3>2. k # 0 => k \in 1 .. K
      BY <1>2
    <3> QED BY <2>1, <3>1, <3>2
  <2>3. f = [k \in 0 .. K |-> f[k]]
    BY <1>6 DEF Runs
  <2> QED BY <2>2, <2>3
<1> DEFINE run[k \in 0 .. K] == IF k = 0 THEN x0 ELSE WriteSector(v, run[k - 1])
<1>8. run = [k \in 0 .. K |-> IF k = 0 THEN x0 ELSE WriteSector(v, run[k - 1])]
  BY <1>7
<1>9. WriteLoop(x, v, n) = run
  BY DEF WriteLoop, K
<1> HIDE DEF run, x0, F
<1>10. \A k \in 0 .. K : run[k] = f[k]
  <2>1. run[0] = f[0] /\ \A k \in 1 .. K : run[k - 1] = f[k - 1] => run[k] = f[k]
    BY <1>2, <1>7, <1>8
  <2> QED BY <1>2, <2>1, SameRun
<1>11. \A k \in 0 .. K : WriteOn(x, n, k, run[k])
  <2>1. \A k \in 0 .. K : f[k] \in Good[k]
    BY <1>6 DEF Runs
  <2> QED BY <1>10, <2>1
<1>12. run[0] = x0 /\ \A k \in 1 .. K : run[k] = WriteSector(v, run[k - 1])
  BY <1>2, <1>8
<1>13. run[K].left = 0
  <2>1. WriteOn(x, n, K, run[K])
    BY <1>2, <1>11
  <2> QED BY <1>3, <2>1 DEF WriteOn
<1> QED BY <1>2, <1>9, <1>11, <1>12, <1>13 DEF K, x0

(* The file made longer, if it is too short for the write.                 *)
Lengthened(x, n) == IF x.h.position + n > Capacity(x.h) THEN fileresize(x, x.h.position + n) ELSE x

(* The disk has room for the file made n units long.                       *)
Roomy(x, n) == n <= PerCluster * (x.h.totalclusters + Cardinality(FreeClusters(x.d)))

(* A file made longer keeps its clusters in front of the new ones.         *)
LEMMA LengthenedIs ==
    ASSUME NEW x, Handled(x), NEW n \in Nat, Roomy(x, x.h.position + n)
    PROVE  LET y == Lengthened(x, n)
               c == x.h.entry.first
               p == ChainFrom(x.d, c)
               q == ChainFrom(y.d, c)
           IN  /\ Moved(x, y) /\ OwnData(x, y)
               /\ y.d.data = x.d.data /\ y.d.stray = x.d.stray
               /\ y.h.position = x.h.position /\ y.h.currentcluster = x.h.currentcluster
               /\ y.h.sectorincluster = x.h.sectorincluster /\ y.h.buffer = x.h.buffer
               /\ x.h.dirty => y.h.dirty
               /\ y.h.entry.size = IF x.h.position + n > Capacity(x.h) THEN x.h.position + n
                                                                      ELSE x.h.entry.size
               /\ x.h.position + n <= Capacity(y.h) /\ Capacity(y.h) >= Capacity(x.h)
               /\ Len(q) - Len(p) = y.h.totalclusters - x.h.totalclusters
               /\ Len(q) >= Len(p) /\ \A j \in 1 .. Len(p) : q[j] = p[j]
<1> DEFINE m == x.h.position + n
           c == x.h.entry.first
           y == Lengthened(x, n)
<1>1. /\ x.h \in Opened /\ x.h.position \in Nat /\ x.h.totalclusters \in Nat /\ x.h.entry.size \in Nat
      /\ x \in Pairs /\ HasChain(x.d, c) /\ x.h.dirty \in BOOLEAN
  BY HandleParts DEF Handled
<1>2. m \in Nat /\ Capacity(x.h) \in Nat
  BY <1>1, Constants DEF Capacity
<1>3. CASE m > Capacity(x.h)
  <2>1. y = fileresize(x, m)
    BY <1>3 DEF Lengthened
  <2> HIDE DEF m, y
  <2>2. LET p == ChainFrom(x.d, c)
            q == ChainFrom(y.d, c)
        IN  /\ Moved(x, y) /\ OwnData(x, y)
            /\ y.d.data = x.d.data /\ y.d.stray = x.d.stray
            /\ y.h.position = x.h.position /\ y.h.currentcluster = x.h.currentcluster
            /\ y.h.sectorincluster = x.h.sectorincluster /\ y.h.buffer = x.h.buffer
            /\ y.h.dirty /\ y.h.entry.size = m
            /\ m <= Capacity(y.h)
            /\ Len(q) - Len(p) = y.h.totalclusters - x.h.totalclusters
            /\ Len(q) >= Len(p) /\ \A j \in 1 .. Len(p) : q[j] = p[j]
    <3>1. m <= PerCluster * (x.h.totalclusters + Cardinality(FreeClusters(x.d)))
      BY DEF Roomy, m
    <3>2. Handled(x) /\ m \in Nat /\ m > Capacity(x.h)
      BY <1>2, <1>3
    <3> HIDE DEF c
    <3> QED BY ONLY <3>2, <2>1, <3>1, GrowIs DEF c
  <2>4. Capacity(y.h) \in Nat
    <3>1. y.h.totalclusters \in Nat
      BY <2>2, HandleParts DEF Moved
    <3> QED BY <3>1, Constants DEF Capacity
  <2>5. Capacity(y.h) >= Capacity(x.h)
    BY <1>2, <1>3, <2>2, <2>4
  <2> QED BY <1>2, <1>3, <2>2, <2>5 DEF y, m
<1>4. CASE ~ (m > Capacity(x.h))
  <2>1. y = x
    BY <1>4 DEF Lengthened
  <2>2. Moved(x, x) /\ OwnData(x, x)
    BY <1>1, SameTable DEF OwnData
  <2>3. Len(ChainFrom(x.d, c)) \in Nat
    BY <1>1, ChainParts
  <2> HIDE DEF y
  <2> QED BY <1>1, <1>2, <1>4, <2>1, <2>2, <2>3 DEF y
<1> QED BY <1>3, <1>4

(* What the loop leaves.                                                   *)
Written(x, v, n) == WriteLoop(Lengthened(x, n), v, n)[FullSectors(x.h, n) + 1]

(* _filewrite, and below what it leaves in the handle.                     *)
LEMMA WriteAll ==
    ASSUME NEW x, Handled(x), NEW v \in Values, NEW n \in Nat, Roomy(x, x.h.position + n)
    PROVE  LET y == _filewrite(x, v, n)
               c == x.h.entry.first
           IN  /\ Moved(x, y) /\ OwnData(x, y)
               /\ y.h.position = x.h.position + n /\ y.h.position <= y.h.entry.size
               /\ x.h.entry.size <= Capacity(x.h) =>
                    /\ y.h.entry.size <= Capacity(y.h)
                    /\ y.h.entry.size = IF x.h.position + n > x.h.entry.size THEN x.h.position + n
                                                                            ELSE x.h.entry.size
               /\ y.d = Written(x, v, n).d /\ y.h.currentcluster = Written(x, v, n).h.currentcluster
               /\ y.h.sectorincluster = Written(x, v, n).h.sectorincluster
               /\ y.h.buffer = Written(x, v, n).h.buffer /\ y.h.dirty = Written(x, v, n).h.dirty
               /\ Len(ChainFrom(y.d, c)) - Len(ChainFrom(x.d, c)) = y.h.totalclusters - x.h.totalclusters
               /\ Len(ChainFrom(y.d, c)) >= Len(ChainFrom(x.d, c))
<1> DEFINE m == x.h.position + n
           c == x.h.entry.first
           x0 == Lengthened(x, n)
           K == FullSectors(x0.h, n) + 1
           end == WriteLoop(x0, v, n)[K]
           e == [end.h EXCEPT !.entry.size = SizeAfter(@, end.h.position)]
           y == _filewrite(x, v, n)
<1>1. /\ x.h.position \in Nat /\ x.h.totalclusters \in Nat /\ x.h.entry.size \in Nat
      /\ HasChain(x.d, c)
  BY HandleParts
<1>2. /\ Moved(x, x0) /\ OwnData(x, x0)
      /\ x0.h.position = x.h.position
      /\ x0.h.entry.size = IF m > Capacity(x.h) THEN m ELSE x.h.entry.size
      /\ m <= Capacity(x0.h) /\ Capacity(x0.h) >= Capacity(x.h)
      /\ Len(ChainFrom(x0.d, c)) - Len(ChainFrom(x.d, c)) = x0.h.totalclusters - x.h.totalclusters
      /\ Len(ChainFrom(x0.d, c)) >= Len(ChainFrom(x.d, c))
  <2> HIDE DEF x0
  <2> QED BY LengthenedIs DEF x0
<1> HIDE DEF x0
<1>3. Handled(x0) /\ x0.h.entry.first = c /\ x0.h.entry.name = x.h.entry.name /\ Regrown(x.d, x0.d, c)
      /\ HasChain(x0.d, c)
  BY <1>2 DEF Moved, Regrown
<1>4. K = FullSectors(x.h, n) + 1
  BY <1>2 DEF FullSectors
<1>5. WriteOn(x0, n, K, end) /\ end.left = 0 /\ K \in Nat
  <2>1. /\ K \in Nat /\ K > 0
        /\ \A k \in 0 .. K : WriteOn(x0, n, k, WriteLoop(x0, v, n)[k])
        /\ end.left = 0
    BY <1>3, WriteLoopIs
  <2>2. K \in 0 .. K
    BY <2>1
  <2> HIDE DEF K
  <2> QED BY <2>1, <2>2
<1>6. y = [d |-> end.d, h |-> e]
  <2>1. end = WriteLoop(Lengthened(x, n), v, n)[FullSectors(x.h, n) + 1]
    BY <1>4 DEF x0
  <2> HIDE DEF end, K, e
  <2>2. y = [d |-> end.d, h |-> [end.h EXCEPT !.entry.size = SizeAfter(@, end.h.position)]]
    BY <2>1 DEF _filewrite, Lengthened
  <2> QED BY <2>2 DEF e
<1>17. end = Written(x, v, n)
  BY <1>4 DEF Written, x0
<1> HIDE DEF end, y, K
<1>7. end.d \in Disks /\ end.h \in Opened /\ end.d.fat = x0.d.fat /\ SameFile(x0.h, end.h)
      /\ OwnData(x0, [d |-> end.d, h |-> end.h])
      /\ end.h.position = m
  <2>1. end.h.position = (x.h.position + n) - 0
    BY <1>2, <1>5 DEF WriteOn
  <2>2. end.h.position = m
    BY <1>1, <2>1
  <2> QED BY <1>5, <2>2 DEF WriteOn, Writing
<1> DEFINE s == SizeAfter(end.h.entry.size, end.h.position)
<1>8. s \in Nat /\ s >= m /\ s = IF m > end.h.entry.size THEN m ELSE end.h.entry.size
  <2>1. end.h.entry.size \in Nat /\ m \in Nat
    BY <1>1, <1>7 DEF Opened
  <2> QED BY <1>7, <2>1 DEF SizeAfter, Greater
<1> HIDE DEF m
<1>9. /\ e \in Opened /\ e.entry.size = s /\ e.entry.name = end.h.entry.name
      /\ e.entry.first = end.h.entry.first /\ e.position = end.h.position
      /\ e.lastcluster = end.h.lastcluster /\ e.totalclusters = end.h.totalclusters
      /\ e.currentcluster = end.h.currentcluster /\ e.sectorincluster = end.h.sectorincluster
      /\ e.buffer = end.h.buffer /\ e.dirty = end.h.dirty
  <2>1. e = [end.h EXCEPT !.entry.size = s]
    OBVIOUS
  <2> HIDE DEF s, e
  <2> QED BY <1>7, <1>8, <2>1 DEF Opened
<1> HIDE DEF e, s
<1>10. y \in Pairs /\ y.d = end.d /\ y.h = e
  BY <1>6, <1>7, <1>9 DEF Pairs
<1>11. /\ y.d.fat = x0.d.fat /\ y.h.entry.name = x0.h.entry.name /\ y.h.entry.first = x0.h.entry.first
       /\ y.h.lastcluster = x0.h.lastcluster /\ y.h.totalclusters = x0.h.totalclusters
  BY <1>7, <1>9, <1>10 DEF SameFile
<1>12. Moved(x0, y) /\ ChainFrom(y.d, c) = ChainFrom(x0.d, c) /\ Place(y.d, c) = Place(x0.d, c)
  BY <1>3, <1>10, <1>11, SameTable
<1>13. Moved(x, y)
  BY <1>3, <1>11, <1>12 DEF Moved, Regrown
<1>14. OwnData(x, y)
  <2>1. OwnData(x0, y)
    BY <1>7, <1>9, <1>10 DEF OwnData, Near, SameFile
  <2> QED BY <1>2, <1>3, <1>12, <2>1, OwnDataGoesOn
<1>15. y.h.position = m /\ m <= y.h.entry.size
  BY <1>1, <1>7, <1>8, <1>9, <1>10 DEF m
<1>16. ASSUME x.h.entry.size <= Capacity(x.h)
       PROVE  /\ y.h.entry.size <= Capacity(y.h)
              /\ y.h.entry.size = IF m > x.h.entry.size THEN m ELSE x.h.entry.size
  <2>1. Capacity(y.h) = Capacity(x0.h) /\ end.h.entry.size = x0.h.entry.size
    BY <1>7, <1>11 DEF Capacity, SameFile
  <2>2. Capacity(x.h) \in Nat /\ Capacity(x0.h) \in Nat /\ m \in Nat
    <3>1. x0.h.totalclusters \in Nat
      BY <1>3, HandleParts
    <3> QED BY <1>1, <3>1, Constants DEF Capacity, m
  <2>3. x0.h.entry.size <= Capacity(x0.h)
    BY <1>1, <1>2, <1>16, <2>2
  <2> QED BY <1>1, <1>2, <1>8, <1>9, <1>10, <1>16, <2>1, <2>2, <2>3
<1>18. /\ y.d = Written(x, v, n).d /\ y.h.currentcluster = Written(x, v, n).h.currentcluster
       /\ y.h.sectorincluster = Written(x, v, n).h.sectorincluster
       /\ y.h.buffer = Written(x, v, n).h.buffer /\ y.h.dirty = Written(x, v, n).h.dirty
  BY <1>9, <1>10, <1>17
<1> QED BY <1>2, <1>11, <1>12, <1>13, <1>14, <1>15, <1>16, <1>18 DEF y, m

LEMMA WriteIs ==
    ASSUME NEW x, Handled(x), NEW v \in Values, NEW n \in Nat, Roomy(x, x.h.position + n)
    PROVE  LET y == _filewrite(x, v, n)
               c == x.h.entry.first
           IN  /\ Moved(x, y) /\ OwnData(x, y)
               /\ y.h.position = x.h.position + n /\ y.h.position <= y.h.entry.size
               /\ x.h.entry.size <= Capacity(x.h) => y.h.entry.size <= Capacity(y.h)
               /\ Len(ChainFrom(y.d, c)) - Len(ChainFrom(x.d, c)) = y.h.totalclusters - x.h.totalclusters
               /\ Len(ChainFrom(y.d, c)) >= Len(ChainFrom(x.d, c))
  BY WriteAll

LEMMA WriteEnds ==
    ASSUME NEW x, Handled(x), NEW v \in Values, NEW n \in Nat, Roomy(x, x.h.position + n),
           x.h.entry.size <= Capacity(x.h)
    PROVE  LET y == _filewrite(x, v, n)
           IN  /\ y.h.entry.size = IF x.h.position + n > x.h.entry.size THEN x.h.position + n
                                                                      ELSE x.h.entry.size
               /\ y.d = Written(x, v, n).d /\ y.h.currentcluster = Written(x, v, n).h.currentcluster
               /\ y.h.sectorincluster = Written(x, v, n).h.sectorincluster
               /\ y.h.buffer = Written(x, v, n).h.buffer /\ y.h.dirty = Written(x, v, n).h.dirty
  BY WriteAll

-----------------------------------------------------------------------------
(* Steps keep the chains.                                                  *)

(* The inductive invariant of the chains.                                  *)
ChainsInv == Types /\ Chains

(* What is known of an open handle.                                        *)
LEMMA OpenIs ==
    ASSUME ChainsInv, NEW h \in OpenHandles
    PROVE  /\ h \in Handles /\ handles[h] \in Opened /\ handles[h].opened = TRUE
           /\ handles[h].entry.first \in Roots /\ handles[h].entry.first \in Clusters
           /\ handles[h].entry.name \in Names /\ handles[h].position \in Nat
           /\ handles[h].entry.size \in Nat /\ handles[h].totalclusters \in Nat
           /\ Handled(X(h)) /\ X(h).d = disk /\ X(h).h = handles[h]
<1>1. h \in Handles /\ handles[h].opened /\ handles[h] \in Opened \cup {Closed}
  BY DEF OpenHandles, ChainsInv, Types
<1>2. handles[h] \in Opened
  BY <1>1 DEF Closed
<1>3. /\ handles[h].entry.first \in Roots
      /\ handles[h].entry.first \in Clusters /\ handles[h].entry.name \in Names
      /\ handles[h].entry.size \in Nat /\ handles[h].totalclusters \in Nat
      /\ handles[h].opened = TRUE /\ handles[h].position \in Nat
  BY <1>2 DEF Opened, Roots
<1>4. X(h) \in Pairs /\ X(h).d = disk /\ X(h).h = handles[h]
  BY <1>2 DEF X, Pairs, ChainsInv, Types
<1>5. HasChain(disk, handles[h].entry.first) /\ AtEnd(disk, handles[h])
  BY <1>3 DEF ChainsInv, Chains, Apart
<1> QED BY <1>1, <1>2, <1>3, <1>4, <1>5 DEF Handled

(* What is known of the disk and the directory.                            *)
LEMMA DiskParts ==
    ASSUME ChainsInv
    PROVE  /\ disk \in Disks /\ disk.fat \in Tables /\ disk.data \in Datas /\ disk.stray \in BOOLEAN
           /\ slots \in [Slots -> Entries]
           /\ handles \in [Handles -> Opened \cup {Closed}]
           /\ Apart(disk, Roots)
           /\ \A k \in UsedSlots : slots[k].first \in Roots
  BY DEF ChainsInv, Types, Chains, Disks, Roots

(* What no call changes for the worse besides the disk and its handle.     *)
Rest ==
    /\ enoent' \in BOOLEAN
    /\ content' \in [Names -> Seq(Values)]
    /\ session' \in [Handles -> {"none", "reading", "writing", "full"}]
    /\ spoiled \subseteq spoiled' /\ spoiled' \subseteq Names
    /\ lost' \subseteq Names
    /\ got'.name \in Names \cup {NoName}

(* A call on one handle keeps the invariant.                               *)
LEMMA HandleStep ==
    ASSUME ChainsInv, NEW h \in OpenHandles, NEW y, Moved(X(h), y), Becomes(h, y),
           slots' = slots, Rest,
           handles[h].entry.name \notin spoiled' =>
              /\ Sized(y.d, y.h)
              /\ Len(ChainFrom(y.d, handles[h].entry.first)) >= Len(ChainFrom(disk, handles[h].entry.first))
    PROVE  ChainsInv'
<1> DEFINE c == handles[h].entry.first
<1>1. /\ h \in Handles /\ handles[h].entry.name \in Names /\ c \in Roots
      /\ X(h).d = disk /\ X(h).h = handles[h] /\ handles[h].opened
  BY OpenIs
<1>2. /\ y.d \in Disks /\ y.h \in Opened /\ y.h.opened
      /\ y.h.entry.first = c /\ y.h.entry.name = handles[h].entry.name
      /\ Regrown(disk, y.d, c) /\ AtEnd(y.d, y.h)
  BY <1>1, HandleParts DEF Moved, Handled
<1>3. /\ disk' = y.d /\ handles' \in [Handles -> Opened \cup {Closed}] /\ handles'[h] = y.h
      /\ \A g \in Handles : g # h => handles'[g] = handles[g]
  BY <1>1, <1>2 DEF Becomes, ChainsInv, Types
<1>4. OpenHandles' = OpenHandles
  BY <1>1, <1>2, <1>3 DEF OpenHandles
<1>5. \A g \in OpenHandles : /\ handles'[g].entry.first = handles[g].entry.first
                             /\ handles'[g].entry.name = handles[g].entry.name
  BY <1>1, <1>2, <1>3 DEF OpenHandles
<1>6. UsedSlots' = UsedSlots
  BY DEF UsedSlots
<1>7. Roots' = Roots
  BY <1>4, <1>5, <1>6 DEF Roots
<1>8. Types'
  BY <1>2, <1>3 DEF Rest, Types, ChainsInv
<1>9. Apart(disk', Roots') /\ \A b \in Roots : b # c => ChainFrom(disk', b) = ChainFrom(disk, b)
  <2>1. Apart(disk, Roots)
    BY DiskParts
  <2> HIDE DEF c
  <2> QED BY <1>1, <1>2, <1>3, <1>7, <2>1, ApartStays
<1>10. OneEach'
  <2>1. OneEach
    BY DEF ChainsInv, Chains
  <2> QED BY <1>4, <1>5, <1>6, <2>1 DEF OneEach
<1>11. ASSUME NEW g \in OpenHandles, g # h
       PROVE  handles'[g] = handles[g]
              /\ ChainFrom(disk', handles[g].entry.first) = ChainFrom(disk, handles[g].entry.first)
  <2>1. handles[g].entry.first \in Roots /\ g \in Handles
    BY OpenIs
  <2>2. handles[g].entry.first # c
    BY <1>11 DEF ChainsInv, Chains, OneEach
  <2> QED BY <1>3, <1>9, <1>11, <2>1, <2>2
<1>12. ASSUME NEW g \in OpenHandles' PROVE AtEnd(disk', handles'[g])
  <2>1. CASE g = h
    BY <1>2, <1>3, <2>1
  <2>2. CASE g # h
    <3>1. AtEnd(disk, handles[g])
      BY <1>4 DEF ChainsInv, Chains
    <3> QED BY <1>4, <1>11, <2>2, <3>1 DEF AtEnd
  <2> QED BY <2>1, <2>2
<1>13. ASSUME NEW g \in OpenHandles', handles'[g].entry.name \notin spoiled'
       PROVE  Sized(disk', handles'[g])
  <2>1. CASE g = h
    BY <1>2, <1>3, <1>13, <2>1
  <2>2. CASE g # h
    <3>1. Sized(disk, handles[g])
      BY <1>4, <1>11, <1>13, <2>2 DEF ChainsInv, Chains, Rest
    <3> QED BY <1>4, <1>11, <2>2, <3>1 DEF Sized
  <2> QED BY <2>1, <2>2
<1>14. ASSUME NEW k \in UsedSlots', slots'[k].name \notin spoiled'
       PROVE  slots'[k].size <= Len(ChainFrom(disk', slots'[k].first)) * PerCluster
  <2>1. k \in UsedSlots /\ slots'[k] = slots[k] /\ slots[k].first \in Roots /\ slots[k].name \notin spoiled
    BY <1>6, <1>14, DiskParts DEF Rest
  <2>2. slots[k].size <= Len(ChainFrom(disk, slots[k].first)) * PerCluster
    BY <2>1 DEF ChainsInv, Chains
  <2>3. CASE slots[k].first # c
    BY <1>9, <2>1, <2>2, <2>3
  <2>4. CASE slots[k].first = c
    <3>1. slots[k].name = handles[h].entry.name
      BY <2>1, <2>4 DEF ChainsInv, Chains, OneEach
    <3>2. Len(ChainFrom(y.d, c)) >= Len(ChainFrom(disk, c))
      BY <1>14, <2>1, <3>1
    <3>3. Len(ChainFrom(y.d, c)) \in Nat /\ Len(ChainFrom(disk, c)) \in Nat
      <4>1. HasChain(y.d, c)
        BY <1>2 DEF Regrown
      <4>2. HasChain(disk, c)
        BY <1>1, HandleParts, OpenIs
      <4> HIDE DEF c
      <4> QED BY <4>1, <4>2, ChainParts
    <3>4. \A a, b \in Nat : a <= b => a * PerCluster <= b * PerCluster /\ a * PerCluster \in Nat
                                       /\ b * PerCluster \in Nat
      BY Constants
    <3>5. slots[k].size \in Nat
      BY <2>1, DiskParts DEF UsedSlots, Entries
    <3> HIDE DEF c
    <3> QED BY <1>3, <2>1, <2>2, <2>4, <3>2, <3>3, <3>4, <3>5
  <2> QED BY <2>3, <2>4
<1>15. Chains'
  BY <1>9, <1>10, <1>12, <1>13, <1>14 DEF Chains
<1> QED BY <1>8, <1>15 DEF ChainsInv

(* No call on a file: the disk's table and the files are as they were.     *)
LEMMA ErrnoStep ==
    ASSUME ChainsInv, disk' = disk, slots' = slots, handles' = handles, Rest
    PROVE  ChainsInv'
<1>1. OpenHandles' = OpenHandles /\ UsedSlots' = UsedSlots /\ Roots' = Roots
  BY DEF OpenHandles, UsedSlots, Roots
<1>2. Types'
  BY DEF ChainsInv, Types, Rest
<1>3. OneEach' /\ Apart(disk', Roots')
  BY <1>1 DEF ChainsInv, Chains, OneEach
<1>4. Chains'
  BY <1>1, <1>3 DEF ChainsInv, Chains, Rest
<1> QED BY <1>2, <1>4 DEF ChainsInv

(* Where dirfindentry ends.                                                *)
LEMMA SearchIs ==
    ASSUME NEW name
    PROVE  /\ SearchEnd(name) \in Slots
           /\ slots[SearchEnd(name)].name \in {name, NoName} \/ SearchEnd(name) = DIRSLOTS - 1
           /\ \A j \in 0 .. SearchEnd(name) - 1 : slots[j].name \notin {name, NoName}
<1> DEFINE T == {k \in Slots : slots[k].name \in {name, NoName} \/ k = DIRSLOTS - 1}
           Ends(k) == /\ slots[k].name \in {name, NoName} \/ k = DIRSLOTS - 1
                      /\ \A j \in 0 .. k - 1 : slots[j].name \notin {name, NoName}
<1>1. DIRSLOTS - 1 \in Slots /\ DIRSLOTS - 1 \in Nat /\ Slots = 0 .. DIRSLOTS - 1
  BY Constants DEF Slots
<1>2. T # {} /\ T \subseteq 0 .. DIRSLOTS - 1
  BY <1>1
<1>3. \E m \in T : \A k \in T : m <= k
  <2> HIDE DEF T
  <2> QED BY <1>1, <1>2, Least
<1>4. \E k \in Slots : Ends(k)
  <2>1. PICK m \in T : \A k \in T : m <= k
    BY <1>3
  <2>2. \A j \in 0 .. m - 1 : j \in Slots /\ ~ (m <= j)
    BY <1>1, <1>2, <2>1
  <2>3. Ends(m) /\ m \in Slots
    BY <2>1, <2>2
  <2> HIDE DEF Ends
  <2> QED BY <2>3
<1>5. SearchEnd(name) = CHOOSE k \in Slots : Ends(k)
  BY DEF SearchEnd
<1>6. Ends(SearchEnd(name)) /\ SearchEnd(name) \in Slots
  <2> HIDE DEF Ends
  <2> QED BY <1>4, <1>5
<1> QED BY <1>6

(* The entries of files.                                                   *)
FileEntries == [name : Names, size : Nat, first : Clusters]

(* The handle g of a file whose entry is read.                             *)
Opening(d, entry, b, g) ==
    /\ Handled([d |-> d, h |-> g]) /\ g \in Opened /\ g.entry = entry /\ g.dirty = b
    /\ g.position = 0 /\ g.sectorincluster = 0
    /\ g.currentcluster = entry.first /\ g.buffer = fatreadsector(d, entry.first, 0)
    /\ g.totalclusters = Len(ChainFrom(d, entry.first))

(* filenew makes a handle of the file.                                     *)
LEMMA FileNewIs ==
    ASSUME NEW d \in Disks, NEW entry \in FileEntries, HasChain(d, entry.first), NEW b \in BOOLEAN
    PROVE  Opening(d, entry, b, filenew(d, entry, b))
<1> DEFINE p == ChainFrom(d, entry.first)
           buf == fatreadsector(d, entry.first, 0)
           g == filenew(d, entry, b)
           y == [d |-> d, h |-> g]
<1>1. Len(p) \in Nat /\ p[Len(p)] \in Clusters /\ entry.first \in Clusters
  BY ChainParts
<1>2. buf \in Buffers /\ 0 \in Sectors
  <2>1. 0 \in Sectors
    BY Constants DEF Sectors
  <2> QED BY <2>1, SectorValue
<1>3. g = [opened |-> TRUE, dirty |-> b, entry |-> entry,
           position |-> 0, totalclusters |-> Len(p), lastcluster |-> p[Len(p)],
           currentcluster |-> entry.first, sectorincluster |-> 0, buffer |-> buf]
  BY DEF filenew
<1> HIDE DEF p, buf, g
<1>4. /\ g \in Opened /\ g.entry = entry /\ g.dirty = b /\ g.position = 0 /\ g.sectorincluster = 0
      /\ g.currentcluster = entry.first /\ g.buffer = buf /\ g.totalclusters = Len(p)
      /\ g.lastcluster = p[Len(p)]
  BY <1>1, <1>2, <1>3 DEF Opened, FileEntries, ClusterNumbers
<1>5. y \in Pairs /\ y.d = d /\ y.h = g
  BY <1>4 DEF Pairs
<1>6. Handled(y)
  BY <1>4, <1>5 DEF Handled, AtEnd, p
<1> QED BY <1>4, <1>5, <1>6 DEF p, buf, g, Opening

(* A handle is opened for a file that nobody has open.                     *)
LEMMA AddHandle ==
    ASSUME ChainsInv, NEW h \in Handles, ~handles[h].opened, NEW y, Handled(y), y.d = disk,
           Becomes(h, y), slots' = slots, Rest,
           NEW k \in UsedSlots, y.h.entry = slots[k], Users(slots[k].name) = {},
           slots[k].name \notin spoiled' => Sized(disk, y.h)
    PROVE  ChainsInv'
<1>1. /\ y.h \in Opened /\ y.h.opened /\ AtEnd(disk, y.h) /\ y.h.entry.first = slots[k].first
      /\ y.h.entry.name = slots[k].name
  BY HandleParts DEF Handled
<1>2. /\ disk' = disk /\ handles' \in [Handles -> Opened \cup {Closed}] /\ handles'[h] = y.h
      /\ \A g \in Handles : g # h => handles'[g] = handles[g]
  BY <1>1 DEF Becomes, ChainsInv, Types
<1>3. OpenHandles' = OpenHandles \cup {h} /\ h \notin OpenHandles
  BY <1>1, <1>2 DEF OpenHandles
<1>4. UsedSlots' = UsedSlots
  BY DEF UsedSlots
<1>5. \A g \in OpenHandles : g \in Handles /\ g # h /\ handles'[g] = handles[g]
  BY <1>2, <1>3 DEF OpenHandles
<1>6. Roots' = Roots
  <2>1. slots[k].first \in Roots
    BY DEF Roots
  <2>2. {handles'[g].entry.first : g \in OpenHandles'}
        = {handles[g].entry.first : g \in OpenHandles} \cup {slots[k].first}
    BY <1>1, <1>2, <1>3, <1>5
  <2> QED BY <1>4, <2>1, <2>2 DEF Roots
<1>7. Types'
  BY <1>2 DEF Rest, Types, ChainsInv
<1>8. \A g \in OpenHandles : handles[g].entry.name # slots[k].name
                            /\ handles[g].entry.first # slots[k].first
  <2>1. \A g \in OpenHandles : handles[g].entry.name # slots[k].name
    BY DEF Users, OpenHandles
  <2> QED BY <2>1 DEF ChainsInv, Chains, OneEach
<1>9. OneEach'
  <2>1. OneEach
    BY DEF ChainsInv, Chains
  <2>2. \A i, j \in UsedSlots' : slots'[i].first = slots'[j].first => i = j
    BY <1>4, <2>1 DEF OneEach
  <2>3. \A i, j \in UsedSlots' : slots'[i].name = slots'[j].name => i = j
    BY <1>4, <2>1 DEF OneEach
  <2>4. \A i \in UsedSlots', j \in Slots : j < i => j \in UsedSlots'
    BY <1>4, <2>1 DEF OneEach
  <2>5. \A f, g \in OpenHandles' :
          /\ handles'[f].entry.first = handles'[g].entry.first => f = g
          /\ handles'[f].entry.name = handles'[g].entry.name => f = g
    BY <1>1, <1>2, <1>3, <1>5, <1>8, <2>1 DEF OneEach
  <2>6. ASSUME NEW g \in OpenHandles', NEW i \in UsedSlots' PROVE
          handles'[g].entry.first = slots'[i].first <=> handles'[g].entry.name = slots'[i].name
    <3>1. \A j \in UsedSlots : slots[k].first = slots[j].first <=> slots[k].name = slots[j].name
      BY <2>1 DEF OneEach
    <3>2. CASE g = h
      BY <1>1, <1>2, <1>4, <3>1, <3>2
    <3>3. CASE g # h
      <4>1. g \in OpenHandles /\ handles'[g] = handles[g]
        BY <1>3, <1>5, <3>3
      <4> QED BY <1>4, <2>1, <4>1 DEF OneEach
    <3> QED BY <3>2, <3>3
  <2>7. \A g \in OpenHandles', i \in UsedSlots' :
          handles'[g].entry.first = slots'[i].first <=> handles'[g].entry.name = slots'[i].name
    BY ONLY <2>6
  <2> QED BY ONLY <2>2, <2>3, <2>4, <2>5, <2>7 DEF OneEach
<1>10. Apart(disk', Roots')
  BY <1>2, <1>6 DEF ChainsInv, Chains
<1>11. ASSUME NEW g \in OpenHandles'
       PROVE  /\ AtEnd(disk', handles'[g])
              /\ handles'[g].entry.name \notin spoiled' => Sized(disk', handles'[g])
  <2>1. CASE g = h
    BY <1>1, <1>2, <2>1
  <2>2. CASE g # h
    BY <1>2, <1>3, <1>5, <2>2 DEF ChainsInv, Chains, Rest
  <2> QED BY <2>1, <2>2
<1>12. \A i \in UsedSlots' : slots'[i].name \notin spoiled' =>
          slots'[i].size <= Len(ChainFrom(disk', slots'[i].first)) * PerCluster
  BY <1>2, <1>4 DEF ChainsInv, Chains, Rest
<1>13. Chains'
  BY <1>9, <1>10, <1>11, <1>12 DEF Chains
<1> QED BY <1>7, <1>13 DEF ChainsInv

(* A handle is closed; the entry of its file may have become its own.      *)
LEMMA RemoveHandle ==
    ASSUME ChainsInv, NEW h \in Handles, handles' = [handles EXCEPT ![h] = Closed],
           disk' \in Disks, disk'.fat = disk.fat, Rest, slots' \in [Slots -> Entries],
           \A k \in Slots : /\ slots'[k].name = slots[k].name
                            /\ k \in UsedSlots => slots'[k].first = slots[k].first,
           \A k \in UsedSlots : slots[k].name \notin spoiled' =>
              slots'[k].size <= Len(ChainFrom(disk, slots[k].first)) * PerCluster
    PROVE  ChainsInv'
<1>1. /\ handles' \in [Handles -> Opened \cup {Closed}] /\ handles'[h] = Closed
      /\ \A g \in Handles : g # h => handles'[g] = handles[g]
  BY DEF ChainsInv, Types
<1>2. OpenHandles' = OpenHandles \ {h}
  BY <1>1 DEF OpenHandles, Closed
<1>3. UsedSlots' = UsedSlots
  BY DEF UsedSlots
<1>4. \A g \in OpenHandles' : g \in OpenHandles /\ handles'[g] = handles[g]
  BY <1>1, <1>2 DEF OpenHandles
<1>5. Roots' \subseteq Roots
  <2>1. \A k \in UsedSlots : slots'[k].first = slots[k].first
    BY DEF UsedSlots
  <2> QED BY <1>3, <1>4, <2>1 DEF Roots
<1>6. \A c \in Roots : HasChain(disk', c) /\ ChainFrom(disk', c) = ChainFrom(disk, c)
                        /\ Place(disk', c) = Place(disk, c)
  <2>1. disk'.fat = disk.fat /\ \A c \in Roots : HasChain(disk, c)
    BY DiskParts DEF Apart
  <2> QED BY ONLY <2>1, RegrownSame
<1>7. Apart(disk', Roots')
  BY <1>5, <1>6, DiskParts DEF Apart
<1>8. OneEach'
  <2>1. OneEach /\ \A k \in UsedSlots : slots'[k].first = slots[k].first /\ slots'[k].name = slots[k].name
    BY DEF ChainsInv, Chains, UsedSlots
  <2> QED BY <1>3, <1>4, <2>1 DEF OneEach
<1>9. ASSUME NEW g \in OpenHandles'
      PROVE  /\ AtEnd(disk', handles'[g])
             /\ handles'[g].entry.name \notin spoiled' => Sized(disk', handles'[g])
  <2>1. handles[g].entry.first \in Roots /\ handles'[g] = handles[g] /\ g \in OpenHandles
    BY <1>4, OpenIs
  <2>2. AtEnd(disk, handles[g]) /\ (handles[g].entry.name \notin spoiled => Sized(disk, handles[g]))
    BY <2>1 DEF ChainsInv, Chains
  <2> QED BY <1>6, <2>1, <2>2 DEF AtEnd, Sized, Rest
<1>10. \A k \in UsedSlots' : slots'[k].name \notin spoiled' =>
          slots'[k].size <= Len(ChainFrom(disk', slots'[k].first)) * PerCluster
  <2>1. \A k \in UsedSlots : slots[k].first \in Roots /\ slots'[k].first = slots[k].first
                             /\ slots'[k].name = slots[k].name
    BY DiskParts DEF UsedSlots
  <2> QED BY <1>3, <1>6, <2>1
<1>11. Chains'
  BY <1>7, <1>8, <1>9, <1>10 DEF Chains
<1>12. Types'
  BY <1>1 DEF Rest, Types, ChainsInv
<1> QED BY <1>11, <1>12 DEF ChainsInv

(* A free cluster becomes the only one of a chain.                         *)
LEMMA FreshDisk ==
    ASSUME ChainsInv, Room(0, 1)
    PROVE  LET c == fatfindfreecluster(disk)
               e == [disk EXCEPT !.fat[c] = END]
           IN  /\ c \in FreeClusters(disk) /\ c \in Clusters
               /\ e \in Disks /\ e.data = disk.data /\ e.stray = disk.stray
               /\ e.fat = [disk.fat EXCEPT ![c] = END]
<1> DEFINE c == fatfindfreecluster(disk)
           e == [disk EXCEPT !.fat[c] = END]
<1>1. FreeClusters(disk) # {}
  <2> SUFFICES ASSUME FreeClusters(disk) = {} PROVE FALSE
    OBVIOUS
  <2>1. Cardinality(FreeClusters(disk)) = 0
    BY FS_EmptySet
  <2> QED BY <2>1, Constants DEF Room
<1>2. c \in FreeClusters(disk) /\ c \in Clusters
  <2>1. c \in FreeClusters(disk)
    BY <1>1, FindFree
  <2> QED BY <2>1 DEF FreeClusters
<1> DEFINE u == [disk.fat EXCEPT ![c] = END]
<1>3. disk \in Disks /\ disk.fat \in Tables
  BY DiskParts
<1>4. e = [disk EXCEPT !.fat = u]
  OBVIOUS
<1>5. u \in Tables
  BY <1>2, <1>3 DEF Tables, ClusterNumbers
<1> HIDE DEF u, e
<1>6. e \in Disks /\ e.data = disk.data /\ e.stray = disk.stray /\ e.fat = u
  BY <1>3, <1>4, <1>5 DEF Disks
<1> QED BY <1>2, <1>6 DEF e, u

(* The units of a file after a write.                                      *)
LEMMA OverwrittenIs ==
    ASSUME NEW c \in Seq(Values), NEW at \in Nat, NEW v \in Values, NEW n \in Nat, at <= Len(c)
    PROVE  LET o == Overwritten(c, at, v, n)
           IN  /\ o \in Seq(Values) /\ Len(o) = IF at + n > Len(c) THEN at + n ELSE Len(c)
               /\ \A k \in 1 .. Len(o) : o[k] = IF k \in at + 1 .. at + n THEN v ELSE c[k]
<1> DEFINE L == IF Len(c) > at + n THEN Len(c) ELSE at + n
           o == [k \in 1 .. L |-> IF k \in at + 1 .. at + n THEN v ELSE c[k]]
<1>1. L \in Nat /\ Overwritten(c, at, v, n) = o
  BY DEF Overwritten, Greater
<1>2. \A k \in 1 .. L : (IF k \in at + 1 .. at + n THEN v ELSE c[k]) \in Values
  OBVIOUS
<1> HIDE DEF L
<1>3. o \in Seq(Values) /\ Len(o) = L
  BY <1>1, <1>2
<1> QED BY <1>1, <1>3 DEF L

-----------------------------------------------------------------------------
(* The system's steps.                                                     *)

(* What a call, proper or not, does to the spoiled files.                  *)
LEMMA JudgeIs ==
    ASSUME ChainsInv, NEW h \in OpenHandles, NEW p, Judge(p, h)
    PROVE  /\ spoiled \subseteq spoiled' /\ spoiled' \subseteq Names
           /\ p => spoiled' = spoiled
           /\ ~p => handles[h].entry.name \in spoiled'
<1>1. handles[h].entry.name \in Names /\ spoiled \subseteq Names
  BY OpenIs DEF ChainsInv, Types
<1>2. CASE p
  BY <1>1, <1>2 DEF Judge, ProperUse, use
<1>3. CASE ~p
  BY <1>1, <1>3 DEF Judge, Misuse
<1> QED BY <1>2, <1>3

LEMMA RestIs ==
    ASSUME ChainsInv, spoiled \subseteq spoiled', spoiled' \subseteq Names,
           got' = NoRead \/ got'.name \in Names,
           enoent' = enoent \/ enoent' \in BOOLEAN,
           content' = content \/ content' \in [Names -> Seq(Values)],
           session' = session \/ session' \in [Handles -> {"none", "reading", "writing", "full"}],
           lost' = lost \/ lost' \subseteq Names
    PROVE  Rest
<1>1. got'.name \in Names \cup {NoName}
  BY DEF NoRead
<1>2. /\ enoent \in BOOLEAN /\ content \in [Names -> Seq(Values)] /\ lost \subseteq Names
      /\ session \in [Handles -> {"none", "reading", "writing", "full"}]
  BY DEF ChainsInv, Types
<1>3. enoent' \in BOOLEAN /\ content' \in [Names -> Seq(Values)]
  BY <1>2
<1>4. session' \in [Handles -> {"none", "reading", "writing", "full"}] /\ lost' \subseteq Names
  BY <1>2
<1> QED BY <1>1, <1>3, <1>4 DEF Rest

LEMMA SizedIs ==
    ASSUME ChainsInv, NEW h \in OpenHandles, handles[h].entry.name \notin spoiled
    PROVE  Sized(disk, handles[h])
  BY DEF ChainsInv, Chains

(* Every call keeps the chains: the ones that fail, the ones on a handle,  *)
(* and below those that add or remove one.                                 *)
LEMMA KeepsOpenFails ==
    ASSUME ChainsInv, NEW n \in Names, OpenFails(n)
    PROVE  ChainsInv'
<1>1. Rest
  <2>1. spoiled' = spoiled /\ spoiled \subseteq Names
    BY DEF OpenFails, ghosts, use, ChainsInv, Types
  <2> QED BY <2>1, RestIs DEF OpenFails, ghosts, use
<1> QED BY <1>1, ErrnoStep DEF OpenFails

LEMMA KeepsSeekFails ==
    ASSUME ChainsInv, NEW h \in Handles, SeekFails(h)
    PROVE  ChainsInv'
<1>1. Rest
  <2>1. spoiled' = spoiled /\ spoiled \subseteq Names
    BY DEF SeekFails, ghosts, use, ChainsInv, Types
  <2> QED BY <2>1, RestIs DEF SeekFails, ghosts, use
<1> QED BY <1>1, ErrnoStep DEF SeekFails

LEMMA KeepsRead ==
    ASSUME ChainsInv, NEW h \in Handles, NEW n \in Nat, Read(h, n)
    PROVE  ChainsInv'
<1> DEFINE r == _fileread(X(h), n)
           y == [d |-> disk, h |-> r.h]
           c == handles[h].entry.first
<1>1. h \in OpenHandles
  BY DEF Read, OpenHandles
<1>2. Handled(X(h)) /\ X(h).d = disk /\ X(h).h = handles[h] /\ handles[h].entry.name \in Names
      /\ handles[h].position \in Nat
  BY <1>1, OpenIs
<1>3. /\ Moved(X(h), y) /\ SameFile(handles[h], r.h)
      /\ handles[h].position <= handles[h].entry.size /\ handles[h].entry.size <= Capacity(handles[h]) =>
           r.h.position <= handles[h].entry.size
  <2> HIDE DEF r
  <2> QED BY <1>2, ReadIs DEF r
<1>4. /\ disk' = disk /\ handles' = [handles EXCEPT ![h] = r.h] /\ slots' = slots
      /\ enoent' = enoent /\ content' = content /\ session' = session /\ lost' = lost
      /\ got'.name = handles[h].entry.name
      /\ Judge(session[h] = "reading", h)
  BY DEF Read
<1> HIDE DEF r
<1>5. spoiled \subseteq spoiled' /\ spoiled' \subseteq Names
  BY <1>1, <1>4, JudgeIs
<1>6. Rest
  BY <1>2, <1>4, <1>5, RestIs
<1>7. Becomes(h, y)
  BY <1>4 DEF Becomes
<1>8. ASSUME handles[h].entry.name \notin spoiled'
      PROVE  Sized(y.d, y.h)
  <2>1. Sized(disk, handles[h])
    BY <1>1, <1>5, <1>8, SizedIs
  <2> QED BY <1>3, <2>1 DEF Sized, SameFile, Capacity
<1>9. Len(ChainFrom(y.d, c)) >= Len(ChainFrom(disk, c))
  <2>1. HasChain(disk, c)
    BY <1>2, HandleParts
  <2>2. Len(ChainFrom(disk, c)) \in Nat
    BY <2>1, ChainParts
  <2> QED BY <2>2
<1> HIDE DEF y, c
<1> QED BY <1>1, <1>3, <1>4, <1>6, <1>7, <1>8, <1>9, HandleStep DEF c

(* A call that leaves the table and the lengths as they are.               *)
LEMMA KeepsSame ==
    ASSUME ChainsInv, NEW h \in OpenHandles, NEW y, Moved(X(h), y), y.d.fat = disk.fat,
           Becomes(h, y), slots' = slots, Rest, SameFile(handles[h], y.h),
           handles[h].entry.name \notin spoiled' => y.h.position <= handles[h].entry.size
    PROVE  ChainsInv'
<1> DEFINE c == handles[h].entry.first
<1>1. HasChain(disk, c) /\ X(h).h = handles[h]
  BY OpenIs, HandleParts
<1>2. ChainFrom(y.d, c) = ChainFrom(disk, c) /\ Len(ChainFrom(disk, c)) \in Nat
  <2> HIDE DEF c
  <2>1. ChainFrom(y.d, c) = ChainFrom(disk, c)
    BY <1>1, RegrownSame
  <2>2. Len(ChainFrom(disk, c)) \in Nat
    BY <1>1, ChainParts
  <2> QED BY <2>1, <2>2
<1>3. ASSUME handles[h].entry.name \notin spoiled'
      PROVE  Sized(y.d, y.h)
  <2>1. Sized(disk, handles[h])
    BY <1>3, SizedIs DEF Rest
  <2> QED BY <1>2, <1>3, <2>1 DEF Sized, SameFile, Capacity
<1> QED BY <1>2, <1>3, HandleStep

LEMMA KeepsSeek ==
    ASSUME ChainsInv, NEW h \in Handles, NEW p \in Nat, Seek(h, p)
    PROVE  ChainsInv'
<1> DEFINE y == fileseek(X(h), p)
<1>1. h \in OpenHandles
  BY DEF Seek, OpenHandles
<1>2. Handled(X(h)) /\ X(h).d = disk /\ X(h).h = handles[h]
  BY <1>1, OpenIs
<1>3. Moved(X(h), y) /\ y.d = disk /\ SameFile(handles[h], y.h) /\ y.h.position = p
  BY <1>2, SeekIs
<1>4. /\ Becomes(h, y) /\ slots' = slots /\ p <= handles[h].entry.size
      /\ enoent' = enoent /\ content' = content /\ session' = session /\ lost' = lost
      /\ got' = NoRead /\ Judge(session[h] = "reading", h)
  BY DEF Seek, Abandons
<1> HIDE DEF y
<1>5. spoiled \subseteq spoiled' /\ spoiled' \subseteq Names
  BY <1>1, <1>4, JudgeIs
<1>6. Rest
  BY <1>4, <1>5, RestIs
<1> QED BY <1>1, <1>3, <1>4, <1>6, KeepsSame

LEMMA KeepsRewind ==
    ASSUME ChainsInv, NEW h \in Handles, Rewind(h)
    PROVE  ChainsInv'
<1> DEFINE y == filereset(X(h))
<1>1. h \in OpenHandles
  BY DEF Rewind, OpenHandles
<1>2. Handled(X(h)) /\ X(h).d = disk /\ X(h).h = handles[h] /\ handles[h].entry.size \in Nat
  BY <1>1, OpenIs
<1>3. Moved(X(h), y) /\ y.d = disk /\ SameFile(handles[h], y.h) /\ y.h.position = 0
  BY <1>2, ResetIs
<1>4. /\ Becomes(h, y) /\ slots' = slots
      /\ enoent' = enoent /\ content' = content /\ session' = session /\ lost' = lost
      /\ got' = NoRead /\ Judge(session[h] = "reading", h)
  BY DEF Rewind, Abandons
<1> HIDE DEF y
<1>5. spoiled \subseteq spoiled' /\ spoiled' \subseteq Names
  BY <1>1, <1>4, JudgeIs
<1>6. Rest
  BY <1>4, <1>5, RestIs
<1> QED BY <1>1, <1>2, <1>3, <1>4, <1>6, KeepsSame

LEMMA KeepsFlush ==
    ASSUME ChainsInv, NEW h \in Handles, Flush(h)
    PROVE  ChainsInv'
<1> DEFINE y == fileflush(X(h))
<1>1. h \in OpenHandles
  BY DEF Flush, OpenHandles
<1>2. Handled(X(h)) /\ X(h).d = disk /\ X(h).h = handles[h]
  BY <1>1, OpenIs
<1>3. /\ Moved(X(h), y) /\ y.d.fat = disk.fat /\ SameFile(handles[h], y.h)
      /\ y.h.position = handles[h].position
  BY <1>2, FlushIs
<1>4. /\ Becomes(h, y) /\ slots' = slots
      /\ enoent' = enoent /\ content' = content /\ session' = session /\ lost' = lost
      /\ got' = NoRead /\ Judge(session[h] = "reading", h)
  BY DEF Flush, Abandons
<1> HIDE DEF y
<1>5. spoiled \subseteq spoiled' /\ spoiled' \subseteq Names
  BY <1>1, <1>4, JudgeIs
<1>6. Rest
  BY <1>4, <1>5, RestIs
<1>7. handles[h].entry.name \notin spoiled' => y.h.position <= handles[h].entry.size
  BY <1>1, <1>3, <1>5, SizedIs DEF Sized
<1> QED BY <1>1, <1>3, <1>4, <1>6, <1>7, KeepsSame

LEMMA KeepsResize ==
    ASSUME ChainsInv, NEW h \in Handles, NEW size \in Nat, Resize(h, size)
    PROVE  ChainsInv'
<1> DEFINE y == fileresize(X(h), size)
<1>1. h \in OpenHandles
  BY DEF Resize, OpenHandles
<1>2. /\ Handled(X(h)) /\ X(h).d = disk /\ X(h).h = handles[h] /\ handles[h].totalclusters \in Nat
      /\ handles[h].entry.name \in Names
  BY <1>1, OpenIs
<1>3. Moved(X(h), y)
  <2>1. Capacity(X(h).h) \in Nat
    <3> DEFINE t == handles[h].totalclusters
    <3>1. t \in Nat /\ PerCluster \in Nat
      BY <1>2, Constants
    <3> HIDE DEF t
    <3>2. t * PerCluster \in Nat
      BY <3>1
    <3> QED BY <1>2, <3>2 DEF Capacity, t
  <2>2. CASE size > Capacity(X(h).h)
    BY <1>2, <2>2, GrowIs DEF Resize, Room
  <2>3. CASE size <= Capacity(X(h).h)
    BY <1>2, <2>3, ShrinkIs
  <2> HIDE DEF y
  <2> QED BY <2>1, <2>2, <2>3
<1>4. /\ Becomes(h, y) /\ slots' = slots
      /\ enoent' = enoent /\ content' = content /\ session' = session /\ lost' = lost
      /\ got' = NoRead
      /\ \E harmed \in SUBSET Names : handles[h].entry.name \in harmed /\ Misuse(harmed)
  BY <1>2 DEF Resize
<1> HIDE DEF y
<1>5. spoiled \subseteq spoiled' /\ spoiled' \subseteq Names /\ handles[h].entry.name \in spoiled'
  BY <1>4 DEF Misuse, ChainsInv, Types
<1>6. Rest
  BY <1>4, <1>5, RestIs
<1> QED BY <1>1, <1>3, <1>4, <1>5, <1>6, HandleStep

LEMMA KeepsWrite ==
    ASSUME ChainsInv, NEW h \in Handles, NEW v \in Values, NEW n \in Nat, Write(h, v, n)
    PROVE  ChainsInv'
<1> DEFINE y == _filewrite(X(h), v, n)
           c == handles[h].entry.first
           name == handles[h].entry.name
           at == handles[h].position
<1>1. h \in OpenHandles
  BY DEF Write, OpenHandles
<1>2. /\ Handled(X(h)) /\ X(h).d = disk /\ X(h).h = handles[h] /\ handles[h].totalclusters \in Nat
      /\ name \in Names /\ at \in Nat /\ c \in Clusters
  BY <1>1, OpenIs
<1>3. Roomy(X(h), at + n)
  BY <1>2 DEF Write, Room, Roomy
<1>4. /\ Moved(X(h), y) /\ y.h.position <= y.h.entry.size
      /\ handles[h].entry.size <= Capacity(handles[h]) => y.h.entry.size <= Capacity(y.h)
      /\ Len(ChainFrom(y.d, c)) - Len(ChainFrom(disk, c)) = y.h.totalclusters - handles[h].totalclusters
      /\ Len(ChainFrom(y.d, c)) >= Len(ChainFrom(disk, c))
  <2> HIDE DEF y
  <2> QED BY <1>2, <1>3, WriteIs DEF y
<1>5. /\ Becomes(h, y) /\ slots' = slots
      /\ enoent' = enoent /\ lost' = lost /\ got' = NoRead /\ Judge(~Spoils(h, n), h)
      /\ content' = IF at > Len(content[name]) THEN content
                    ELSE [content EXCEPT ![name] = Overwritten(@, at, v, n)]
      /\ session' = [session EXCEPT ![h] = IF (at + n) % S = 0 THEN "full" ELSE "writing"]
  BY DEF Write
<1> HIDE DEF y
<1>6. spoiled \subseteq spoiled' /\ spoiled' \subseteq Names
  <2> DEFINE p == ~Spoils(h, n)
  <2>1. Judge(p, h)
    BY <1>5
  <2> HIDE DEF p
  <2> QED BY <1>1, <2>1, JudgeIs
<1>7. content' \in [Names -> Seq(Values)] /\ session' \in [Handles -> {"none", "reading", "writing", "full"}]
  <2>1. content \in [Names -> Seq(Values)] /\ session \in [Handles -> {"none", "reading", "writing", "full"}]
    BY DEF ChainsInv, Types
  <2>2. content[name] \in Seq(Values)
    BY <1>2, <2>1
  <2>3. at <= Len(content[name]) => Overwritten(content[name], at, v, n) \in Seq(Values)
    <3> HIDE DEF name, at
    <3> QED BY <1>2, <2>2, OverwrittenIs
  <2>4. at <= Len(content[name]) \/ at > Len(content[name])
    BY <1>2, <2>2
  <2> HIDE DEF name, at
  <2> QED BY <1>5, <2>1, <2>3, <2>4
<1>8. Rest
  BY <1>5, <1>6, <1>7, RestIs
<1>9. ASSUME name \notin spoiled'
      PROVE  Sized(y.d, y.h)
  <2>1. Sized(disk, handles[h])
    BY <1>1, <1>6, <1>9, SizedIs
  <2>2. y.h.totalclusters \in Nat /\ HasChain(y.d, c) /\ y.h.entry.first = c
    BY <1>2, <1>4, HandleParts DEF Moved
  <2>3. HasChain(disk, c)
    BY <1>2, HandleParts
  <2>4. Len(ChainFrom(y.d, c)) \in Nat /\ Len(ChainFrom(disk, c)) \in Nat
    <3> HIDE DEF c
    <3> QED BY <2>2, <2>3, ChainParts
  <2> QED BY <1>2, <1>4, <2>1, <2>2, <2>4 DEF Sized
<1> HIDE DEF c, name, at
<1> QED BY <1>1, <1>4, <1>5, <1>8, <1>9, HandleStep DEF c, name

(* The cluster that a failing create takes is in no file.                  *)
LEMMA KeepsCreateFails ==
    ASSUME ChainsInv, NEW n \in Names, CreateFails(n)
    PROVE  ChainsInv'
<1> DEFINE c == fatfindfreecluster(disk)
           e == [disk EXCEPT !.fat[c] = END]
<1>1. disk' = e /\ Room(0, 1) /\ slots' = slots /\ handles' = handles
  BY DEF CreateFails
<1>2. c \in FreeClusters(disk) /\ e \in Disks /\ e.fat = [disk.fat EXCEPT ![c] = END]
  BY <1>1, FreshDisk
<1> HIDE DEF e, c
<1>3. OpenHandles' = OpenHandles /\ UsedSlots' = UsedSlots /\ Roots' = Roots
  BY <1>1 DEF OpenHandles, UsedSlots, Roots
<1>4. /\ c \notin Roots /\ Apart(e, Roots \cup {c}) /\ Apart(e, Roots)
      /\ \A b \in Roots : ChainFrom(e, b) = ChainFrom(disk, b)
  <2>1. disk.fat \in Tables /\ Apart(disk, Roots)
    BY DiskParts
  <2> QED BY <1>2, <2>1, FreshApart
<1>5. Rest
  <2>1. spoiled' = spoiled /\ spoiled \subseteq Names
    BY DEF CreateFails, ghosts, use, ChainsInv, Types
  <2> QED BY <2>1, RestIs DEF CreateFails, ghosts, use
<1>6. Types'
  BY <1>1, <1>2, <1>5 DEF ChainsInv, Types, Rest
<1>7. Apart(disk', Roots') /\ OneEach'
  BY <1>1, <1>3, <1>4 DEF ChainsInv, Chains, OneEach
<1>8. ASSUME NEW h \in OpenHandles'
      PROVE  /\ AtEnd(disk', handles'[h])
             /\ handles'[h].entry.name \notin spoiled' => Sized(disk', handles'[h])
  <2>1. handles[h].entry.first \in Roots /\ h \in OpenHandles
    BY <1>3, OpenIs
  <2>2. AtEnd(disk, handles[h]) /\ (handles[h].entry.name \notin spoiled => Sized(disk, handles[h]))
    BY <2>1 DEF ChainsInv, Chains
  <2> QED BY <1>1, <1>4, <1>5, <2>1, <2>2 DEF AtEnd, Sized, Rest
<1>9. \A k \in UsedSlots' : slots'[k].name \notin spoiled' =>
          slots'[k].size <= Len(ChainFrom(disk', slots'[k].first)) * PerCluster
  BY <1>1, <1>3, <1>4, <1>5, DiskParts DEF ChainsInv, Chains, Rest
<1>10. Chains'
  BY <1>7, <1>8, <1>9 DEF Chains
<1> QED BY <1>6, <1>10 DEF ChainsInv

(* A search that has not found the name has ended in an entry that no file *)
(* has, or in the last one.                                                *)
LEMMA NotFoundIs ==
    ASSUME ChainsInv, NEW n \in Names, ~Found(n)
    PROVE  LET k == SearchEnd(n)
           IN  /\ k \in Slots
               /\ \A j \in UsedSlots : j # k => slots[j].name # n
               /\ InReach(k) => k \notin UsedSlots
               /\ \A j \in Slots : j < k => j \in UsedSlots
<1> DEFINE k == SearchEnd(n)
<1>1. /\ k \in Slots /\ (slots[k].name \in {n, NoName} \/ k = DIRSLOTS - 1)
      /\ \A j \in 0 .. k - 1 : slots[j].name \notin {n, NoName}
      /\ ~ (InReach(k) /\ slots[k].name = n)
  BY SearchIs DEF Found
<1> HIDE DEF k
<1>2. Slots = 0 .. DIRSLOTS - 1 /\ DIRSLOTS \in Nat
  BY Constants DEF Slots
<1>3. InReach(k) => k \notin UsedSlots
  BY <1>1, <1>2 DEF InReach, UsedSlots
<1>4. ASSUME NEW j \in Slots, j < k PROVE j \in UsedSlots /\ slots[j].name # n
  <2>1. j \in 0 .. k - 1
    BY <1>1, <1>2, <1>4
  <2> QED BY <1>1, <2>1 DEF UsedSlots
<1>5. ASSUME NEW j \in UsedSlots, j # k PROVE slots[j].name # n
  <2>1. CASE j < k
    BY <1>4, <2>1 DEF UsedSlots
  <2>2. CASE k < j
    <3>1. InReach(k) /\ j \in Slots
      BY <1>1, <1>2, <2>2 DEF InReach, UsedSlots
    <3>2. k \in UsedSlots
      BY <1>1, <2>2, <3>1 DEF ChainsInv, Chains, OneEach
    <3> QED BY <1>3, <3>1, <3>2
  <2> QED BY <1>1, <1>2, <1>5, <2>1, <2>2 DEF UsedSlots
<1> QED BY <1>1, <1>3, <1>4, <1>5 DEF k

(* A created file starts with a free cluster, at an entry that no other    *)
(* file can lose by its chain.                                             *)
LEMMA KeepsCreate ==
    ASSUME ChainsInv, NEW h \in Handles, NEW n \in Names, Create(h, n)
    PROVE  ChainsInv'
<1> DEFINE c == fatfindfreecluster(disk)
           k == SearchEnd(n)
           entry == [name |-> n, size |-> 0, first |-> c]
           d == [disk EXCEPT !.fat[c] = END]
           g == filenew(d, entry, TRUE)
<1>1. /\ ~handles[h].opened /\ Users(n) = {} /\ ~Found(n) /\ Room(0, 1)
      /\ slots' = [slots EXCEPT ![k] = entry]
      /\ disk' = d /\ handles' = [handles EXCEPT ![h] = g]
      /\ lost' = (lost \cup IF InReach(k) THEN {} ELSE {n, slots[k].name}) \ {NoName}
      /\ enoent' = TRUE /\ content' = [content EXCEPT ![n] = <<>>]
      /\ session' = [session EXCEPT ![h] = "writing"]
      /\ got' = NoRead /\ spoiled' = spoiled
  <2> HIDE DEF g
  <2> QED BY DEF Create, Becomes, ProperUse, use, g
<1>2. c \in FreeClusters(disk) /\ c \in Clusters /\ d \in Disks /\ d.fat = [disk.fat EXCEPT ![c] = END]
  BY <1>1, FreshDisk
<1> HIDE DEF c, d
<1>3. /\ c \notin Roots /\ Apart(d, Roots \cup {c}) /\ ChainFrom(d, c) = <<c>> /\ HasChain(d, c)
      /\ \A b \in Roots : ChainFrom(d, b) = ChainFrom(disk, b)
  <2>1. disk.fat \in Tables /\ Apart(disk, Roots)
    BY DiskParts
  <2> QED BY <1>2, <2>1, FreshApart
<1>4. entry \in FileEntries /\ entry \in Entries /\ entry.first = c /\ entry.name = n /\ entry.size = 0
  BY <1>2 DEF FileEntries, Entries
<1> HIDE DEF entry
<1>5. /\ g \in Opened /\ g.opened /\ g.entry = entry /\ g.position = 0 /\ g.totalclusters = 1 /\ AtEnd(d, g)
  <2>1. Opening(d, entry, TRUE, g)
    <3>1. HasChain(d, entry.first) /\ TRUE \in BOOLEAN
      BY <1>3, <1>4
    <3> QED BY <1>2, <1>4, <3>1, FileNewIs
  <2> DEFINE y == [d |-> d, h |-> g]
  <2>2. Handled(y) /\ y.d = d /\ y.h = g
    <3> HIDE DEF g
    <3> QED BY <2>1 DEF Opening
  <2> HIDE DEF g, y
  <2>3. g.opened /\ AtEnd(d, g)
    BY <2>2, HandleParts DEF Handled
  <2> QED BY <1>3, <1>4, <2>1, <2>3 DEF Opening
<1> HIDE DEF g
<1>6. /\ k \in Slots /\ \A j \in UsedSlots : j # k => slots[j].name # n
      /\ \A j \in Slots : j < k => j \in UsedSlots
      /\ InReach(k) => k \notin UsedSlots
  BY <1>1, NotFoundIs
<1> HIDE DEF k
<1>7. /\ slots' \in [Slots -> Entries] /\ slots'[k] = entry
      /\ \A j \in Slots : j # k => slots'[j] = slots[j]
  BY <1>1, <1>4, <1>6, DiskParts
<1>8. UsedSlots' = UsedSlots \cup {k}
  <2>1. n # NoName
    BY Constants
  <2> QED BY <1>4, <1>6, <1>7, <2>1 DEF UsedSlots
<1>9. /\ handles' \in [Handles -> Opened \cup {Closed}] /\ handles'[h] = g
      /\ \A f \in Handles : f # h => handles'[f] = handles[f]
  BY <1>1, <1>5, DiskParts
<1>10. OpenHandles' = OpenHandles \cup {h} /\ h \notin OpenHandles
  BY <1>1, <1>5, <1>9 DEF OpenHandles
<1>11. \A f \in OpenHandles : f \in Handles /\ f # h /\ handles'[f] = handles[f]
                             /\ handles[f].entry.first \in Roots
                             /\ handles[f].entry.first # c /\ handles[f].entry.name # n
  BY <1>1, <1>3, <1>9, <1>10 DEF OpenHandles, Roots, Users
<1>12. \A j \in UsedSlots : j \in Slots /\ slots[j].first \in Roots /\ slots[j].first # c
  BY <1>3 DEF UsedSlots, Roots
<1>13. Roots' \subseteq Roots \cup {c}
  <2>1. \A j \in UsedSlots' : slots'[j].first \in Roots \cup {c}
    BY <1>4, <1>7, <1>8, <1>12
  <2>2. \A f \in OpenHandles' : handles'[f].entry.first \in Roots \cup {c}
    BY <1>4, <1>5, <1>9, <1>10, <1>11
  <2> QED BY <2>1, <2>2 DEF Roots
<1>14. Apart(disk', Roots')
  <2>1. disk' = d
    BY <1>1
  <2> QED BY <1>3, <1>13, <2>1 DEF Apart
<1>15. OneEach'
  <2>1. OneEach
    BY DEF ChainsInv, Chains
  <2>2. \A i, j \in UsedSlots' : slots'[i].first = slots'[j].first => i = j
    BY <1>4, <1>7, <1>8, <1>12, <2>1 DEF OneEach
  <2>3. \A i, j \in UsedSlots' : slots'[i].name = slots'[j].name => i = j
    BY <1>4, <1>6, <1>7, <1>8, <1>12, <2>1 DEF OneEach
  <2>4. \A i \in UsedSlots', j \in Slots : j < i => j \in UsedSlots'
    BY <1>6, <1>8, <2>1 DEF OneEach
  <2>5. \A e, f \in OpenHandles' : handles'[e].entry.first = handles'[f].entry.first => e = f
    BY <1>4, <1>5, <1>9, <1>10, <1>11, <2>1 DEF OneEach
  <2>6. \A e, f \in OpenHandles' : handles'[e].entry.name = handles'[f].entry.name => e = f
    BY <1>4, <1>5, <1>9, <1>10, <1>11, <2>1 DEF OneEach
  <2>7. ASSUME NEW f \in OpenHandles', NEW j \in UsedSlots' PROVE
          handles'[f].entry.first = slots'[j].first <=> handles'[f].entry.name = slots'[j].name
    <3>1. CASE f = h /\ j = k
      BY <1>4, <1>5, <1>7, <1>9, <3>1
    <3>2. CASE f = h /\ j # k
      BY <1>4, <1>5, <1>6, <1>7, <1>8, <1>9, <1>12, <3>2
    <3>3. CASE f # h /\ j = k
      BY <1>4, <1>7, <1>10, <1>11, <3>3
    <3>4. CASE f # h /\ j # k
      BY <1>7, <1>8, <1>10, <1>11, <1>12, <2>1, <3>4 DEF OneEach
    <3> QED BY <3>1, <3>2, <3>3, <3>4
  <2>8. \A f \in OpenHandles', j \in UsedSlots' :
          handles'[f].entry.first = slots'[j].first <=> handles'[f].entry.name = slots'[j].name
    BY ONLY <2>7
  <2> QED BY ONLY <2>2, <2>3, <2>4, <2>5, <2>6, <2>8 DEF OneEach
<1>16. ASSUME NEW f \in OpenHandles'
       PROVE  /\ AtEnd(disk', handles'[f])
              /\ handles'[f].entry.name \notin spoiled' => Sized(disk', handles'[f])
  <2>1. CASE f = h
    <3>1. Sized(d, g)
      <4>1. Capacity(g) >= 0
        BY <1>5, Constants DEF Capacity
      <4> QED BY <1>3, <1>4, <1>5, <4>1 DEF Sized
    <3> QED BY <1>1, <1>5, <1>9, <2>1, <3>1
  <2>2. CASE f # h
    <3>1. f \in OpenHandles
      BY <1>10, <2>2
    <3>2. AtEnd(disk, handles[f]) /\ (handles[f].entry.name \notin spoiled => Sized(disk, handles[f]))
      BY <3>1 DEF ChainsInv, Chains
    <3> QED BY <1>1, <1>3, <1>11, <3>1, <3>2 DEF AtEnd, Sized
  <2> QED BY <2>1, <2>2
<1>17. ASSUME NEW j \in UsedSlots', slots'[j].name \notin spoiled'
       PROVE  slots'[j].size <= Len(ChainFrom(disk', slots'[j].first)) * PerCluster
  <2>1. CASE j = k
    <3>1. slots'[j].size = 0 /\ Len(ChainFrom(disk', slots'[j].first)) = 1
      BY <1>1, <1>3, <1>4, <1>7, <2>1
    <3> QED BY <3>1, Constants
  <2>2. CASE j # k
    <3>1. j \in UsedSlots /\ slots'[j] = slots[j] /\ slots[j].name \notin spoiled
      BY <1>1, <1>7, <1>8, <1>12, <1>17, <2>2
    <3> QED BY <1>1, <1>3, <1>12, <3>1 DEF ChainsInv, Chains
  <2> QED BY <2>1, <2>2
<1>18. Chains'
  BY <1>14, <1>15, <1>16, <1>17 DEF Chains
<1>19. Rest
  <2>1. spoiled \subseteq Names /\ lost \subseteq Names /\ slots[k].name \in Names \cup {NoName}
    BY <1>6 DEF ChainsInv, Types, Entries
  <2>2. lost' \subseteq Names
    BY <1>1, <2>1
  <2>3. content' \in [Names -> Seq(Values)]
        /\ session' \in [Handles -> {"none", "reading", "writing", "full"}]
    <3>1. <<>> \in Seq(Values)
      OBVIOUS
    <3> QED BY <1>1, <3>1 DEF ChainsInv, Types
  <2> QED BY <1>1, <2>1, <2>2, <2>3, RestIs
<1>20. Types'
  BY <1>1, <1>2, <1>7, <1>9, <1>19 DEF Types, Rest
<1> QED BY <1>18, <1>20 DEF ChainsInv

(* An entry that is found is of a file.                                    *)
LEMMA FoundIs ==
    ASSUME ChainsInv, NEW n \in Names, Found(n)
    PROVE  LET k == SearchEnd(n)
           IN  /\ k \in UsedSlots /\ slots[k].name = n /\ InReach(k)
               /\ slots[k] \in FileEntries /\ slots[k].first \in Roots
               /\ HasChain(disk, slots[k].first)
<1> DEFINE k == SearchEnd(n)
<1>1. k \in Slots /\ slots[k].name = n /\ n # NoName /\ InReach(k)
  BY SearchIs, Constants DEF Found
<1> HIDE DEF k
<1>2. k \in UsedSlots
  BY <1>1 DEF UsedSlots
<1>3. slots[k].first \in Roots /\ HasChain(disk, slots[k].first)
  BY <1>2, DiskParts DEF Apart
<1>4. slots[k].first \in Clusters
  BY <1>3, ChainParts
<1>5. slots[k] \in FileEntries
  BY <1>1, <1>4, DiskParts DEF Entries, FileEntries
<1> QED BY <1>1, <1>2, <1>3, <1>5 DEF k

(* An opened file has the chain of its entry.                              *)
LEMMA KeepsOpen ==
    ASSUME ChainsInv, NEW h \in Handles, NEW n \in Names, NEW append \in BOOLEAN, Open(h, n, append)
    PROVE  ChainsInv'
<1> DEFINE k == SearchEnd(n)
           g == filenew(disk, slots[k], FALSE)
           x == [d |-> disk, h |-> g]
           y == IF append THEN fileseek(x, x.h.entry.size) ELSE x
<1>1. /\ ~handles[h].opened /\ Users(n) = {} /\ Found(n)
      /\ Becomes(h, y)
      /\ session' = [session EXCEPT ![h] = "reading"]
      /\ got' = NoRead /\ slots' = slots /\ enoent' = enoent /\ content' = content
      /\ spoiled' = spoiled /\ lost' = lost
  <2> HIDE DEF g
  <2> QED BY DEF Open, use, g
<1>2. /\ k \in UsedSlots /\ slots[k].name = n /\ slots[k] \in FileEntries
      /\ HasChain(disk, slots[k].first) /\ slots[k].size \in Nat
  <2>1. k \in UsedSlots /\ slots[k].name = n /\ slots[k] \in FileEntries /\ HasChain(disk, slots[k].first)
    BY <1>1, FoundIs
  <2> QED BY <2>1 DEF FileEntries
<1> HIDE DEF k
<1>3. /\ Handled(x) /\ x.d = disk /\ x.h = g /\ g.entry = slots[k] /\ g.position = 0
      /\ g.totalclusters = Len(ChainFrom(disk, slots[k].first))
  <2>1. disk \in Disks /\ FALSE \in BOOLEAN
    BY DiskParts
  <2>2. Opening(disk, slots[k], FALSE, g)
    BY <1>2, <2>1, FileNewIs
  <2> HIDE DEF g
  <2> QED BY <2>2 DEF Opening
<1> HIDE DEF g, x
<1>4. /\ Handled(y) /\ y.d = disk /\ y.h.entry = slots[k]
      /\ y.h.totalclusters = Len(ChainFrom(disk, slots[k].first))
      /\ y.h.position <= slots[k].size
  <2>1. CASE append
    <3> DEFINE z == fileseek(x, x.h.entry.size)
    <3>1. /\ Moved(x, z) /\ z.d = disk /\ SameFile(x.h, z.h) /\ z.h.position = slots[k].size
      BY <1>2, <1>3, SeekIs
    <3>2. y = z
      BY <2>1
    <3> HIDE DEF z, y
    <3> QED BY <1>2, <1>3, <3>1, <3>2 DEF Moved, SameFile
  <2>2. CASE ~append
    BY <1>2, <1>3, <2>2
  <2> QED BY <2>1, <2>2
<1> HIDE DEF y
<1>5. Rest
  <2>1. spoiled \subseteq Names
    BY DEF ChainsInv, Types
  <2>2. session' \in [Handles -> {"none", "reading", "writing", "full"}]
    BY <1>1 DEF ChainsInv, Types
  <2> QED BY <1>1, <2>1, <2>2, RestIs
<1>6. ASSUME slots[k].name \notin spoiled' PROVE Sized(disk, y.h)
  <2>1. slots[k].size <= Len(ChainFrom(disk, slots[k].first)) * PerCluster
    BY <1>1, <1>2, <1>6 DEF ChainsInv, Chains
  <2> QED BY <1>4, <2>1 DEF Sized, Capacity
<1> QED BY <1>1, <1>2, <1>4, <1>5, <1>6, AddHandle

LEMMA KeepsDrop ==
    ASSUME ChainsInv, NEW h \in Handles, Drop(h)
    PROVE  ChainsInv'
<1>1. h \in OpenHandles
  BY DEF Drop, OpenHandles
<1>2. /\ handles' = [handles EXCEPT ![h] = Closed] /\ session' = [session EXCEPT ![h] = "none"]
      /\ disk' = disk /\ slots' = slots /\ enoent' = enoent /\ content' = content /\ lost' = lost
      /\ got' = NoRead /\ Judge(session[h] = "reading", h)
  BY DEF Drop, Abandons
<1>3. spoiled \subseteq spoiled' /\ spoiled' \subseteq Names
  BY <1>1, <1>2, JudgeIs
<1>4. Rest
  <2>1. session' \in [Handles -> {"none", "reading", "writing", "full"}]
    BY <1>2 DEF ChainsInv, Types
  <2> QED BY <1>2, <1>3, <2>1, RestIs
<1>5. \A k \in UsedSlots : slots[k].name \notin spoiled' =>
          slots'[k].size <= Len(ChainFrom(disk, slots[k].first)) * PerCluster
  BY <1>2, <1>3 DEF ChainsInv, Chains
<1> QED BY <1>2, <1>4, <1>5, DiskParts, RemoveHandle

(* What fileclose leaves of the directory.                                 *)
LEMMA UpdatedIs ==
    ASSUME ChainsInv, NEW h \in OpenHandles
    PROVE  LET entry == handles[h].entry
               k == SearchEnd(entry.name)
               t == dirupdateentry(entry)
           IN  /\ t \in [Slots -> Entries]
               /\ \A j \in Slots : t[j] = IF Found(entry.name) /\ j = k THEN entry ELSE slots[j]
               /\ Found(entry.name) => /\ k \in UsedSlots /\ slots[k].name = entry.name
                                       /\ slots[k].first = entry.first
<1> DEFINE entry == handles[h].entry
           k == SearchEnd(entry.name)
           t == dirupdateentry(entry)
<1>1. entry \in FileEntries /\ entry.name \in Names
  BY OpenIs, HandleParts DEF FileEntries
<1>2. entry \in Entries
  BY <1>1 DEF FileEntries, Entries
<1>3. slots \in [Slots -> Entries]
  BY DiskParts
<1>4. CASE Found(entry.name)
  <2>1. k \in UsedSlots /\ slots[k].name = entry.name
    BY <1>1, <1>4, FoundIs
  <2>2. slots[k].first = entry.first
    BY <2>1 DEF ChainsInv, Chains, OneEach
  <2>3. t = [slots EXCEPT ![k] = entry]
    BY <1>4 DEF dirupdateentry
  <2> HIDE DEF t, k, entry
  <2>4. k \in Slots
    BY <2>1 DEF UsedSlots
  <2>5. t \in [Slots -> Entries] /\ \A j \in Slots : t[j] = IF j = k THEN entry ELSE slots[j]
    BY <1>2, <1>3, <2>3, <2>4
  <2> QED BY <1>4, <2>1, <2>2, <2>5 DEF t, k, entry
<1>5. CASE ~Found(entry.name)
  BY <1>3, <1>5 DEF dirupdateentry
<1> QED BY <1>4, <1>5

(* The entry that fileclose writes is of the same file.                    *)
LEMMA KeepsClose ==
    ASSUME ChainsInv, NEW h \in Handles, Close(h)
    PROVE  ChainsInv'
<1> DEFINE entry == handles[h].entry
           x == fileflush(X(h))
           k == SearchEnd(entry.name)
<1>1. h \in OpenHandles
  BY DEF Close, OpenHandles
<1>2. Handled(X(h)) /\ X(h).d = disk /\ X(h).h = handles[h] /\ entry.name \in Names
  BY <1>1, OpenIs
<1>3. x.d \in Disks /\ x.d.fat = disk.fat
  <2> DEFINE y == x
  <2>1. Moved(X(h), y) /\ y.d.fat = disk.fat
    BY <1>2, FlushIs
  <2> HIDE DEF y
  <2>2. y.d \in Disks
    BY <2>1, HandleParts DEF Moved
  <2> QED BY <2>1, <2>2 DEF y
<1> HIDE DEF x
<1>4. /\ slots' = IF handles[h].dirty THEN dirupdateentry(entry) ELSE slots
      /\ enoent' = IF handles[h].dirty /\ ~Found(entry.name) THEN ErrnoAfter(entry.name) ELSE enoent
      /\ disk' = x.d
      /\ handles' = [handles EXCEPT ![h] = Closed]
      /\ session' = [session EXCEPT ![h] = "none"]
      /\ got' = NoRead /\ content' = content /\ spoiled' = spoiled /\ lost' = lost
  BY DEF Close, use, x
<1>5. /\ slots' \in [Slots -> Entries]
      /\ \A j \in Slots : \/ slots'[j] = slots[j]
                          \/ /\ j = k /\ slots'[j] = entry /\ k \in UsedSlots
                             /\ slots[k].name = entry.name /\ slots[k].first = entry.first
  <2> HIDE DEF entry, k
  <2> QED BY <1>1, <1>4, UpdatedIs, DiskParts DEF entry, k
<1> HIDE DEF k
<1>6. \A j \in Slots : /\ slots'[j].name = slots[j].name
                       /\ j \in UsedSlots => slots'[j].first = slots[j].first
  <2> HIDE DEF entry
  <2> QED BY <1>5
<1>7. ASSUME NEW j \in UsedSlots, slots[j].name \notin spoiled'
      PROVE  slots'[j].size <= Len(ChainFrom(disk, slots[j].first)) * PerCluster
  <2>1. j \in Slots /\ slots[j].name \notin spoiled
    BY <1>4, <1>7 DEF UsedSlots
  <2>2. CASE slots'[j] = slots[j]
    BY <2>1, <2>2 DEF ChainsInv, Chains
  <2>3. CASE slots'[j] # slots[j]
    <3>1. slots'[j] = entry /\ slots[j].name = entry.name /\ slots[j].first = entry.first
      <4> HIDE DEF entry
      <4> QED BY <1>5, <2>1, <2>3
    <3>2. Sized(disk, handles[h])
      BY <1>1, <2>1, <3>1, SizedIs
    <3> QED BY <3>1, <3>2 DEF Sized, Capacity
  <2> QED BY <2>2, <2>3
<1>8. Rest
  <2>1. spoiled \subseteq Names /\ session' \in [Handles -> {"none", "reading", "writing", "full"}]
    BY <1>4 DEF ChainsInv, Types
  <2>2. enoent' \in BOOLEAN
    BY <1>4 DEF ChainsInv, Types, ErrnoAfter, InReach
  <2> QED BY <1>4, <2>1, <2>2, RestIs
<1> QED BY <1>3, <1>4, <1>5, <1>6, <1>7, <1>8, RemoveHandle

(* At the start there is no file.                                          *)
LEMMA StartsApart == Init => ChainsInv
<1> SUFFICES ASSUME Init PROVE ChainsInv
  OBVIOUS
<1>1. handles = [h \in Handles |-> Closed] /\ slots = [k \in Slots |-> NoEntry]
  BY DEF Init
<1>2. OpenHandles = {} /\ UsedSlots = {}
  BY <1>1 DEF OpenHandles, UsedSlots, Closed, NoEntry
<1>3. Roots = {}
  BY <1>2 DEF Roots
<1>4. Chains
  <2>1. OneEach
    BY <1>2 DEF OneEach
  <2>2. Apart(disk, Roots)
    BY <1>3 DEF Apart
  <2> QED BY <1>2, <2>1, <2>2 DEF Chains
<1>5. disk \in Disks
  <2> DEFINE f == [c \in Clusters |-> FREE]
             b == [c \in Clusters |-> [s \in Sectors |-> [u \in Units |-> STALE]]]
  <2>1. f \in Tables /\ b \in Datas
    BY DEF Tables, ClusterNumbers, Datas, Buffers, UnitValues
  <2>2. disk = [fat |-> f, data |-> b, stray |-> FALSE]
    BY DEF Init
  <2> HIDE DEF f, b
  <2> QED BY <2>1, <2>2 DEF Disks
<1>6. slots \in [Slots -> Entries]
  BY <1>1 DEF NoEntry, Entries
<1>7. <<>> \in Seq(Values)
  OBVIOUS
<1>8. Types
  BY <1>1, <1>5, <1>6, <1>7 DEF Init, Types, NoRead
<1> QED BY <1>4, <1>8 DEF ChainsInv

(* Every step keeps the chains.                                            *)
LEMMA KeepsChains == ChainsInv /\ [Next]_vars => ChainsInv'
<1> SUFFICES ASSUME ChainsInv, [Next]_vars PROVE ChainsInv'
  OBVIOUS
<1>1. ASSUME NEW n \in Names, OpenFails(n) \/ CreateFails(n) PROVE ChainsInv'
  BY <1>1, KeepsOpenFails, KeepsCreateFails
<1>2. ASSUME NEW h \in Handles, NEW n \in Names,
             Create(h, n) \/ \E append \in BOOLEAN : Open(h, n, append)
      PROVE  ChainsInv'
  BY <1>2, KeepsCreate, KeepsOpen
<1>3. ASSUME NEW h \in Handles, NEW n \in 1 .. MaxCount,
             Read(h, n) \/ \E v \in Values : Write(h, v, n)
      PROVE  ChainsInv'
  <2>1. n \in Nat
    BY Constants
  <2> QED BY <1>3, <2>1, KeepsRead, KeepsWrite
<1>4. ASSUME NEW h \in Handles, NEW p \in 0 .. MaxSize, Seek(h, p) \/ Resize(h, p) PROVE ChainsInv'
  <2>1. p \in Nat
    BY Constants
  <2> QED BY <1>4, <2>1, KeepsSeek, KeepsResize
<1>5. ASSUME NEW h \in Handles, SeekFails(h) \/ Rewind(h) \/ Flush(h) \/ Close(h) \/ Drop(h)
      PROVE  ChainsInv'
  BY <1>5, KeepsSeekFails, KeepsRewind, KeepsFlush, KeepsClose, KeepsDrop
<1>6. CASE UNCHANGED vars
  <2>1. Rest
    <3>1. spoiled \subseteq Names /\ got.name \in Names \cup {NoName}
      BY DEF ChainsInv, Types
    <3> QED BY <1>6, <3>1 DEF vars, ghosts, use, Rest, ChainsInv, Types
  <2> QED BY <1>6, <2>1, ErrnoStep DEF vars
<1> QED BY <1>1, <1>2, <1>3, <1>4, <1>5, <1>6 DEF Next

(* Whatever the programs call, the files' chains end and are apart, each   *)
(* file has at most one entry and one handle, a handle knows its file's    *)
(* last cluster, and the lengths of a file used as the code supports fit   *)
(* its clusters.                                                           *)
THEOREM FilesInvariant == Spec => []ChainsInv
<1> QED BY StartsApart, KeepsChains, PTL DEF Spec

(* The property is part of the invariant.                                  *)
LEMMA ApartImplies == ChainsInv => ChainsApart
<1> SUFFICES ASSUME ChainsInv PROVE ChainsApart
  OBVIOUS
<1>1. Clusters \cup {FREE, END} = ClusterNumbers
  BY DEF ClusterNumbers
<1>2. TypeOK
  <2>1. ASSUME NEW h \in Handles, handles[h].opened
        PROVE  /\ handles[h].entry \in Entries
               /\ handles[h].buffer \in Buffers
               /\ handles[h].sectorincluster \in Sectors
               /\ handles[h].currentcluster \in Clusters \cup {FREE, END}
               /\ handles[h].lastcluster \in Clusters
               /\ handles[h].position > handles[h].entry.size => handles[h].entry.name \in spoiled
    <3>1. h \in OpenHandles
      BY <2>1 DEF OpenHandles
    <3>2. /\ handles[h].entry \in [name : Names, size : Nat, first : Clusters]
          /\ handles[h].buffer \in Buffers /\ handles[h].sectorincluster \in Sectors
          /\ handles[h].currentcluster \in ClusterNumbers /\ handles[h].lastcluster \in Clusters
          /\ handles[h].position \in Nat /\ handles[h].entry.size \in Nat
      BY <3>1, OpenIs, HandleParts
    <3>3. handles[h].position > handles[h].entry.size => handles[h].entry.name \in spoiled
      BY <3>1, <3>2, SizedIs DEF Sized
    <3>4. handles[h].entry \in Entries
      BY <3>2 DEF Entries
    <3> QED BY <1>1, <3>2, <3>3, <3>4
  <2>2. /\ disk.fat \in [Clusters -> Clusters \cup {FREE, END}]
        /\ disk.data \in [Clusters -> [Sectors -> Buffers]]
        /\ disk.stray \in BOOLEAN
    BY <1>1, DiskParts DEF Tables, Datas
  <2>3. /\ slots \in [Slots -> Entries] /\ enoent \in BOOLEAN
        /\ \A n \in Names : content[n] \in Seq(Values)
        /\ session \in [Handles -> {"none", "reading", "writing", "full"}]
        /\ spoiled \subseteq Names /\ lost \subseteq Names
    BY DEF ChainsInv, Types
  <2> QED BY <2>1, <2>2, <2>3 DEF TypeOK
<1>3. ASSUME NEW k \in UsedSlots
      PROVE  Occupied(slots[k].first) = Place(disk, slots[k].first)
             /\ Place(disk, slots[k].first) \subseteq Clusters
  <2> DEFINE p == ChainFrom(disk, slots[k].first)
  <2>1. HasChain(disk, slots[k].first)
    BY DiskParts DEF Apart
  <2>2. p \in Seq(Clusters) /\ Place(disk, slots[k].first) = On(p)
        /\ Place(disk, slots[k].first) \subseteq Clusters
    BY <2>1, ChainParts
  <2>3. DOMAIN p = 1 .. Len(p)
    BY <2>2
  <2> QED BY <2>2, <2>3 DEF Occupied, On
<1>4. \A j, k \in UsedSlots : j # k => Occupied(slots[j].first) \cap Occupied(slots[k].first) = {}
  <2>1. \A j, k \in UsedSlots : j # k => Place(disk, slots[j].first) \cap Place(disk, slots[k].first) = {}
    BY DiskParts DEF ChainsInv, Chains, OneEach, Apart
  <2> QED BY <1>3, <2>1
<1>5. \A h \in Handles : handles[h].opened =>
          LET chain == ChainFrom(disk, handles[h].entry.first)
          IN handles[h].lastcluster = chain[Len(chain)]
  BY DEF ChainsInv, Chains, AtEnd, OpenHandles
<1> QED BY <1>2, <1>3, <1>4, <1>5 DEF ChainsApart

(* No file's data can get into another file: the chains of the directory's *)
(* entries end, hold no free cluster and share none, and a handle grows    *)
(* its file at the end of the file's own chain.                            *)
THEOREM FilesChainsApart == Spec => []ChainsApart
<1> QED BY FilesInvariant, ApartImplies, PTL

-----------------------------------------------------------------------------
(* The sectors of a file and the units in them.                            *)

LEMMA SectorsOf ==
    ASSUME NEW q \in Nat, NEW L \in Nat
    PROVE  /\ q \div SPC \in Nat /\ q % SPC \in Sectors /\ L * SPC \in Nat
           /\ q = SPC * (q \div SPC) + (q % SPC)
           /\ q < L * SPC <=> q \div SPC < L
           /\ q <= L * SPC => q \div SPC <= L
           /\ q = L * SPC => q \div SPC = L /\ q % SPC = 0
<1>1. SPC \in Nat /\ SPC > 0
  BY Constants
<1>2. q = SPC * (q \div SPC) + (q % SPC) /\ q % SPC \in 0 .. SPC - 1 /\ q \div SPC \in Nat
  BY <1>1, Divided
<1>3. q % SPC \in Sectors
  BY <1>2 DEF Sectors
<1>4. (q < L * SPC <=> q \div SPC < L) /\ (q <= L * SPC => q \div SPC <= L)
  BY <1>1, FloorIs
<1>5. ASSUME q = L * SPC PROVE q \div SPC = L /\ q % SPC = 0
  <2>1. q = SPC * L + 0 /\ 0 \in 0 .. SPC - 1 /\ L \in Int /\ q \in Int
    BY <1>1, <1>5
  <2> QED BY <1>1, <2>1, Division
<1>6. L * SPC \in Nat
  BY <1>1
<1> QED BY <1>2, <1>3, <1>4, <1>5, <1>6

(* Where the i-th unit of a file is.                                       *)
LEMMA UnitsOf ==
    ASSUME NEW i \in Nat
    PROVE  /\ i \div S \in Nat /\ i % S \in Units /\ i % S \in Nat
           /\ i = S * (i \div S) + (i % S) /\ i % S < S
           /\ i \div PerCluster = (i \div S) \div SPC
<1>1. /\ S \in Nat /\ S > 0 /\ SPC \in Nat /\ SPC > 0
      /\ PerCluster \in Nat /\ PerCluster > 0 /\ PerCluster = SPC * S
  BY Constants
<1> DEFINE a == i \div S
           r == i % S
           b == a \div SPC
           t == a % SPC
           st == S * t
<1>2. i = S * a + r /\ r \in 0 .. S - 1 /\ a \in Nat
  BY <1>1, Divided
<1> HIDE DEF a, r
<1>3. a = SPC * b + t /\ t \in 0 .. SPC - 1 /\ b \in Nat
  BY <1>1, <1>2, Divided
<1> HIDE DEF b, t
<1>4. i = PerCluster * b + (st + r)
  <2>1. S * (SPC * b + t) = (SPC * S) * b + S * t
    BY <1>1, <1>3
  <2>2. S * a = S * (SPC * b + t)
    BY <1>3
  <2> DEFINE sa == S * a
             pb == PerCluster * b
  <2>3. sa = pb + st
    BY <1>1, <2>1, <2>2
  <2>4. sa \in Nat /\ pb \in Nat /\ st \in Nat /\ i = sa + r
    BY <1>1, <1>2, <1>3
  <2> HIDE DEF sa, pb, st
  <2>5. i = pb + (st + r)
    BY <1>2, <2>3, <2>4
  <2> QED BY <2>5 DEF pb
<1>5. st + r \in 0 .. PerCluster - 1
  <2>1. st \in Nat
    BY <1>1, <1>3
  <2>2. st <= S * (SPC - 1)
    BY <1>1, <1>3
  <2>3. S * (SPC - 1) = PerCluster - S
    BY <1>1
  <2> HIDE DEF st
  <2> QED BY <1>1, <1>2, <2>1, <2>2, <2>3
<1>6. i \div PerCluster = b
  <2> DEFINE m == st + r
  <2>1. m \in 0 .. PerCluster - 1 /\ i = PerCluster * b + m
    BY <1>4, <1>5
  <2> HIDE DEF m
  <2> QED BY <1>1, <1>3, <2>1, Division
<1>7. r \in Units /\ r < S /\ r \in Nat
  BY <1>1, <1>2 DEF Units
<1> QED BY <1>2, <1>6, <1>7 DEF a, r, b

(* A unit is in the clusters if its sector is.                             *)
LEMMA UnitsWithin ==
    ASSUME NEW i \in Nat, NEW L \in Nat
    PROVE  /\ L * PerCluster \in Nat /\ L * SPC \in Nat /\ L * PerCluster = S * (L * SPC)
           /\ i < L * PerCluster <=> i \div S < L * SPC
           /\ i <= L * PerCluster => i \div S <= L * SPC
           /\ i <= L * PerCluster /\ i \div S = L * SPC => i = L * PerCluster
<1>1. S \in Nat /\ S > 0 /\ SPC \in Nat /\ PerCluster \in Nat /\ PerCluster = SPC * S
  BY Constants
<1> DEFINE m == L * SPC
<1>2. m \in Nat /\ L * PerCluster = m * S /\ m * S = S * m /\ L * PerCluster \in Nat
  BY <1>1
<1> HIDE DEF m
<1>3. (i < m * S <=> i \div S < m) /\ (i <= m * S => i \div S <= m)
  BY <1>1, <1>2, FloorIs
<1>4. i < m * S \/ i >= m * S
  BY <1>2
<1> DEFINE e == L * PerCluster
<1>5. e \in Nat /\ e = m * S
  BY <1>2
<1>6. (i < e <=> i \div S < m) /\ (i <= e => i \div S <= m)
  BY <1>3, <1>5
<1>7. i \div S \in Nat
  BY UnitsOf
<1>8. e = S * m
  BY <1>2
<1> HIDE DEF e
<1> QED BY <1>2, <1>5, <1>6, <1>7, <1>8 DEF m, e

(* The end of full clusters is the end of a sector.                        *)
LEMMA WholeClusters ==
    ASSUME NEW L \in Nat
    PROVE  (L * PerCluster) % PerCluster = 0 /\ (L * PerCluster) \div S = L * SPC
<1>1. PerCluster \in Nat /\ PerCluster > 0 /\ S \in Nat /\ S > 0
  BY Constants
<1>2. L * PerCluster \in Nat /\ L * SPC \in Nat /\ L * PerCluster = S * (L * SPC)
  <2>1. 0 \in Nat
    OBVIOUS
  <2> QED BY <2>1, UnitsWithin
<1> DEFINE e == L * PerCluster
           m == L * SPC
<1>3. e = PerCluster * L + 0 /\ 0 \in 0 .. PerCluster - 1
  BY <1>1
<1>4. e = S * m + 0 /\ 0 \in 0 .. S - 1
  BY <1>1, <1>2
<1>5. e \in Nat /\ m \in Nat
  BY <1>2
<1> HIDE DEF e, m
<1>6. e % PerCluster = 0
  BY <1>1, <1>3, <1>5, Division
<1>7. e \div S = m
  BY <1>1, <1>4, <1>5, Division
<1> QED BY <1>6, <1>7 DEF e, m

(* Where the q-th sector of a chain is.                                    *)
LEMMA SectorPlace ==
    ASSUME NEW t, NEW p, Path(t, p), NEW q \in 0 .. Len(p) * SPC - 1
    PROVE  /\ (q \div SPC) + 1 \in 1 .. Len(p) /\ p[(q \div SPC) + 1] \in Clusters
           /\ p[(q \div SPC) + 1] \in On(p)
           /\ q % SPC \in Sectors /\ q \in Nat /\ q < Len(p) * SPC
<1>1. Len(p) \in Nat /\ \A k \in 1 .. Len(p) : p[k] \in Clusters /\ p[k] \in On(p)
  BY PathParts
<1> DEFINE L == Len(p)
<1>2. L \in Nat
  BY <1>1
<1> HIDE DEF L
<1>3. L * SPC \in Nat
  BY <1>2, Constants
<1>4. q \in Nat /\ q < L * SPC
  BY <1>3 DEF L
<1>5. q \div SPC \in Nat /\ q \div SPC < L /\ q % SPC \in Sectors
  BY <1>2, <1>4, SectorsOf
<1>6. (q \div SPC) + 1 \in 1 .. L
  BY <1>2, <1>5
<1> QED BY <1>1, <1>4, <1>5, <1>6 DEF L

(* No two sectors of a file are in one place.                              *)
LEMMA SectorApart ==
    ASSUME NEW t, NEW p, Path(t, p), NEW q \in 0 .. Len(p) * SPC - 1, NEW r \in 0 .. Len(p) * SPC - 1,
           q # r
    PROVE  p[(q \div SPC) + 1] # p[(r \div SPC) + 1] \/ q % SPC # r % SPC
<1> SUFFICES ASSUME p[(q \div SPC) + 1] = p[(r \div SPC) + 1], q % SPC = r % SPC PROVE FALSE
  OBVIOUS
<1>1. (q \div SPC) + 1 \in 1 .. Len(p) /\ (r \div SPC) + 1 \in 1 .. Len(p) /\ q \in Nat /\ r \in Nat
  BY SectorPlace
<1>2. (q \div SPC) + 1 = (r \div SPC) + 1
  BY <1>1 DEF Path
<1>3. /\ q \div SPC \in Nat /\ q = SPC * (q \div SPC) + (q % SPC)
      /\ r \div SPC \in Nat /\ r = SPC * (r \div SPC) + (r % SPC)
  <2>1. 0 \in Nat
    OBVIOUS
  <2> QED BY <1>1, <2>1, SectorsOf
<1>4. q \div SPC = r \div SPC
  BY <1>2, <1>3
<1> QED BY <1>3, <1>4

(* What a write to a sector of the chain changes.                          *)
LEMMA SectorWritten ==
    ASSUME NEW d \in Disks, NEW p, Path(d.fat, p), NEW q \in 0 .. Len(p) * SPC - 1, NEW b \in Buffers
    PROVE  LET e == fatwritesector(d, p[(q \div SPC) + 1], q % SPC, b)
           IN  /\ e \in Disks /\ e.fat = d.fat /\ e.stray = d.stray
               /\ Sector(e, p, q) = b
               /\ \A r \in 0 .. Len(p) * SPC - 1 : r # q => Sector(e, p, r) = Sector(d, p, r)
<1> DEFINE c == p[(q \div SPC) + 1]
           s == q % SPC
           e == fatwritesector(d, c, s, b)
<1>1. c \in Clusters /\ s \in Sectors
  BY SectorPlace
<1>2. /\ e \in Disks /\ e.fat = d.fat /\ e.stray = d.stray /\ e.data[c][s] = b
      /\ \A t \in Sectors : t # s => e.data[c][t] = d.data[c][t]
      /\ \A a \in Clusters : a # c => e.data[a] = d.data[a]
  <2> HIDE DEF c, s
  <2> QED BY <1>1, WriteHere
<1> HIDE DEF e
<1>3. ASSUME NEW r \in 0 .. Len(p) * SPC - 1, r # q PROVE Sector(e, p, r) = Sector(d, p, r)
  <2> DEFINE f == p[(r \div SPC) + 1]
             t == r % SPC
  <2>1. f \in Clusters /\ t \in Sectors
    BY SectorPlace
  <2>2. f # c \/ t # s
    BY <1>3, SectorApart
  <2> HIDE DEF c, s, f, t
  <2>3. e.data[f][t] = d.data[f][t]
    BY <1>2, <2>1, <2>2
  <2> QED BY <2>3 DEF Sector, f, t
<1>4. Sector(e, p, q) = b
  BY <1>2 DEF Sector
<1> QED BY <1>2, <1>3, <1>4 DEF e

(* A handle on a sector of the chain moves on to the next one, or to END.  *)
LEMMA CursorNext ==
    ASSUME NEW d, d.fat \in Tables, NEW p, Path(d.fat, p), NEW h \in Opened,
           NEW q \in 0 .. Len(p) * SPC - 1, Cursor(p, h, q)
    PROVE  LET g == NextSector(d, h)
           IN  /\ Cursor(p, g, q + 1)
               /\ g.sectorincluster = 0 /\ g.currentcluster = END <=> q + 1 = Len(p) * SPC
<1> DEFINE g == NextSector(d, h)
           L == Len(p)
           a == q \div SPC
           s == q % SPC
<1>1. /\ L \in Nat /\ \A k \in 1 .. L : p[k] \in Clusters
      /\ \A k \in 1 .. L - 1 : d.fat[p[k]] = p[k + 1]
      /\ d.fat[p[L]] = END
  BY PathParts DEF Path
<1>2. a + 1 \in 1 .. L /\ s \in Sectors /\ q \in Nat /\ q < L * SPC /\ p[a + 1] \in Clusters
  BY SectorPlace
<1>3. a \in Nat /\ q = SPC * a + s /\ SPC \in Nat /\ SPC > 0 /\ s \in 0 .. SPC - 1 /\ L * SPC \in Nat
  BY <1>1, <1>2, SectorsOf, Constants DEF Sectors
<1>4. h.currentcluster = p[a + 1] /\ h.sectorincluster = s
  BY <1>2 DEF Cursor
<1> DEFINE m == L * SPC
<1>5. m \in Nat /\ q < m /\ q + 1 \in 0 .. m /\ q + 1 \in Nat
  BY <1>2, <1>3
<1>6. CASE s + 1 < SPC
  <2>1. g.sectorincluster = s + 1 /\ g.currentcluster = p[a + 1]
    BY <1>4, <1>6 DEF NextSector, Opened
  <2>2. (q + 1) \div SPC = a /\ (q + 1) % SPC = s + 1
    <3> HIDE DEF a, s
    <3>1. q + 1 = SPC * a + (s + 1) /\ s + 1 \in 0 .. SPC - 1 /\ q + 1 \in Int
      BY <1>3, <1>6
    <3> DEFINE u == s + 1
               x == q + 1
    <3>2. x = SPC * a + u /\ u \in 0 .. SPC - 1 /\ x \in Int
      BY <3>1
    <3> HIDE DEF u, x
    <3>3. x \div SPC = a /\ x % SPC = u
      BY <1>3, <3>2, Division
    <3> QED BY <3>3 DEF u, x
  <2>3. q + 1 < m
    <3>1. a < L
      BY <1>1, <1>2, <1>3
    <3> HIDE DEF a, L
    <3>2. (q + 1) \div SPC < L
      BY <2>2, <3>1
    <3> QED BY <1>1, <1>5, <3>2, SectorsOf DEF L
  <2>4. p[a + 1] # END
    BY <1>2, Marks
  <2> HIDE DEF g, a, s, m
  <2> QED BY <1>3, <1>5, <2>1, <2>2, <2>3, <2>4 DEF Cursor, m, g
<1>7. CASE s + 1 >= SPC
  <2>1. s = SPC - 1
    BY <1>3, <1>7
  <2>2. g.sectorincluster = 0 /\ g.currentcluster = fatclustervalue(d, p[a + 1])
    <3>1. ~ (h.sectorincluster + 1 < SPC) /\ h.currentcluster = p[a + 1]
      BY <1>3, <1>4, <1>7
    <3> HIDE DEF a, s
    <3> QED BY <3>1 DEF NextSector, Opened
  <2>3. fatclustervalue(d, p[a + 1]) = d.fat[p[a + 1]]
    BY <1>2, NextIs
  <2>4. (q + 1) \div SPC = a + 1 /\ (q + 1) % SPC = 0
    <3> HIDE DEF a, s
    <3>1. SPC * (a + 1) = SPC * a + SPC
      BY <1>3
    <3> DEFINE u == a + 1
               x == q + 1
    <3>2. x = SPC * u + 0 /\ 0 \in 0 .. SPC - 1 /\ x \in Int /\ u \in Int
      BY <1>3, <2>1, <3>1
    <3> HIDE DEF u, x
    <3>3. x \div SPC = u /\ x % SPC = 0
      BY <1>3, <3>2, Division
    <3> QED BY <3>3 DEF u, x
  <2>5. q + 1 < m <=> a + 1 < L
    <3> DEFINE x == q + 1
    <3>1. x \div SPC = a + 1 /\ x \in Nat
      BY <1>5, <2>4
    <3> HIDE DEF a, x
    <3>2. x < m <=> x \div SPC < L
      <4> HIDE DEF L
      <4> QED BY <1>1, <3>1, SectorsOf
    <3> QED BY <3>1, <3>2 DEF x
  <2>6. CASE a + 1 < L
    <3>1. g.currentcluster = p[a + 2] /\ p[a + 2] # END
      <4>1. a + 1 \in 1 .. L - 1 /\ a + 2 \in 1 .. L /\ (a + 1) + 1 = a + 2
        <5>1. a \in Nat /\ L \in Nat
          BY <1>1, <1>3
        <5> HIDE DEF a, L
        <5> QED BY <2>6, <5>1
      <4>2. d.fat[p[a + 1]] = p[(a + 1) + 1] /\ p[a + 2] \in Clusters
        <5> HIDE DEF a
        <5> QED BY <1>1, <4>1
      <4> HIDE DEF a, g
      <4> QED BY <2>2, <2>3, <4>1, <4>2, Marks
    <3>2. q + 1 < m
      BY <2>5, <2>6
    <3>3. (a + 1) + 1 = a + 2
      BY <1>3
    <3> HIDE DEF g, a, s, m
    <3> QED BY <1>3, <1>5, <2>2, <2>4, <3>1, <3>2, <3>3 DEF Cursor, m, g
  <2>7. CASE a + 1 = L
    <3>1. g.currentcluster = END
      BY <1>1, <2>2, <2>3, <2>7
    <3>2. ~ (q + 1 < m)
      BY <1>1, <1>3, <2>5, <2>7
    <3>3. q + 1 = m
      BY <1>5, <3>2
    <3> HIDE DEF g, a, s, m
    <3> QED BY <1>3, <1>5, <2>2, <2>4, <3>1, <3>2, <3>3 DEF Cursor, m, g
  <2> QED BY <1>2, <1>3, <2>6, <2>7
<1> QED BY <1>3, <1>6, <1>7

-----------------------------------------------------------------------------
(* Files whose contents are c.                                             *)

(* The sectors of the clusters p hold c.                                   *)
Held(d, p, c) == \A i \in 0 .. Len(c) - 1 : c[i + 1] = Sector(d, p, i \div S)[i % S]

(* The handle h of a file whose clusters have room for c.                  *)
Fits(d, h, c) ==
    /\ d \in Disks /\ h \in Opened /\ HasChain(d, h.entry.first)
    /\ c \in Seq(Values) /\ Len(c) <= Len(ChainFrom(d, h.entry.first)) * PerCluster

(* Every unit of c has its place.                                          *)
LEMMA FitsIs ==
    ASSUME NEW d, NEW h, NEW c, Fits(d, h, c)
    PROVE  LET p == ChainFrom(d, h.entry.first)
           IN  /\ d \in Disks /\ d.fat \in Tables /\ h \in Opened
               /\ h.position \in Nat /\ h.entry.size \in Nat
               /\ c \in Seq(Values) /\ Len(c) \in Nat
               /\ Path(d.fat, p) /\ p[1] = h.entry.first /\ Len(p) \in Nat
               /\ Len(p) * SPC \in Nat /\ Len(p) * SPC > 0 /\ Len(c) <= Len(p) * PerCluster
               /\ \A i \in 0 .. Len(c) - 1 : /\ i \div S \in 0 .. Len(p) * SPC - 1
                                             /\ i \in Nat /\ i % S \in Units
<1> DEFINE p == ChainFrom(d, h.entry.first)
           L == Len(p)
<1>1. /\ d \in Disks /\ h \in Opened /\ HasChain(d, h.entry.first) /\ c \in Seq(Values)
      /\ Len(c) <= L * PerCluster /\ Len(c) \in Nat
  BY DEF Fits
<1>2. /\ d.fat \in Tables /\ Path(d.fat, p) /\ p[1] = h.entry.first /\ L \in Nat /\ L > 0
      /\ h.position \in Nat /\ h.entry.size \in Nat
  BY <1>1, ChainParts DEF Disks, Opened
<1> HIDE DEF p, L
<1>3. L * SPC \in Nat /\ L * SPC > 0
  BY <1>2, Constants
<1>4. ASSUME NEW i \in 0 .. Len(c) - 1 PROVE i \div S \in 0 .. L * SPC - 1 /\ i \in Nat /\ i % S \in Units
  <2> DEFINE m == L * PerCluster
             q == i \div S
             k == L * SPC
  <2>1. i \in Nat /\ m \in Nat /\ Len(c) <= m
    BY <1>1, <1>2, UnitsWithin
  <2>2. i < m
    <3> HIDE DEF m
    <3> QED BY <1>1, <2>1
  <2>3. q < k /\ q \in Nat /\ i % S \in Units
    BY <1>2, <2>1, <2>2, UnitsWithin, UnitsOf
  <2>4. k \in Nat
    BY <1>3
  <2> HIDE DEF q, k
  <2>5. q \in 0 .. k - 1
    BY <2>3, <2>4
  <2> QED BY <2>1, <2>3, <2>5 DEF q, k
<1> QED BY <1>1, <1>2, <1>3, <1>4 DEF p, L

(* A handle that has only read holds the sector that it is on.             *)
LEMMA ReadingIs ==
    ASSUME NEW d, NEW h, NEW c, Fits(d, h, c)
    PROVE  LET p == ChainFrom(d, h.entry.first)
               q == h.position \div S
           IN  Honest(d, h, c, "reading") <=>
                /\ h.entry.size = Len(c) /\ ~h.dirty /\ Cursor(p, h, q) /\ Held(d, p, c)
                /\ q < Len(p) * SPC => h.buffer = Sector(d, p, q)
<1> DEFINE p == ChainFrom(d, h.entry.first)
           q == h.position \div S
<1>1. /\ Len(p) * SPC \in Nat
      /\ \A i \in 0 .. Len(c) - 1 : i \div S \in 0 .. Len(p) * SPC - 1
  BY FitsIs
<1>2. At(h, "reading") = q
  BY DEF At
<1> HIDE DEF p, q
<1>3. ASSUME Cursor(p, h, q), q < Len(p) * SPC
      PROVE  d.data[h.currentcluster][h.sectorincluster] = Sector(d, p, q)
  BY <1>3 DEF Cursor, Sector
<1>4. ASSUME q < Len(p) * SPC => h.buffer = Sector(d, p, q)
      PROVE  View(d, p, h, q, c) <=> Held(d, p, c)
  <2>1. ASSUME NEW i \in 0 .. Len(c) - 1
        PROVE  (IF i \div S = q THEN h.buffer[i % S] ELSE Sector(d, p, i \div S)[i % S])
               = Sector(d, p, i \div S)[i % S]
    <3>1. i \div S = q => q < Len(p) * SPC
      BY <1>1
    <3> QED BY <1>4, <3>1
  <2> QED BY <2>1 DEF View, Unit, Held
<1>5. Honest(d, h, c, "reading") <=>
        /\ h.entry.size = Len(c) /\ Cursor(p, h, q) /\ View(d, p, h, q, c) /\ ~h.dirty
        /\ q < Len(p) * SPC => h.buffer = d.data[h.currentcluster][h.sectorincluster]
  BY <1>2 DEF Honest, p
<1> QED BY <1>3, <1>4, <1>5 DEF p, q

LEMMA ReadingBy ==
    ASSUME NEW d, NEW h, NEW c, Fits(d, h, c), NEW p, p = ChainFrom(d, h.entry.first),
           NEW q, q = h.position \div S,
           h.entry.size = Len(c), ~h.dirty, Cursor(p, h, q), Held(d, p, c),
           q < Len(p) * SPC => h.buffer = Sector(d, p, q)
    PROVE  Honest(d, h, c, "reading")
  BY ReadingIs

(* A handle of a file that is opened, rewound or sought in.                *)
LEMMA OpenHonest ==
    ASSUME NEW d, NEW h, NEW c, Fits(d, h, c), h.entry.size = Len(c), ~h.dirty, h.position = 0,
           h.currentcluster = h.entry.first, h.sectorincluster = 0,
           h.buffer = fatreadsector(d, h.entry.first, 0) \/ h.buffer = d.data[h.entry.first][0],
           Held(d, ChainFrom(d, h.entry.first), c)
    PROVE  Honest(d, h, c, "reading")
<1> DEFINE p == ChainFrom(d, h.entry.first)
           m == Len(p) * SPC
<1>1. m \in Nat /\ m > 0 /\ p[1] = h.entry.first /\ Path(d.fat, p)
  BY FitsIs
<1>2. 0 \div S = 0 /\ 0 \div SPC = 0 /\ 0 % SPC = 0
  <2>1. S \in Nat /\ S > 0 /\ SPC \in Nat /\ SPC > 0
    BY Constants
  <2>2. 0 = S * 0 + 0 /\ 0 = SPC * 0 + 0 /\ 0 \in 0 .. S - 1 /\ 0 \in 0 .. SPC - 1
    BY <2>1
  <2> QED BY <2>1, <2>2, Division
<1>3. p[1] \in Clusters
  BY <1>1, PathParts
<1>4. h.buffer = d.data[h.entry.first][0]
  BY <1>1, <1>3 DEF fatreadsector
<1> HIDE DEF p
<1>5. (0 \div SPC) + 1 = 1
  BY <1>2
<1>6. Cursor(p, h, 0)
  BY <1>1, <1>2, <1>5 DEF Cursor
<1>7. h.buffer = Sector(d, p, 0)
  BY <1>1, <1>2, <1>4, <1>5 DEF Sector
<1>8. h.position \div S = 0
  BY <1>2
<1> HIDE DEF m
<1> QED BY <1>6, <1>7, <1>8, ReadingIs DEF p

(* fileseek and filereset find the right sector and load it.               *)
LEMMA SeekHonest ==
    ASSUME NEW x, Handled(x), NEW c, Fits(x.d, x.h, c), Honest(x.d, x.h, c, "reading"),
           NEW to \in Nat, to <= Len(c)
    PROVE  LET y == fileseek(x, to)
           IN  Fits(y.d, y.h, c) /\ Honest(y.d, y.h, c, "reading")
<1> DEFINE y == fileseek(x, to)
           d == x.d
           first == x.h.entry.first
           p == ChainFrom(d, first)
           L == Len(p)
           a == Behind(d, first, to \div PerCluster)
           s == (to \div S) % SPC
           q == to \div S
<1>1. /\ Moved(x, y) /\ y.d = d /\ SameFile(x.h, y.h) /\ y.h.dirty = x.h.dirty
      /\ y.h.position = to /\ y.h.currentcluster = a /\ y.h.sectorincluster = s
      /\ x.h.currentcluster = a /\ x.h.sectorincluster = s => y.h.buffer = x.h.buffer
      /\ ~ (x.h.currentcluster = a /\ x.h.sectorincluster = s) =>
           y.h.buffer = fatreadsector(d, a, s)
  BY SeekIs
<1> HIDE DEF y
<1>2. y.h \in Opened /\ y.h.entry = x.h.entry
  BY <1>1, HandleParts DEF Moved, SameFile
<1>3. Fits(y.d, y.h, c)
  BY <1>1, <1>2 DEF Fits
<1>4. /\ Path(d.fat, p) /\ p[1] = first /\ L \in Nat /\ L * SPC \in Nat
      /\ Len(c) <= L * PerCluster /\ Len(c) \in Nat
  BY FitsIs
<1>5. /\ x.h.entry.size = Len(c) /\ ~x.h.dirty /\ Cursor(p, x.h, x.h.position \div S) /\ Held(d, p, c)
      /\ x.h.position \div S < L * SPC => x.h.buffer = Sector(d, p, x.h.position \div S)
  BY ReadingIs
<1> HIDE DEF L
<1>6. q \in Nat /\ q <= L * SPC /\ to \div PerCluster = q \div SPC
  <2>1. L * PerCluster \in Nat
    BY <1>4, UnitsWithin
  <2> DEFINE m == L * PerCluster
  <2>2. m \in Nat /\ Len(c) <= m
    BY <1>4, <2>1
  <2> HIDE DEF m
  <2>3. to <= m
    BY <1>4, <2>2
  <2> QED BY <1>4, <2>3, UnitsWithin, UnitsOf DEF m
<1>7. q % SPC = s
  OBVIOUS
<1>8. a \in Ahead(p, q \div SPC)
  <2>1. q \div SPC \in Nat
    BY <1>4, <1>6, SectorsOf
  <2> HIDE DEF p, q
  <2>2. Behind(d, p[1], q \div SPC) \in Ahead(p, q \div SPC)
    BY <1>4, <2>1, BehindIs
  <2> QED BY <1>4, <1>6, <2>2
<1>11. /\ Fits(d, y.h, c) /\ p = ChainFrom(d, y.h.entry.first) /\ q = y.h.position \div S
       /\ y.h.entry.size = Len(c) /\ ~y.h.dirty /\ Held(d, p, c)
  BY <1>1, <1>2, <1>3, <1>5
<1>12. Honest(d, y.h, c, "reading") => Fits(y.d, y.h, c) /\ Honest(y.d, y.h, c, "reading")
  BY <1>1, <1>3
<1> HIDE DEF a, p, q, s
<1>9. ASSUME q < L * SPC PROVE Honest(d, y.h, c, "reading")
  <2>1. q \in 0 .. L * SPC - 1
    BY <1>4, <1>6, <1>9
  <2>2. (q \div SPC) + 1 \in 1 .. L /\ p[(q \div SPC) + 1] \in Clusters /\ q % SPC \in Sectors
    BY <1>4, <2>1, SectorPlace DEF L
  <2>3. q \div SPC < L
    BY <1>4, <1>6, <1>9, SectorsOf
  <2>4. a = p[(q \div SPC) + 1]
    BY <1>8, <2>3 DEF Ahead, L
  <2>5. Cursor(p, y.h, q)
    BY <1>1, <1>4, <1>6, <1>7, <1>9, <2>4 DEF Cursor, L
  <2>6. fatreadsector(d, a, s) = Sector(d, p, q)
    BY <1>7, <2>2, <2>4 DEF fatreadsector, Sector
  <2>7. ASSUME x.h.currentcluster = a, x.h.sectorincluster = s
        PROVE  x.h.buffer = Sector(d, p, q)
    <3> DEFINE r == x.h.position \div S
    <3>1. r < L * SPC
      <4>1. x.h.currentcluster # END
        BY <2>2, <2>4, <2>7, Marks
      <4> QED BY <1>5, <4>1 DEF Cursor, L
    <3>2. p[(r \div SPC) + 1] = a /\ r % SPC = s
      BY <1>5, <2>7, <3>1 DEF Cursor, L
    <3> HIDE DEF r
    <3>3. Sector(d, p, r) = Sector(d, p, q)
      BY <1>7, <2>4, <3>2 DEF Sector
    <3> QED BY <1>5, <3>1, <3>3 DEF r
  <2>8. y.h.buffer = Sector(d, p, q)
    BY <1>1, <2>6, <2>7
  <2> QED BY <1>11, <2>5, <2>8, ReadingBy
<1>10. ASSUME q = L * SPC PROVE Honest(d, y.h, c, "reading")
  <2>1. q \div SPC = L /\ q % SPC = 0
    BY <1>4, <1>6, <1>10, SectorsOf
  <2>2. a = END
    BY <1>4, <1>8, <2>1 DEF Ahead, L
  <2>3. Cursor(p, y.h, q)
    BY <1>1, <1>4, <1>6, <1>7, <1>10, <2>2 DEF Cursor, L
  <2>4. ~ (q < L * SPC)
    BY <1>4, <1>10
  <2> QED BY <1>11, <2>3, <2>4, ReadingBy DEF L
<1> QED BY <1>4, <1>6, <1>9, <1>10, <1>12 DEF y

LEMMA ResetHonest ==
    ASSUME NEW x, Handled(x), NEW c, Fits(x.d, x.h, c), Honest(x.d, x.h, c, "reading")
    PROVE  LET y == filereset(x)
           IN  Fits(y.d, y.h, c) /\ Honest(y.d, y.h, c, "reading")
<1> DEFINE y == filereset(x)
           d == x.d
           p == ChainFrom(d, x.h.entry.first)
           q == x.h.position \div S
<1>1. /\ Moved(x, y) /\ y.d = d /\ SameFile(x.h, y.h) /\ y.h.dirty = x.h.dirty
      /\ y.h.position = 0 /\ y.h.currentcluster = x.h.entry.first /\ y.h.sectorincluster = 0
      /\ x.h.position < S => y.h.buffer = x.h.buffer
      /\ x.h.position >= S => y.h.buffer = fatreadsector(d, x.h.entry.first, 0)
  BY ResetIs
<1> HIDE DEF y
<1>2. y.h \in Opened /\ y.h.entry = x.h.entry
  BY <1>1, HandleParts DEF Moved, SameFile
<1>3. Fits(y.d, y.h, c)
  BY <1>1, <1>2 DEF Fits
<1>4. /\ x.h.entry.size = Len(c) /\ ~x.h.dirty /\ Cursor(p, x.h, q) /\ Held(d, p, c)
      /\ q < Len(p) * SPC => x.h.buffer = Sector(d, p, q)
  BY ReadingIs
<1>5. /\ p[1] = x.h.entry.first /\ Len(p) * SPC \in Nat /\ Len(p) * SPC > 0 /\ x.h.position \in Nat
  BY FitsIs
<1>6. ASSUME x.h.position < S PROVE x.h.buffer = d.data[x.h.entry.first][0]
  <2>1. q = 0
    <3>1. x.h.position = S * 0 + x.h.position /\ x.h.position \in 0 .. S - 1 /\ S \in Nat /\ S > 0
      BY <1>5, <1>6, Constants
    <3> DEFINE i == x.h.position
    <3>2. i = S * 0 + i /\ i \in 0 .. S - 1 /\ i \in Int
      BY <1>5, <3>1
    <3> HIDE DEF i
    <3>3. i \div S = 0
      BY <3>1, <3>2, Division
    <3> QED BY <3>3 DEF i
  <2>2. 0 \div SPC = 0 /\ 0 % SPC = 0
    <3>1. SPC \in Nat /\ SPC > 0
      BY Constants
    <3>2. 0 = SPC * 0 + 0 /\ 0 \in 0 .. SPC - 1
      BY <3>1
    <3> QED BY <3>1, <3>2, Division
  <2>3. (0 \div SPC) + 1 = 1
    BY <2>2
  <2> HIDE DEF p, q
  <2>4. x.h.buffer = Sector(d, p, 0)
    BY <1>4, <1>5, <2>1
  <2>5. Sector(d, p, 0) = d.data[p[1]][0]
    BY <2>2, <2>3 DEF Sector
  <2> QED BY <1>5, <2>4, <2>5
<1> HIDE DEF p, q
<1>7. y.h.buffer = fatreadsector(d, x.h.entry.first, 0) \/ y.h.buffer = d.data[x.h.entry.first][0]
  <2>1. x.h.position < S \/ x.h.position >= S
    BY <1>5, Constants
  <2> QED BY <1>1, <1>6, <2>1
<1>8. /\ Fits(d, y.h, c) /\ y.h.entry.size = Len(c) /\ ~y.h.dirty /\ y.h.position = 0
      /\ y.h.currentcluster = y.h.entry.first /\ y.h.sectorincluster = 0
      /\ y.h.buffer = fatreadsector(d, y.h.entry.first, 0) \/ y.h.buffer = d.data[y.h.entry.first][0]
      /\ Held(d, ChainFrom(d, y.h.entry.first), c)
  BY <1>1, <1>2, <1>3, <1>4, <1>7 DEF p
<1>9. Honest(d, y.h, c, "reading")
  BY <1>8, OpenHonest
<1> QED BY <1>1, <1>3, <1>9 DEF y

(* Units in one sector.                                                    *)
LEMMA UnitIn ==
    ASSUME NEW i \in Nat, NEW j \in Nat, (i % S) + j < S
    PROVE  (i + j) \div S = i \div S /\ (i + j) % S = (i % S) + j /\ i + j \in Nat
<1> DEFINE q == i \div S
           r == i % S
<1>1. q \in Nat /\ r \in Nat /\ i = S * q + r /\ S \in Nat /\ S > 0
  BY UnitsOf, Constants
<1> HIDE DEF q, r
<1> DEFINE x == i + j
           u == r + j
<1>2. r + j < S
  BY DEF r
<1>3. x = S * q + u /\ u \in 0 .. S - 1 /\ x \in Int
  <2> DEFINE m == S * q
  <2>1. m \in Nat /\ i = m + r
    BY <1>1
  <2> HIDE DEF m
  <2>2. x = m + u /\ u \in 0 .. S - 1
    BY <1>1, <1>2, <2>1
  <2> QED BY <2>2 DEF m
<1> HIDE DEF x, u
<1>4. x \div S = q /\ x % S = u
  BY <1>1, <1>3, Division
<1> QED BY <1>4 DEF x, u, q, r

(* Where the k-th sector begins is inside the file's clusters.             *)
LEMMA SpotWithin ==
    ASSUME NEW at \in Nat, NEW k \in Nat, NEW L \in Nat, NEW e \in Nat, e <= L * PerCluster,
           Spot(at, k + 1) <= e
    PROVE  /\ (at \div S) + k \in 0 .. L * SPC - 1
           /\ (at \div S) + k + 1 = L * SPC => Spot(at, k + 1) = e /\ e = L * PerCluster
           /\ \A q \in Nat : q = (at \div S) + k =>
                 /\ q \in 0 .. L * SPC - 1
                 /\ q + 1 = L * SPC => Spot(at, k + 1) = e /\ e = L * PerCluster
<1> DEFINE q == (at \div S) + k
           m == L * SPC
           a == at \div S
<1>1. m \in Nat /\ L * PerCluster = S * m /\ S \in Nat /\ S > 0
  BY UnitsWithin, Constants
<1>2. a \in Nat
  BY UnitsOf
<1>3. Spot(at, k + 1) = S * (q + 1)
  <2>1. k + 1 # 0
    OBVIOUS
  <2>2. (at \div S) + (k + 1) = q + 1
    BY <1>2
  <2> QED BY <2>1, <2>2 DEF Spot
<1>4. q \in Nat
  BY <1>2
<1> HIDE DEF q, m
<1>5. S * (q + 1) <= S * m
  BY <1>1, <1>3, <1>4
<1>6. q + 1 <= m
  <2> SUFFICES ASSUME m < q + 1 PROVE FALSE
    BY <1>1, <1>4
  <2>1. q + 1 >= m + 1
    BY <1>1, <1>4
  <2>2. S * (q + 1) >= S * (m + 1) /\ S * (m + 1) = S * m + S
    BY <1>1, <1>4, <2>1
  <2> QED BY <1>1, <1>4, <1>5, <2>2
<1>7. q \in 0 .. m - 1
  BY <1>1, <1>4, <1>6
<1>8. ASSUME q + 1 = m PROVE Spot(at, k + 1) = e /\ e = L * PerCluster
  <2> DEFINE u == S * m
  <2>1. Spot(at, k + 1) = u /\ L * PerCluster = u /\ u \in Nat
    BY <1>1, <1>3, <1>8
  <2> HIDE DEF u
  <2> QED BY <2>1
<1>9. (at \div S) + k + 1 = q + 1
  BY DEF q
<1> QED BY <1>7, <1>8, <1>9 DEF q, m

(* The units u are those of c from at on.                                  *)
Copied(u, c, at) == \A j \in 1 .. Len(u) : u[j] = c[at + j]

(* What reading k sectors of the size units has got.                       *)
Got(x, c, size, k, y) ==
    LET p  == ChainFrom(x.d, x.h.entry.first)
        at == x.h.position
        q  == (at \div S) + k
    IN /\ Copied(y.units, c, at)
       /\ ~y.eof => /\ Cursor(p, y.h, q) /\ y.ret = size
                    /\ q < Len(p) * SPC => y.h.buffer = Sector(x.d, p, q)
       /\ y.eof => /\ Cursor(p, y.h, Len(p) * SPC) /\ y.ret = 0
                   /\ Len(y.units) = size /\ at + size = Len(c) /\ Len(c) = Len(p) * PerCluster

(* What is taken from the buffer is the file's.                            *)
LEMMA TakeGot ==
    ASSUME NEW x, NEW c, Fits(x.d, x.h, c), NEW p, p = ChainFrom(x.d, x.h.entry.first),
           Held(x.d, p, c), NEW y \in Reading, NEW k \in 0 .. S - (y.h.position % S),
           NEW at \in Nat, Len(y.units) = y.h.position - at, y.h.position + k <= Len(c),
           Copied(y.units, c, at),
           k > 0 => y.h.buffer = Sector(x.d, p, y.h.position \div S)
    PROVE  LET z == Take(y, k)
           IN  /\ Len(z.units) = (y.h.position + k) - at
               /\ Copied(z.units, c, at)
<1> DEFINE z == Take(y, k)
           pos == y.h.position
           r == pos % S
           n == Len(y.units)
<1>1. /\ Len(z.units) = n + k
      /\ \A j \in 1 .. n : z.units[j] = y.units[j]
      /\ \A j \in 1 .. k : z.units[n + j] = y.h.buffer[r + j - 1]
  BY TakeIs
<1>2. pos \in Nat /\ n \in Nat /\ r \in Nat /\ r < S /\ Len(c) \in Nat /\ S \in Nat
  <2>1. pos \in Nat
    BY DEF Reading, Opened
  <2>2. n \in Nat
    BY DEF Reading
  <2> QED BY <2>1, <2>2, UnitsOf, FitsIs, Constants
<1>3. k \in Nat
  BY <1>2
<1> HIDE DEF z
<1>4. ASSUME NEW j \in 1 .. k PROVE z.units[n + j] = c[at + (n + j)]
  <2> DEFINE i == pos + (j - 1)
  <2>1. j - 1 \in Nat /\ r + (j - 1) < S /\ r + j - 1 = r + (j - 1) /\ k > 0
    BY <1>2, <1>3
  <2>2. i \div S = pos \div S /\ i % S = r + (j - 1) /\ i \in Nat
    BY <1>2, <2>1, UnitIn
  <2>3. i \in 0 .. Len(c) - 1 /\ i + 1 = at + (n + j)
    <3>1. n = pos - at /\ pos + k <= Len(c)
      OBVIOUS
    <3> HIDE DEF r, n, pos
    <3> QED BY <1>2, <1>3, <3>1
  <2>4. c[i + 1] = Sector(x.d, p, i \div S)[i % S]
    <3> HIDE DEF i
    <3> QED BY <2>3 DEF Held
  <2>5. z.units[n + j] = Sector(x.d, p, pos \div S)[r + (j - 1)]
    BY <1>1, <2>1
  <2> HIDE DEF i
  <2> QED BY <2>2, <2>3, <2>4, <2>5
<1>5. Len(z.units) = (pos + k) - at
  BY <1>1, <1>2, <1>3
<1>6. ASSUME NEW j \in 1 .. n + k PROVE z.units[j] = c[at + j]
  <2>1. CASE j \in 1 .. n
    BY <1>1, <2>1 DEF Copied
  <2>2. CASE j \notin 1 .. n
    <3> HIDE DEF n, r, pos
    <3>1. j - n \in 1 .. k /\ n + (j - n) = j
      BY <1>2, <1>3, <2>2
    <3> QED BY <1>4, <3>1
  <2> QED BY <2>1, <2>2
<1> QED BY <1>1, <1>5, <1>6 DEF z, Copied

(* One round of reading.                                                   *)
LEMMA GotNext ==
    ASSUME NEW x, Handled(x), NEW c, Fits(x.d, x.h, c), Held(x.d, ChainFrom(x.d, x.h.entry.first), c),
           NEW size \in Nat, x.h.position + size <= Len(c),
           NEW k \in Nat, Spot(x.h.position, k + 1) <= x.h.position + size,
           NEW y, ReadOn(x, k, y), Got(x, c, size, k, y)
    PROVE  Got(x, c, size, k + 1, ReadSector(x.d, y))
<1> DEFINE p == ChainFrom(x.d, x.h.entry.first)
           L == Len(p)
           m == L * SPC
           at == x.h.position
           q == (at \div S) + k
           w == ReadSector(x.d, y)
           end == S - (y.h.position % S)
           z == Take(y, end)
           g == NextSector(x.d, z.h)
<1>1. /\ x.d \in Disks /\ x.d.fat \in Tables /\ Path(x.d.fat, p) /\ L \in Nat /\ m \in Nat
      /\ at \in Nat /\ Len(c) \in Nat /\ Len(c) <= L * PerCluster
  BY FitsIs
<1>2. CASE y.eof
  <2>1. w = y
    BY <1>2, ReadSectorIs
  <2> HIDE DEF w
  <2>2. Got(x, c, size, k + 1, y)
    BY <1>2 DEF Got
  <2> QED BY <2>1, <2>2 DEF w
<1>3. CASE ~y.eof
  <2>1. /\ ReadOn(x, k + 1, w)
        /\ w.units = z.units
        /\ w.h.currentcluster = g.currentcluster /\ w.h.sectorincluster = g.sectorincluster
        /\ w.eof <=> g.sectorincluster = 0 /\ g.currentcluster = END
        /\ ~w.eof => /\ w.ret = y.ret
                     /\ w.h.buffer = fatreadsector(x.d, g.currentcluster, g.sectorincluster)
        /\ w.eof => w.ret = 0
    BY <1>3, ReadSectorIs
  <2>2. /\ y \in Reading /\ y.h.position = Spot(at, k) /\ Len(y.units) = y.h.position - at
        /\ Copied(y.units, c, at)
        /\ Cursor(p, y.h, q) /\ y.ret = size
        /\ q < m => y.h.buffer = Sector(x.d, p, q)
    BY <1>3 DEF ReadOn, Got
  <2>3. /\ Spot(at, k) \div S = q /\ Spot(at, k) + (S - (Spot(at, k) % S)) = Spot(at, k + 1)
        /\ Spot(at, k) \in Nat /\ Spot(at, k + 1) \in Nat /\ Spot(at, k) % S \in Units
    <3>1. k + 1 \in Nat
      OBVIOUS
    <3>2. Spot(at, k + 1) \in Nat
      BY <1>1, <3>1, SpotIs
    <3>3. /\ Spot(at, k) \div S = (at \div S) + k /\ Spot(at, k) \in Nat /\ Spot(at, k) % S \in Units
          /\ Spot(at, k) + (S - (Spot(at, k) % S)) = Spot(at, k + 1)
      BY <1>1, SpotIs
    <3> QED BY <3>2, <3>3
  <2>4. end \in 0 .. S - (y.h.position % S) /\ y.h.position + end = Spot(at, k + 1)
    <3>1. Spot(at, k) % S \in 0 .. S - 1 /\ S \in Nat
      BY <2>3, Constants DEF Units
    <3> QED BY <2>2, <2>3, <3>1
  <2>5. /\ q \in 0 .. m - 1
        /\ q + 1 = m => Spot(at, k + 1) = at + size /\ at + size = L * PerCluster
    <3>1. at + size \in Nat /\ at + size <= L * PerCluster
      <4> DEFINE u == L * PerCluster
      <4>1. u \in Nat /\ Len(c) <= u
        BY <1>1, UnitsWithin
      <4> HIDE DEF u
      <4>2. at + size <= u /\ at + size \in Nat
        BY <1>1, <4>1
      <4> QED BY <4>2 DEF u
    <3>2. q \in Nat
      BY <1>1, UnitsOf
    <3> DEFINE e == at + size
    <3>3. e \in Nat /\ e <= L * PerCluster /\ Spot(at, k + 1) <= e
      BY <3>1
    <3> HIDE DEF L, q, e
    <3>4. q = (at \div S) + k
      BY DEF q
    <3>5. q \in 0 .. m - 1 /\ (q + 1 = m => Spot(at, k + 1) = e /\ e = L * PerCluster)
      BY <1>1, <3>2, <3>3, <3>4, SpotWithin
    <3> QED BY <3>5 DEF e
  <2>6. q < m
    BY <1>1, <2>5
  <2>7. y.h \in Opened /\ z.h \in Opened /\ z.h.currentcluster = y.h.currentcluster
        /\ z.h.sectorincluster = y.h.sectorincluster
    <3>1. z \in Reading /\ z.h = [y.h EXCEPT !.position = @ + end]
      BY <2>2, <2>4, TakeIs
    <3>2. y.h \in Opened /\ z.h \in Opened
      BY <2>2, <3>1 DEF Reading
    <3> QED BY <3>1, <3>2 DEF Opened
  <2>8. /\ Len(z.units) = Spot(at, k + 1) - at
        /\ Copied(z.units, c, at)
    <3>1. y.h.buffer = Sector(x.d, p, y.h.position \div S)
      BY <2>2, <2>3, <2>6
    <3>2. y.h.position + end <= Len(c)
      BY <1>1, <2>3, <2>4
    <3>3. Len(z.units) = (y.h.position + end) - at /\ Copied(z.units, c, at)
      <4> HIDE DEF p, end, at, z
      <4>1. /\ p = ChainFrom(x.d, x.h.entry.first) /\ Held(x.d, p, c)
            /\ (end > 0 => y.h.buffer = Sector(x.d, p, y.h.position \div S))
        BY <3>1 DEF p
      <4>2. at \in Nat /\ Len(y.units) = y.h.position - at /\ y \in Reading
            /\ Copied(y.units, c, at)
        BY <1>1, <2>2
      <4> QED BY <2>4, <3>2, <4>1, <4>2, TakeGot DEF z
    <3> QED BY <2>4, <3>3
  <2> HIDE DEF z, p
  <2>9. Cursor(p, g, q + 1) /\ (g.sectorincluster = 0 /\ g.currentcluster = END <=> q + 1 = m)
    <3>1. Cursor(p, z.h, q)
      BY <2>2, <2>7 DEF Cursor
    <3> HIDE DEF q, g
    <3> QED BY <1>1, <2>5, <2>7, <3>1, CursorNext DEF g
  <2> HIDE DEF g, w
  <2>10. Cursor(p, w.h, q + 1)
    BY <2>1, <2>9 DEF Cursor
  <2>11. (at \div S) + (k + 1) = q + 1
    BY <1>1, UnitsOf
  <2>12. ASSUME ~w.eof PROVE w.ret = size /\ (q + 1 < m => w.h.buffer = Sector(x.d, p, q + 1))
    <3>1. w.h.buffer = fatreadsector(x.d, g.currentcluster, g.sectorincluster)
      BY <2>1, <2>12
    <3>2. ASSUME q + 1 < m PROVE w.h.buffer = Sector(x.d, p, q + 1)
      <4>1. q + 1 \in 0 .. m - 1
        BY <1>1, <2>5, <3>2
      <4>2. g.currentcluster = p[((q + 1) \div SPC) + 1] /\ g.sectorincluster = (q + 1) % SPC
        BY <2>9, <3>2 DEF Cursor
      <4>3. p[((q + 1) \div SPC) + 1] \in Clusters
        <5> DEFINE r == q + 1
        <5>1. r \in 0 .. m - 1
          BY <4>1
        <5> HIDE DEF r, q
        <5> QED BY <1>1, <5>1, SectorPlace DEF r
      <4> QED BY <3>1, <4>2, <4>3 DEF fatreadsector, Sector
    <3> QED BY <2>1, <2>2, <2>12, <3>2
  <2>13. ASSUME w.eof
         PROVE  /\ Cursor(p, w.h, m) /\ w.ret = 0
                /\ Len(w.units) = size /\ at + size = Len(c) /\ Len(c) = L * PerCluster
    <3>1. q + 1 = m
      BY <2>1, <2>9, <2>13
    <3>2. Spot(at, k + 1) = at + size /\ at + size = L * PerCluster
      BY <2>5, <3>1
    <3>3. at + size = Len(c)
      <4> DEFINE u == L * PerCluster
      <4>1. u = at + size /\ Len(c) <= u
        BY <1>1, <3>2
      <4> HIDE DEF u
      <4> QED BY <1>1, <4>1
    <3>4. Len(w.units) = size
      BY <1>1, <2>1, <2>8, <3>2
    <3> QED BY <2>1, <2>10, <2>13, <3>1, <3>2, <3>3, <3>4
  <2> HIDE DEF q, m, L
  <2>14. Copied(w.units, c, at)
    BY <2>1, <2>8
  <2> HIDE DEF at
  <2> QED BY <2>10, <2>11, <2>12, <2>13, <2>14 DEF Got, w, p, at, m, L
<1> QED BY <1>2, <1>3

(* A read gets the units of the file, and leaves the handle on the sector  *)
(* of its new position.                                                    *)
LEMMA ReadHonest ==
    ASSUME NEW x, Handled(x), NEW c, Fits(x.d, x.h, c), Honest(x.d, x.h, c, "reading"),
           x.h.position <= Len(c), Len(c) <= Capacity(x.h), NEW n \in Nat
    PROVE  LET r == _fileread(x, n)
           IN  /\ Fits(x.d, r.h, c) /\ Honest(x.d, r.h, c, "reading")
               /\ r.units = SubSeq(c, x.h.position + 1, x.h.position + Len(r.units))
               /\ r.ret \in {0, Len(r.units)}
<1> DEFINE size == Readable(x.h, n)
           K == FullSectors(x.h, size)
           run == ReadLoop(x, size)
           end == run[K]
           r == _fileread(x, n)
           y == [d |-> x.d, h |-> r.h]
           at == x.h.position
           p == ChainFrom(x.d, x.h.entry.first)
           L == Len(p)
           m == L * SPC
           q == at \div S
<1>1. /\ x.h \in Opened /\ x.d \in Disks /\ Path(x.d.fat, p) /\ L \in Nat /\ m \in Nat
      /\ at \in Nat /\ Len(c) \in Nat /\ Len(c) <= L * PerCluster /\ c \in Seq(Values)
  BY FitsIs
<1>2. /\ x.h.entry.size = Len(c) /\ ~x.h.dirty /\ Cursor(p, x.h, q) /\ Held(x.d, p, c)
      /\ q < m => x.h.buffer = Sector(x.d, p, q)
  BY ReadingIs
<1>3. size \in Nat /\ at + size <= Len(c)
  <2>1. size \in Nat /\ size = Lesser(n, Len(c) - at)
    BY <1>1, <1>2, ReadableIs
  <2> HIDE DEF size, at
  <2> QED BY <1>1, <2>1 DEF Lesser
<1>4. Moved(x, y) /\ SameFile(x.h, r.h) /\ r.h.dirty = x.h.dirty
  <2> HIDE DEF r
  <2> QED BY ReadIs DEF r
<1>5. /\ K \in Nat
      /\ run[0] = [h |-> x.h, units |-> <<>>, eof |-> FALSE, ret |-> size]
      /\ \A k \in 1 .. K : run[k] = ReadSector(x.d, run[k - 1])
      /\ \A k \in 0 .. K : ReadOn(x, k, run[k])
  <2> HIDE DEF size
  <2> QED BY <1>3, ReadLoopIs
<1>6. /\ \A k \in 0 .. K : Spot(at, k) <= at + size
      /\ (at + size) - Spot(at, K) \in 0 .. S - (Spot(at, K) % S)
      /\ (at + size) \div S = q + K
  <2>1. K = ((at % S) + size) \div S
    BY DEF FullSectors
  <2> HIDE DEF size, K, at
  <2> QED BY <1>1, <1>3, <2>1, SpotEnd
<1>7. r = IF end.eof THEN end ELSE Take(end, size - Len(end.units))
  BY DEF _fileread
<1> HIDE DEF size, K, run, r
<1>8. Got(x, c, size, 0, run[0])
  <2> DEFINE z == run[0]
  <2>0. z = [h |-> x.h, units |-> <<>>, eof |-> FALSE, ret |-> size]
    BY <1>5
  <2>1. z.h = x.h /\ z.units = <<>> /\ ~z.eof /\ z.ret = size
    <3> HIDE DEF z
    <3> QED BY ONLY <2>0
  <2>2. q + 0 = q
    <3>1. q \in Nat
      BY <1>1, UnitsOf
    <3> HIDE DEF q
    <3> QED BY <3>1
  <2>3. Copied(z.units, c, at)
    BY <2>1 DEF Copied
  <2> HIDE DEF z, p, q, m
  <2> QED BY <1>2, <2>1, <2>2, <2>3 DEF Got, z, p, q, m, L
<1>9. ASSUME NEW k \in 0 .. K - 1, Got(x, c, size, k, run[k])
      PROVE  Got(x, c, size, k + 1, run[k + 1])
  <2>1. k \in Nat /\ k \in 0 .. K /\ k + 1 \in 0 .. K /\ k + 1 \in 1 .. K /\ k + 1 - 1 = k
    BY <1>5
  <2>2. run[k + 1] = ReadSector(x.d, run[k]) /\ ReadOn(x, k, run[k]) /\ Spot(at, k + 1) <= at + size
    BY <1>5, <1>6, <2>1
  <2>3. Held(x.d, ChainFrom(x.d, x.h.entry.first), c)
    BY <1>2
  <2> QED BY <1>3, <1>9, <2>1, <2>2, <2>3, GotNext
<1>10. Got(x, c, size, K, end) /\ ReadOn(x, K, end)
  <2> DEFINE T == {k \in 0 .. K : Got(x, c, size, k, run[k])}
  <2>1. 0 \in T /\ \A k \in 0 .. K - 1 : k \in T => k + 1 \in T
    BY <1>5, <1>8, <1>9
  <2> HIDE DEF T
  <2>2. \A k \in 0 .. K : k \in T
    BY <1>5, <2>1, Induction
  <2>3. K \in T
    BY <1>5, <2>2
  <2> QED BY <1>5, <2>3 DEF T
<1> HIDE DEF end
<1>11. r.h \in Opened /\ r.h.entry = x.h.entry
  <2>1. y.d = x.d /\ y.h = r.h
    OBVIOUS
  <2> HIDE DEF y
  <2>2. y.h \in Opened
    BY <1>4, HandleParts DEF Moved
  <2> QED BY <1>4, <2>1, <2>2 DEF SameFile
<1>12. Fits(x.d, r.h, c)
  BY <1>11 DEF Fits
<1>13. /\ Len(r.units) = size /\ r.units \in Seq(UnitValues) /\ Copied(r.units, c, at)
       /\ r.ret \in {0, size}
       /\ Cursor(p, r.h, r.h.position \div S)
       /\ r.h.position \div S < m => r.h.buffer = Sector(x.d, p, r.h.position \div S)
  <2>1. CASE end.eof
    <3>1. r = end
      BY <1>7, <2>1
    <3>2. /\ Cursor(p, end.h, m) /\ end.ret = 0 /\ Len(end.units) = size
          /\ Len(c) = L * PerCluster /\ Copied(end.units, c, at)
      BY <1>10, <2>1 DEF Got
    <3>3. end.h.position = Len(c) /\ end \in Reading
      BY <1>2, <1>10, <2>1 DEF ReadOn
    <3>4. end.h.position \div S = m
      BY <1>1, <3>2, <3>3, WholeClusters
    <3>5. ~ (m < m)
      BY <1>1
    <3>6. end.units \in Seq(UnitValues)
      BY <3>3 DEF Reading
    <3> HIDE DEF p, m
    <3> QED BY <3>1, <3>2, <3>4, <3>5, <3>6
  <2>2. CASE ~end.eof
    <3> DEFINE k == size - Len(end.units)
    <3>1. /\ end \in Reading /\ end.h.position = Spot(at, K) /\ Len(end.units) = end.h.position - at
          /\ Copied(end.units, c, at) /\ Cursor(p, end.h, q + K) /\ end.ret = size
          /\ q + K < m => end.h.buffer = Sector(x.d, p, q + K)
      BY <1>10, <2>2 DEF ReadOn, Got
    <3>2. Spot(at, K) \in Nat /\ Spot(at, K) \div S = q + K
      BY <1>1, <1>5, SpotIs
    <3>3. k = (at + size) - Spot(at, K) /\ k \in 0 .. S - (end.h.position % S)
      <4>1. k = (at + size) - Spot(at, K)
        <5> HIDE DEF at
        <5> QED BY <1>1, <1>3, <3>1, <3>2
      <4> QED BY <1>6, <3>1, <4>1
    <3>4. r = Take(end, k)
      BY <1>7, <2>2
    <3> HIDE DEF k
    <3>5. k \in Nat /\ end.h.position + k = at + size
      <4>1. k \in Int /\ k >= 0
        BY <3>3, Constants
      <4> HIDE DEF at
      <4> QED BY <1>1, <1>3, <3>1, <3>2, <3>3, <4>1
    <3>6. k > 0 => end.h.buffer = Sector(x.d, p, end.h.position \div S)
      <4> SUFFICES ASSUME k > 0 PROVE q + K < m
        BY <3>1, <3>2
      <4> DEFINE e == Spot(at, K)
                 u == L * PerCluster
      <4>1. e \in Nat /\ e + k <= Len(c) /\ u \in Nat /\ Len(c) <= u
        BY <1>1, <1>3, <3>1, <3>2, <3>5, UnitsWithin
      <4> HIDE DEF u, e
      <4>2. e < u
        BY <1>1, <3>5, <4>1
      <4> HIDE DEF L
      <4>3. e \div S < L * SPC
        BY <1>1, <4>1, <4>2, UnitsWithin DEF u
      <4> QED BY <3>2, <4>3 DEF e, L
    <3>7. /\ r \in Reading /\ r.h = [end.h EXCEPT !.position = @ + k] /\ r.ret = end.ret
      BY <3>1, <3>3, <3>4, TakeIs
    <3>8. Len(r.units) = (end.h.position + k) - at /\ Copied(r.units, c, at)
      <4>1. end.h.position + k <= Len(c) /\ at \in Nat
        BY <1>1, <1>3, <3>5
      <4>2. p = ChainFrom(x.d, x.h.entry.first) /\ Held(x.d, p, c)
        BY <1>2
      <4>3. /\ end \in Reading /\ Len(end.units) = end.h.position - at /\ Copied(end.units, c, at)
            /\ k \in 0 .. S - (end.h.position % S)
        BY <3>1, <3>3
      <4> HIDE DEF p, at, q
      <4>4. LET z == Take(end, k)
            IN  Len(z.units) = (end.h.position + k) - at /\ Copied(z.units, c, at)
        BY <3>6, <4>1, <4>2, <4>3, TakeGot
      <4> QED BY <3>4, <4>4
    <3>9. Len(r.units) = size
      <4> HIDE DEF at
      <4> QED BY <1>1, <1>3, <3>5, <3>8
    <3>10. /\ r.h.position = at + size /\ r.h.currentcluster = end.h.currentcluster
           /\ r.h.sectorincluster = end.h.sectorincluster /\ r.h.buffer = end.h.buffer
      <4>1. end.h \in Opened
        BY <3>1 DEF Reading
      <4> QED BY <3>5, <3>7, <4>1 DEF Opened
    <3>11. r.h.position \div S = q + K /\ r.units \in Seq(UnitValues)
      BY <1>6, <3>7, <3>10 DEF Reading
    <3>12. Cursor(p, r.h, q + K)
      BY <3>1, <3>10 DEF Cursor
    <3> HIDE DEF p, q, m, at
    <3> QED BY <3>1, <3>7, <3>8, <3>9, <3>10, <3>11, <3>12
  <2> QED BY <2>1, <2>2
<1>14. Honest(x.d, r.h, c, "reading")
  <2>1. /\ p = ChainFrom(x.d, r.h.entry.first) /\ r.h.entry.size = Len(c) /\ ~r.h.dirty
    BY <1>2, <1>4, <1>11
  <2> HIDE DEF p, m
  <2> QED BY <1>2, <1>12, <1>13, <2>1, ReadingBy DEF m, L
<1>15. r.units = SubSeq(c, at + 1, at + Len(r.units))
  <2> DEFINE u == r.units
             s == SubSeq(c, at + 1, at + size)
  <2>1. u \in Seq(UnitValues) /\ Len(u) = size /\ \A j \in 1 .. size : u[j] = c[at + j]
    BY <1>13 DEF Copied
  <2>2. s \in Seq(Values) /\ Len(s) = size /\ \A j \in 1 .. size : s[j] = c[at + j]
    <3> HIDE DEF at
    <3>1. at + 1 \in Nat /\ at + size \in Nat /\ at + size <= Len(c) /\ at + 1 >= 1
      BY <1>1, <1>3
    <3>2. c \in Seq(Values)
      BY <1>1
    <3>3. s \in Seq(Values) /\ Len(s) = size
      BY <1>1, <1>3, <3>1, <3>2
    <3>4. ASSUME NEW j \in 1 .. size PROVE s[j] = c[at + j]
      <4>1. s[j] = c[(at + 1) + j - 1]
        BY <1>1, <1>3, <3>1, <3>2
      <4>2. (at + 1) + j - 1 = at + j
        BY <1>1, <1>3
      <4> QED BY <4>1, <4>2
    <3> QED BY <3>3, <3>4
  <2> HIDE DEF u, s
  <2>3. u = s
    <3>1. u = [j \in 1 .. size |-> u[j]] /\ s = [j \in 1 .. size |-> s[j]]
      BY <1>3, <2>1, <2>2
    <3> QED BY <2>1, <2>2, <3>1
  <2> QED BY <1>13, <2>3 DEF u, s
<1> QED BY <1>12, <1>13, <1>14, <1>15 DEF r

-----------------------------------------------------------------------------
(* What writing leaves of the contents.                                    *)

(* Units of one sector.                                                    *)
LEMMA SameSector ==
    ASSUME NEW i \in Nat, NEW j \in Nat
    PROVE  /\ i \div S = j \div S => /\ i >= j <=> i % S >= j % S
                                     /\ i - j = (i % S) - (j % S)
                                     /\ i < S * ((j \div S) + 1)
           /\ j <= i /\ i < S * ((j \div S) + 1) => i \div S = j \div S
           /\ i < S * ((j \div S) + 1) => i \div S < (j \div S) + 1
<1> DEFINE a == i \div S
           b == j \div S
           r == i % S
           t == j % S
<1>1. /\ a \in Nat /\ r \in Nat /\ i = S * a + r /\ r < S
      /\ b \in Nat /\ t \in Nat /\ j = S * b + t /\ t < S
      /\ S \in Nat /\ S > 0
  BY UnitsOf, Constants
<1>2. i < (b + 1) * S <=> a < b + 1
  <2> HIDE DEF b
  <2>1. b + 1 \in Nat
    BY <1>1
  <2> QED BY <1>1, <2>1, FloorIs
<1> HIDE DEF a, b, r, t
<1>3. S * (b + 1) = S * b + S /\ S * (b + 1) = (b + 1) * S
  BY <1>1
<1> DEFINE sb == S * b
<1>4. sb \in Nat /\ j = sb + t
  BY <1>1
<1>5. ASSUME a = b PROVE (i >= j <=> r >= t) /\ i - j = r - t /\ i < S * (b + 1)
  <2>1. i = sb + r /\ S * (b + 1) = sb + S
    BY <1>1, <1>3, <1>5
  <2> HIDE DEF sb
  <2> QED BY <1>1, <1>4, <2>1
<1>6. ASSUME i < S * (b + 1) PROVE a < b + 1
  BY <1>2, <1>3, <1>6
<1>7. ASSUME j <= i, i < S * (b + 1) PROVE a = b
  <2>1. a < b + 1
    BY <1>6, <1>7
  <2>2. ~ (a < b)
    <3> SUFFICES ASSUME a < b PROVE FALSE
      OBVIOUS
    <3> DEFINE sa == S * a
    <3>1. S * (a + 1) <= sb /\ S * (a + 1) = sa + S
      BY <1>1
    <3>2. sa \in Nat /\ i = sa + r
      BY <1>1
    <3> HIDE DEF sa, sb
    <3> QED BY <1>1, <1>4, <1>7, <3>1, <3>2
  <2> QED BY <1>1, <2>1, <2>2
<1> QED BY <1>5, <1>6, <1>7 DEF a, b, r, t

(* The handle y.h is on the sector q; of the units from at on, those       *)
(* before its position are v, the others are as in c.  In a sector that    *)
(* was not the first, the units behind the position are not yet known.     *)
Claimed(c, at, pos, q, i) ==
    /\ i < Len(c) \/ (at <= i /\ i < pos)
    /\ i \div S = q /\ q > at \div S => i < pos
(* What the i-th unit is to be.                                            *)
Worth(c, at, pos, v, i) == IF at <= i /\ i < pos THEN v ELSE c[i + 1]

(* After k rounds the handle is on the sector q, and every unit that is    *)
(* claimed is what it is to be.                                            *)
Laid(x, c, v, n, k, q, y) ==
    LET p  == ChainFrom(x.d, x.h.entry.first)
        at == x.h.position
    IN /\ q \in Nat /\ q < Len(p) * SPC /\ Cursor(p, y.h, q)
       /\ y.d.stray = x.d.stray
       /\ y.left > 0 => q = (at \div S) + k
       /\ y.left = 0 => q = (at + n - 1) \div S
       /\ \A i \in Nat : Claimed(c, at, y.h.position, q, i) =>
             Unit(y.d, p, y.h, q, i) = Worth(c, at, y.h.position, v, i)

(* The clusters have room for the write.                                   *)
Wide(x, c, n) ==
    /\ Handled(x) /\ Fits(x.d, x.h, c) /\ n \in Nat /\ n > 0
    /\ x.h.position <= Len(c)
    /\ x.h.position + n <= Len(ChainFrom(x.d, x.h.entry.first)) * PerCluster

(* How much a loop has left to write.                                      *)
LEMMA LeftIs ==
    ASSUME NEW at \in Nat, NEW n \in Nat, NEW k \in Nat
    PROVE  /\ Left(at, n, k) \in Nat
           /\ Left(at, n, k) = 0 => Left(at, n, k + 1) = 0
           /\ Left(at, n, k) > 0 => /\ Spot(at, k) < at + n
                                    /\ Left(at, n, k) = (at + n) - Spot(at, k)
                                    /\ (at + n) - Left(at, n, k) = Spot(at, k)
           /\ Left(at, n, k) > S - (Spot(at, k) % S) =>
                 /\ Spot(at, k + 1) < at + n /\ Left(at, n, k + 1) = (at + n) - Spot(at, k + 1)
           /\ Left(at, n, k) <= S - (Spot(at, k) % S) => Left(at, n, k + 1) = 0
<1> DEFINE a == Spot(at, k)
           b == Spot(at, k + 1)
           r == a % S
<1>1. a \in Nat /\ a + (S - r) = b /\ r \in Units
  BY SpotIs
<1>2. b \in Nat
  <2>1. k + 1 \in Nat
    OBVIOUS
  <2> QED BY <2>1, SpotIs
<1>3. S - r > 0 /\ S \in Nat /\ r \in Nat
  BY <1>1, Constants DEF Units
<1>4. Left(at, n, k) = (IF a <= at + n THEN (at + n) - a ELSE 0)
      /\ Left(at, n, k + 1) = (IF b <= at + n THEN (at + n) - b ELSE 0)
  BY DEF Left
<1> HIDE DEF a, b, r
<1> DEFINE l == Left(at, n, k)
           l1 == Left(at, n, k + 1)
<1>5. l = (IF a <= at + n THEN (at + n) - a ELSE 0) /\ l1 = (IF b <= at + n THEN (at + n) - b ELSE 0)
  BY <1>4
<1> HIDE DEF l, l1
<1>6. l \in Nat /\ (l = 0 => l1 = 0)
  BY <1>1, <1>2, <1>3, <1>5
<1>7. l > 0 => a < at + n /\ l = (at + n) - a /\ (at + n) - l = a
  BY <1>1, <1>2, <1>3, <1>5
<1>8. l > S - r => b < at + n /\ l1 = (at + n) - b
  BY <1>1, <1>2, <1>3, <1>5
<1>9. l <= S - r => l1 = 0
  BY <1>1, <1>2, <1>3, <1>5
<1> QED BY <1>6, <1>7, <1>8, <1>9 DEF a, b, r, l, l1

(* Every unit to be written has its place.                                 *)
LEMMA WideIs ==
    ASSUME NEW x, NEW c, NEW n, Wide(x, c, n)
    PROVE  LET p == ChainFrom(x.d, x.h.entry.first)
           IN  /\ x.h.position \in Nat /\ n \in Nat /\ n > 0 /\ Len(c) \in Nat /\ x.h.position <= Len(c)
               /\ Path(x.d.fat, p) /\ Len(p) \in Nat /\ Len(p) * SPC \in Nat
               /\ \A i \in Nat : i < Len(c) \/ i < x.h.position + n =>
                     i \div S \in 0 .. Len(p) * SPC - 1 /\ i \div S < Len(p) * SPC
<1> DEFINE p == ChainFrom(x.d, x.h.entry.first)
           L == Len(p)
           at == x.h.position
<1>1. /\ at \in Nat /\ n \in Nat /\ n > 0 /\ Len(c) \in Nat /\ at <= Len(c)
      /\ Path(x.d.fat, p) /\ L \in Nat /\ L * SPC \in Nat
      /\ Len(c) <= L * PerCluster /\ at + n <= L * PerCluster
  BY FitsIs DEF Wide
<1> HIDE DEF p, L, at
<1>2. ASSUME NEW i \in Nat, i < Len(c) \/ i < at + n
      PROVE  i \div S \in 0 .. L * SPC - 1 /\ i \div S < L * SPC
  <2> DEFINE m == L * PerCluster
             e == L * SPC
             q == i \div S
  <2>1. m \in Nat /\ Len(c) <= m /\ at + n <= m
    BY <1>1, UnitsWithin
  <2>2. i < m
    <3> HIDE DEF m
    <3> QED BY <1>1, <1>2, <2>1
  <2>3. q < e /\ q \in Nat /\ e \in Nat
    BY <1>1, <2>2, UnitsWithin, UnitsOf
  <2> HIDE DEF q, e
  <2>4. q \in 0 .. e - 1
    BY <2>3
  <2> QED BY <2>3, <2>4 DEF q, e
<1> QED BY <1>1, <1>2 DEF p, L, at

LEMMA LaidParts ==
    ASSUME NEW x, NEW c, NEW v, NEW n, NEW k, NEW q, NEW y, Laid(x, c, v, n, k, q, y)
    PROVE  LET p  == ChainFrom(x.d, x.h.entry.first)
               at == x.h.position
           IN /\ q \in Nat /\ q < Len(p) * SPC /\ Cursor(p, y.h, q)
              /\ y.d.stray = x.d.stray
              /\ y.left > 0 => q = (at \div S) + k
              /\ y.left = 0 => q = (at + n - 1) \div S
              /\ \A i \in Nat : Claimed(c, at, y.h.position, q, i) =>
                    Unit(y.d, p, y.h, q, i) = Worth(c, at, y.h.position, v, i)
  BY DEF Laid

(* The units of a buffer that has been written to.                         *)
LEMMA FilledUnit ==
    ASSUME NEW b, NEW v, NEW pos \in Nat, NEW w \in Nat, NEW i \in Nat, i \div S = pos \div S
    PROVE  Filled(b, v, pos % S, w)[i % S] = IF pos <= i /\ i < pos + w THEN v ELSE b[i % S]
<1> DEFINE r == i % S
           t == pos % S
<1>1. r \in Units /\ r \in Nat /\ t \in Nat
  BY UnitsOf
<1>2. i - pos = r - t
  BY SameSector
<1> HIDE DEF r, t
<1>3. r \in t .. t + w - 1 <=> pos <= i /\ i < pos + w
  BY <1>1, <1>2
<1>4. Filled(b, v, t, w)[r] = IF r \in t .. t + w - 1 THEN v ELSE b[r]
  BY <1>1 DEF Filled
<1> QED BY <1>3, <1>4 DEF r, t

(* A step when all is written already.                                     *)
LEMMA LaidStill ==
    ASSUME NEW x, NEW c, NEW n, Wide(x, c, n), NEW v \in Values, NEW k \in Nat, NEW q, NEW y,
           WriteOn(x, n, k, y), Laid(x, c, v, n, k, q, y), y.left = 0
    PROVE  LET z == WriteSector(v, y)
           IN  z.left = 0 /\ z.h.dirty /\ Laid(x, c, v, n, k + 1, q, z)
<1> DEFINE z == WriteSector(v, y)
           at == x.h.position
           p == ChainFrom(x.d, x.h.entry.first)
           b == Filled(y.h.buffer, v, y.pos, 0)
<1>1. /\ Handled(x) /\ at \in Nat /\ n \in Nat
  BY WideIs DEF Wide
<1>2. /\ y.pos \in Units /\ y.left = Left(at, n, k) /\ y.h.position = (at + n) - y.left
      /\ y.pos = Spot(at, k) % S
  BY DEF WriteOn, Writing
<1>3. S \in Nat /\ S > 0 /\ y.pos \in Nat /\ y.pos < S
  BY <1>2, Constants DEF Units
<1>4. Lesser(y.left, S - y.pos) = 0 /\ y.left <= S - y.pos
  BY <1>3 DEF Lesser
<1>5. /\ WriteOn(x, n, k + 1, z) /\ z.h.buffer = b
      /\ z.d = y.d /\ z.h.dirty
      /\ z.h.currentcluster = y.h.currentcluster /\ z.h.sectorincluster = y.h.sectorincluster
  BY <1>1, <1>4, WriteSectorIs
<1> HIDE DEF z
<1>6. z.left = 0 /\ z.h.position = y.h.position
  <2>1. z.left = Left(at, n, k + 1) /\ z.h.position = (at + n) - z.left
    BY <1>5 DEF WriteOn
  <2>2. Left(at, n, k + 1) = 0
    BY <1>1, <1>2, LeftIs
  <2> HIDE DEF at
  <2> QED BY <1>1, <1>2, <2>1, <2>2
<1>7. /\ q \in Nat /\ q < Len(p) * SPC /\ Cursor(p, y.h, q) /\ y.d.stray = x.d.stray
      /\ q = (at + n - 1) \div S
      /\ \A i \in Nat : Claimed(c, at, y.h.position, q, i) =>
             Unit(y.d, p, y.h, q, i) = Worth(c, at, y.h.position, v, i)
  BY LaidParts
<1>8. \A u \in Units : b[u] = y.h.buffer[u]
  BY <1>3 DEF Filled
<1> HIDE DEF p, at, b
<1>9. \A i \in Nat : Unit(z.d, p, z.h, q, i) = Unit(y.d, p, y.h, q, i)
  <2> SUFFICES ASSUME NEW i \in Nat PROVE Unit(z.d, p, z.h, q, i) = Unit(y.d, p, y.h, q, i)
    OBVIOUS
  <2>1. i % S \in Units
    BY UnitsOf
  <2> QED BY <1>5, <1>8, <2>1 DEF Unit
<1>10. Cursor(p, z.h, q)
  BY <1>5, <1>7 DEF Cursor
<1>11. \A i \in Nat : Claimed(c, at, z.h.position, q, i) =>
             Unit(z.d, p, z.h, q, i) = Worth(c, at, z.h.position, v, i)
  BY <1>6, <1>7, <1>9
<1> QED BY <1>5, <1>6, <1>7, <1>10, <1>11 DEF Laid, z, p, at

(* Where a step is that still has units to write.                          *)
LEMMA LaidAt ==
    ASSUME NEW x, NEW c, NEW n, Wide(x, c, n), NEW v \in Values, NEW k \in Nat, NEW q, NEW y,
           WriteOn(x, n, k, y), Laid(x, c, v, n, k, q, y), y.left > 0
    PROVE  LET p  == ChainFrom(x.d, x.h.entry.first)
               at == x.h.position
           IN  /\ at \in Nat /\ n \in Nat /\ Handled(x)
               /\ y \in Writing /\ y.d.fat = x.d.fat
               /\ y.h.position \in Nat /\ y.h.position = Spot(at, k) /\ at <= y.h.position
               /\ y.h.position < at + n /\ y.left = (at + n) - y.h.position
               /\ y.left = Left(at, n, k)
               /\ y.pos = y.h.position % S /\ y.pos \in Nat /\ y.pos < S
               /\ y.h.position \div S = q /\ q \in 0 .. Len(p) * SPC - 1 /\ q >= at \div S
               /\ y.h.position + (S - y.pos) = Spot(at, k + 1)
               /\ Spot(at, k + 1) = S * (q + 1) /\ Spot(at, k + 1) \in Nat
<1> DEFINE at == x.h.position
           p == ChainFrom(x.d, x.h.entry.first)
           m == Len(p) * SPC
<1>1. /\ at \in Nat /\ n \in Nat /\ Handled(x) /\ m \in Nat
  BY WideIs DEF Wide
<1>2. /\ y \in Writing /\ y.d.fat = x.d.fat /\ y.left = Left(at, n, k)
      /\ y.h.position = (at + n) - y.left /\ y.pos = Spot(at, k) % S
  BY DEF WriteOn
<1>3. q \in Nat /\ q < m /\ q = (at \div S) + k
  BY LaidParts
<1> HIDE DEF at, m
<1>4. Spot(at, k) < at + n /\ y.left = (at + n) - Spot(at, k) /\ (at + n) - y.left = Spot(at, k)
  BY <1>1, <1>2, LeftIs
<1>5. /\ Spot(at, k) \in Nat /\ Spot(at, k) >= at /\ Spot(at, k) \div S = (at \div S) + k
      /\ Spot(at, k) + (S - (Spot(at, k) % S)) = Spot(at, k + 1)
  BY <1>1, SpotIs
<1>6. y.h.position = Spot(at, k)
  BY <1>2, <1>4
<1>7. y.pos \in Nat /\ y.pos < S /\ S \in Nat
  BY <1>2, Constants DEF Writing, Units
<1>8. q \in 0 .. m - 1 /\ q >= at \div S
  <2>1. at \div S \in Nat
    BY <1>1, UnitsOf
  <2> DEFINE a == at \div S
  <2>2. a \in Nat /\ q = a + k
    BY <1>3, <2>1
  <2> HIDE DEF a
  <2>3. q >= a /\ q \in 0 .. m - 1
    BY <1>1, <1>3, <2>2
  <2> QED BY <2>3 DEF a
<1>9. Spot(at, k + 1) = S * (q + 1)
  <2>1. k + 1 # 0 /\ at \div S \in Nat
    BY <1>1, UnitsOf
  <2> DEFINE a == at \div S
  <2>2. a + (k + 1) = q + 1
    <3>1. a \in Nat /\ q = a + k
      BY <1>3, <2>1
    <3> HIDE DEF a
    <3> QED BY <3>1
  <2>3. Spot(at, k + 1) = S * (a + (k + 1))
    BY <2>1 DEF Spot
  <2> HIDE DEF a
  <2> QED BY <2>2, <2>3
<1>10. Spot(at, k + 1) \in Nat
  <2>1. k + 1 \in Nat
    OBVIOUS
  <2> QED BY <1>1, <2>1, SpotIs
<1>11. y.h.position \div S = q
  BY <1>3, <1>5, <1>6
<1>12. y.h.position < at + n /\ y.left = (at + n) - y.h.position /\ at <= y.h.position
       /\ y.h.position \in Nat /\ y.pos = y.h.position % S
       /\ y.h.position + (S - y.pos) = Spot(at, k + 1)
  BY <1>2, <1>4, <1>5, <1>6
<1> HIDE DEF p
<1> QED BY <1>1, <1>2, <1>6, <1>7, <1>8, <1>9, <1>10, <1>11, <1>12 DEF at, p, m

(* The step that writes the last units.                                    *)
LEMMA LaidLast ==
    ASSUME NEW x, NEW c, NEW n, Wide(x, c, n), NEW v \in Values, NEW k \in Nat, NEW q, NEW y,
           WriteOn(x, n, k, y), Laid(x, c, v, n, k, q, y), y.left > 0, y.left <= S - y.pos
    PROVE  LET z == WriteSector(v, y)
           IN  z.left = 0 /\ z.h.dirty /\ Laid(x, c, v, n, k + 1, q, z)
<1> DEFINE z == WriteSector(v, y)
           at == x.h.position
           p == ChainFrom(x.d, x.h.entry.first)
           w == y.left
           pos == y.h.position
           b == Filled(y.h.buffer, v, y.pos, w)
<1>1. /\ at \in Nat /\ n \in Nat /\ Handled(x)
      /\ pos \in Nat /\ at <= pos /\ pos < at + n /\ w = (at + n) - pos
      /\ w = Left(at, n, k) /\ pos = Spot(at, k)
      /\ y.pos = pos % S /\ y.pos \in Nat /\ y.pos < S /\ pos \div S = q
      /\ q >= at \div S
  BY LaidAt
<1>2. w \in Nat /\ w > 0 /\ w <= S - y.pos /\ S \in Nat
  <2>1. w > 0 /\ w <= S - y.pos
    OBVIOUS
  <2> HIDE DEF at, pos, w, z, b, p
  <2> QED BY <1>1, <2>1, Constants
<1>3. Lesser(w, S - y.pos) = w
  <2>1. y.pos \in Nat
    BY <1>1
  <2> HIDE DEF at, pos, w, z, b, p
  <2> QED BY <1>2, <2>1 DEF Lesser
<1>4. /\ WriteOn(x, n, k + 1, z) /\ z.h.buffer = b
      /\ z.d = y.d /\ z.h.dirty
      /\ z.h.currentcluster = y.h.currentcluster /\ z.h.sectorincluster = y.h.sectorincluster
  BY <1>1, <1>2, <1>3, WriteSectorIs
<1> HIDE DEF z
<1>5. z.left = 0 /\ z.h.position = at + n
  <2>1. z.left = Left(at, n, k + 1) /\ z.h.position = (at + n) - z.left
    BY <1>4 DEF WriteOn
  <2>2. Left(at, n, k) <= S - (Spot(at, k) % S)
    BY <1>1, <1>2
  <2> HIDE DEF at, b, p
  <2>3. Left(at, n, k + 1) = 0
    BY <1>1, <2>2, LeftIs
  <2> QED BY <1>1, <2>1, <2>3
<1>6. /\ q \in Nat /\ q < Len(p) * SPC /\ Cursor(p, y.h, q) /\ y.d.stray = x.d.stray
      /\ \A i \in Nat : Claimed(c, at, pos, q, i) =>
             Unit(y.d, p, y.h, q, i) = Worth(c, at, pos, v, i)
  BY LaidParts
<1> HIDE DEF p, at, pos, w
<1>7. at + n = pos + w
  BY <1>1, <1>2
<1>8. q = (at + n - 1) \div S
  <2>1. w - 1 \in Nat /\ (pos % S) + (w - 1) < S /\ pos + (w - 1) = at + n - 1
    <3> DEFINE r == pos % S
    <3>1. r = y.pos
      BY <1>1
    <3> HIDE DEF r
    <3>2. w - 1 \in Nat /\ r + (w - 1) < S /\ pos + (w - 1) = at + n - 1
      BY <1>1, <1>2, <1>7, <3>1
    <3> QED BY <3>2 DEF r
  <2>2. (pos + (w - 1)) \div S = pos \div S
    BY <1>1, <2>1, UnitIn
  <2> QED BY <1>1, <2>1, <2>2
<1>9. ASSUME NEW i \in Nat, Claimed(c, at, at + n, q, i)
      PROVE  Unit(z.d, p, z.h, q, i) = Worth(c, at, at + n, v, i)
  <2>1. /\ i < Len(c) \/ (at <= i /\ i < at + n)
        /\ i \div S = q /\ q > at \div S => i < at + n
    BY <1>9 DEF Claimed
  <2>2. CASE pos <= i /\ i < at + n
    <3>1. i \div S = q
      <4>1. at + n <= S * ((pos \div S) + 1)
        <5>1. at + n - 1 \in Nat /\ (at + n - 1) \div S = pos \div S
          BY <1>1, <1>8
        <5> DEFINE j == at + n - 1
        <5>2. j \in Nat /\ j \div S = pos \div S
          BY <5>1
        <5> HIDE DEF j
        <5>3. j < S * ((pos \div S) + 1)
          BY <1>1, <5>2, SameSector
        <5> DEFINE t == S * ((pos \div S) + 1)
        <5>4. t \in Nat
          BY <1>1, <1>2, UnitsOf
        <5> HIDE DEF t
        <5>5. at + n <= t
          BY <1>1, <5>3, <5>4 DEF j, t
        <5> QED BY <5>5 DEF t
      <4>2. i < S * ((pos \div S) + 1)
        <5> DEFINE t == S * ((pos \div S) + 1)
        <5>0. (pos \div S) + 1 \in Nat
          BY <1>1, UnitsOf
        <5>1. t \in Nat /\ at + n <= t
          <6> DEFINE a == (pos \div S) + 1
          <6>1. at + n <= S * a /\ a \in Nat
            BY <4>1, <5>0
          <6> HIDE DEF a
          <6>2. S * a \in Nat
            BY <1>2, <6>1
          <6> QED BY <6>1, <6>2 DEF a
        <5> HIDE DEF t
        <5>2. i < t
          BY <1>1, <2>2, <5>1
        <5> QED BY <5>2 DEF t
      <4> QED BY <1>1, <2>2, <4>2, SameSector
    <3>2. b[i % S] = v
      BY <1>1, <1>2, <1>7, <2>2, <3>1, FilledUnit DEF pos, w
    <3>3. at <= i
      BY <1>1, <2>2
    <3> HIDE DEF b
    <3> QED BY <1>4, <2>2, <3>1, <3>2, <3>3 DEF Unit, Worth
  <2>3. CASE ~ (pos <= i /\ i < at + n)
    <3>1. Claimed(c, at, pos, q, i)
      <4>1. i < Len(c) \/ (at <= i /\ i < pos)
        BY <1>1, <2>1, <2>3
      <4>2. i \div S = q /\ q > at \div S => i < pos
        BY <1>1, <2>1, <2>3
      <4> QED BY <4>1, <4>2 DEF Claimed
    <3>2. Unit(y.d, p, y.h, q, i) = Worth(c, at, pos, v, i)
      BY <1>6, <3>1
    <3>3. Worth(c, at, at + n, v, i) = Worth(c, at, pos, v, i)
      BY <1>1, <2>3 DEF Worth
    <3>4. i \div S = q => b[i % S] = y.h.buffer[i % S]
      BY <1>1, <1>2, <1>7, <2>3, FilledUnit DEF pos, w
    <3>5. Unit(z.d, p, z.h, q, i) = Unit(y.d, p, y.h, q, i)
      <4> HIDE DEF b
      <4> QED BY <1>4, <3>4 DEF Unit
    <3> QED BY <3>2, <3>3, <3>5
  <2> QED BY <2>2, <2>3
<1>10. Cursor(p, z.h, q)
  BY <1>4, <1>6 DEF Cursor
<1>11. z.d.stray = x.d.stray
  BY <1>4, <1>6
<1> QED BY <1>4, <1>5, <1>6, <1>8, <1>9, <1>10, <1>11 DEF Laid, z, p, at

(* The step that fills a sector and goes on to the next one.               *)
LEMMA LaidOn ==
    ASSUME NEW x, NEW c, NEW n, Wide(x, c, n), NEW v \in Values, NEW k \in Nat, NEW q, NEW y,
           WriteOn(x, n, k, y), Laid(x, c, v, n, k, q, y), y.left > S - y.pos
    PROVE  LET z == WriteSector(v, y)
           IN  z.left > 0 /\ Laid(x, c, v, n, k + 1, q + 1, z)
<1> DEFINE z == WriteSector(v, y)
           at == x.h.position
           p == ChainFrom(x.d, x.h.entry.first)
           w == S - y.pos
           pos == y.h.position
           b == Filled(y.h.buffer, v, y.pos, w)
           g == NextSector(y.d, y.h)
           m == Len(p) * SPC
           to == Spot(at, k + 1)
<1>0. y.left > 0
  <2>1. y.left \in Nat /\ y.pos \in Units
    BY DEF WriteOn, Writing
  <2> QED BY <2>1, Constants DEF Units
<1>1. /\ at \in Nat /\ n \in Nat /\ Handled(x)
      /\ y \in Writing /\ y.d.fat = x.d.fat
      /\ pos \in Nat /\ pos = Spot(at, k) /\ at <= pos /\ pos < at + n /\ y.left = (at + n) - pos
      /\ y.left = Left(at, n, k)
      /\ y.pos = pos % S /\ y.pos \in Nat /\ y.pos < S
      /\ pos \div S = q /\ q \in 0 .. m - 1 /\ q >= at \div S
      /\ pos + w = to /\ to = S * (q + 1) /\ to \in Nat
  BY <1>0, LaidAt
<1>2. w \in Nat /\ w > 0 /\ S \in Nat /\ S > 0 /\ Lesser(y.left, w) = w
  <2>1. y.left > w /\ y.pos \in Nat /\ y.pos < S /\ y.left \in Nat
    BY <1>1 DEF Writing
  <2>2. w \in Nat /\ w > 0
    BY <2>1, Constants
  <2> HIDE DEF w
  <2>3. Lesser(y.left, w) = w
    BY <2>1, <2>2 DEF Lesser
  <2> QED BY <2>2, <2>3, Constants
<1>3. /\ WriteOn(x, n, k + 1, z) /\ z.h.buffer = b
      /\ z.d = fatwritesector(y.d, y.h.currentcluster, y.h.sectorincluster, b)
      /\ z.h.currentcluster = g.currentcluster /\ z.h.sectorincluster = g.sectorincluster
  <2> DEFINE b0 == Filled(y.h.buffer, v, y.pos, Lesser(y.left, S - y.pos))
  <2>1. b0 = b
    BY <1>2
  <2> HIDE DEF b
  <2>2. /\ WriteOn(x, n, k + 1, z) /\ z.h.buffer = b0
        /\ z.d = fatwritesector(y.d, y.h.currentcluster, y.h.sectorincluster, b0)
        /\ z.h.currentcluster = g.currentcluster /\ z.h.sectorincluster = g.sectorincluster
    BY <1>1, WriteSectorIs
  <2> QED BY <2>1, <2>2
<1>4. /\ q \in Nat /\ q < m /\ Cursor(p, y.h, q) /\ y.d.stray = x.d.stray
      /\ \A i \in Nat : Claimed(c, at, pos, q, i) =>
             Unit(y.d, p, y.h, q, i) = Worth(c, at, pos, v, i)
  BY LaidParts
<1>5. /\ y.d \in Disks /\ y.d.fat \in Tables /\ y.h \in Opened /\ y.h.buffer \in Buffers
      /\ Path(y.d.fat, p)
  <2>1. Path(x.d.fat, p)
    BY WideIs
  <2> QED BY <1>1, <2>1 DEF Writing, Disks, Opened
<1>6. b \in Buffers
  BY <1>5, FilledIs
<1> HIDE DEF z
<1>7. z.left > 0 /\ z.h.position = to
  <2>1. z.left = Left(at, n, k + 1) /\ z.h.position = (at + n) - z.left
    BY <1>3 DEF WriteOn
  <2>2. Left(at, n, k) > S - (Spot(at, k) % S)
    <3>1. y.left = Left(at, n, k) /\ y.pos = Spot(at, k) % S
      BY <1>1
    <3> QED BY <3>1
  <2>3. Spot(at, k + 1) < at + n /\ Left(at, n, k + 1) = (at + n) - Spot(at, k + 1)
    <3>1. at \in Nat
      BY <1>1
    <3> HIDE DEF at, to, m
    <3> QED BY <1>1, <2>2, <3>1, LeftIs
  <2>4. to < at + n /\ z.left = (at + n) - to
    BY <2>1, <2>3
  <2> HIDE DEF at, to, m
  <2> QED BY <1>1, <2>1, <2>4
<1>8. to < at + n
  <2>1. Spot(at, k + 1) < at + n
    <3>1. Left(at, n, k) > S - (Spot(at, k) % S)
      BY <1>1
    <3> QED BY <1>1, <3>1, LeftIs
  <2> QED BY <2>1
<1> HIDE DEF p, at, pos, w, b, g, to
<1>15. ASSUME NEW i \in Nat, i \div S = pos \div S
       PROVE  b[i % S] = IF pos <= i /\ i < pos + w THEN v ELSE y.h.buffer[i % S]
  <2>1. b = Filled(y.h.buffer, v, pos % S, w)
    BY <1>1 DEF b
  <2>2. pos \in Nat /\ w \in Nat
    BY <1>1, <1>2
  <2> DEFINE old == y.h.buffer
  <2> HIDE DEF old
  <2>3. Filled(old, v, pos % S, w)[i % S] = IF pos <= i /\ i < pos + w THEN v ELSE old[i % S]
    BY <1>15, <2>2, FilledUnit
  <2> QED BY <2>1, <2>3 DEF old
<1>9. q + 1 < m /\ q + 1 \in Nat
  <2>1. to \div S < m
    <3>1. to \in Nat /\ (to < Len(c) \/ to < at + n)
      BY <1>1, <1>8
    <3> QED BY <3>1, WideIs DEF p, at
  <2>2. to \div S = q + 1
    <3>1. q + 1 \in Nat
      BY <1>4
    <3> DEFINE r == q + 1
    <3>2. r \in Nat /\ to = S * r
      BY <1>1, <3>1
    <3> HIDE DEF r
    <3>3. (S * r) \div S = r
      BY <1>2, <3>2
    <3> QED BY <3>2, <3>3 DEF r
  <2> HIDE DEF m
  <2> QED BY <1>4, <2>1, <2>2
<1>10. Cursor(p, z.h, q + 1)
  <2>1. Cursor(p, g, q + 1)
    BY <1>1, <1>4, <1>5, CursorNext DEF g
  <2> QED BY <1>3, <2>1 DEF Cursor
<1>11. /\ z.d.stray = x.d.stray /\ Sector(z.d, p, q) = b
       /\ \A r \in 0 .. m - 1 : r # q => Sector(z.d, p, r) = Sector(y.d, p, r)
  <2> DEFINE e == fatwritesector(y.d, p[(q \div SPC) + 1], q % SPC, b)
  <2>1. z.d = e
    BY <1>3, <1>4 DEF Cursor
  <2>2. y.d \in Disks /\ Path(y.d.fat, p) /\ q \in 0 .. Len(p) * SPC - 1 /\ b \in Buffers
    BY <1>1, <1>4, <1>5, <1>6
  <2>3. /\ e.stray = y.d.stray /\ Sector(e, p, q) = b
        /\ \A r \in 0 .. Len(p) * SPC - 1 : r # q => Sector(e, p, r) = Sector(y.d, p, r)
    BY ONLY <2>2, SectorWritten
  <2> HIDE DEF e
  <2> QED BY <1>4, <2>1, <2>3
<1>12. ASSUME NEW i \in Nat, Claimed(c, at, to, q + 1, i)
       PROVE  Unit(z.d, p, z.h, q + 1, i) = Worth(c, at, to, v, i)
  <2> DEFINE s == i \div S
             a == at \div S
  <2>1. s \in Nat /\ a \in Nat /\ i % S \in Units
    BY <1>1, UnitsOf
  <2>2. /\ i < Len(c) \/ (at <= i /\ i < to)
        /\ s = q + 1 /\ q + 1 > a => i < to
    BY <1>12 DEF Claimed
  <2>3. i < to => s < q + 1
    BY <1>1, SameSector
  <2>4. s # q + 1
    <3> HIDE DEF s, a
    <3>1. q >= a
      BY <1>1 DEF a
    <3> QED BY <1>4, <2>1, <2>2, <2>3, <3>1
  <2>5. Unit(z.d, p, z.h, q + 1, i) = Sector(z.d, p, s)[i % S]
    BY <2>4 DEF Unit
  <2>6. pos <= i /\ i < to => s = q
    <3>1. pos <= i /\ i < S * ((pos \div S) + 1) => i \div S = pos \div S
      BY <1>1, SameSector
    <3>2. S * ((pos \div S) + 1) = to
      BY <1>1
    <3> QED BY <1>1, <3>1, <3>2
  <2>7. s = q => i < to
    <3>1. i \div S = pos \div S => i < S * ((pos \div S) + 1)
      BY <1>1, SameSector
    <3> QED BY <1>1, <3>1
  <2>8. pos <= to
    BY <1>1, <1>2
  <2>9. CASE s = q /\ pos <= i
    <3>1. i \div S = pos \div S
      BY <1>1, <2>9
    <3>2. b[i % S] = IF pos <= i /\ i < pos + w THEN v ELSE y.h.buffer[i % S]
      BY <1>15, <3>1
    <3>3. b[i % S] = v
      BY <1>1, <2>7, <2>9, <3>2
    <3>4. at <= i /\ i < to
      BY <1>1, <2>7, <2>9
    <3> HIDE DEF s
    <3> QED BY <1>11, <2>5, <2>9, <3>3, <3>4 DEF Worth
  <2>10. CASE s # q \/ i < pos
    <3>1. i < pos \/ ~ (i < to)
      BY <1>1, <2>6, <2>10
    <3>2. Claimed(c, at, pos, q, i)
      <4>1. i < Len(c) \/ (at <= i /\ i < pos)
        BY <2>2, <3>1
      <4>2. s = q => i < pos
        BY <2>10
      <4> QED BY <4>1, <4>2 DEF Claimed
    <3>3. Unit(y.d, p, y.h, q, i) = Worth(c, at, pos, v, i)
      BY <1>4, <3>2
    <3>4. Worth(c, at, to, v, i) = Worth(c, at, pos, v, i)
      <4>1. i < pos <=> i < to
        BY <1>1, <2>8, <3>1
      <4> QED BY <4>1 DEF Worth
    <3>5. Sector(z.d, p, s)[i % S] = Unit(y.d, p, y.h, q, i)
      <4>1. CASE s = q
        <5>1. i < pos /\ i \div S = pos \div S
          BY <1>1, <2>10, <4>1
        <5>2. b[i % S] = IF pos <= i /\ i < pos + w THEN v ELSE y.h.buffer[i % S]
          BY <1>15, <5>1
        <5>3. b[i % S] = y.h.buffer[i % S]
          BY <1>1, <5>1, <5>2
        <5> QED BY <1>11, <4>1, <5>3 DEF Unit
      <4>2. CASE s # q
        <5>1. s \in 0 .. m - 1
          <6>1. i < Len(c) \/ i < at + n
            BY <1>1, <1>8, <2>2
          <6> QED BY <6>1, WideIs DEF p, at
        <5> QED BY <1>11, <4>2, <5>1 DEF Unit
      <4> QED BY <4>1, <4>2
    <3> QED BY <2>5, <3>3, <3>4, <3>5
  <2>11. (s = q /\ pos <= i) \/ s # q \/ i < pos
    BY <1>1
  <2> QED BY <2>9, <2>10, <2>11
<1>13. /\ z.left > 0 => q + 1 = (at \div S) + (k + 1)
       /\ z.left = 0 => q + 1 = (at + n - 1) \div S
  <2>1. q = (at \div S) + k
    BY <1>0, LaidParts DEF at
  <2>2. at \div S \in Nat
    BY <1>1, UnitsOf
  <2> DEFINE a == at \div S
  <2>3. q = a + k /\ a \in Nat
    BY <2>1, <2>2
  <2> HIDE DEF a
  <2>4. q + 1 = a + (k + 1)
    BY <2>3
  <2> QED BY <1>7, <2>4 DEF a
<1>14. \A i \in Nat : Claimed(c, at, z.h.position, q + 1, i) =>
             Unit(z.d, p, z.h, q + 1, i) = Worth(c, at, z.h.position, v, i)
  BY <1>7, <1>12
<1> QED BY <1>7, <1>9, <1>10, <1>11, <1>13, <1>14 DEF Laid, z, p, at, m

(* The sector that the last unit written is in.                            *)
LEMMA LastSector ==
    ASSUME NEW t \in Nat, t > 0
    PROVE  /\ (t - 1) \div S = IF t % S = 0 THEN (t \div S) - 1 ELSE t \div S
           /\ t % S = 0 => t = S * (t \div S)
<1> DEFINE a == t \div S
           r == t % S
<1>1. a \in Nat /\ r \in Nat /\ t = S * a + r /\ r < S /\ S \in Nat /\ S > 0
  BY UnitsOf, Constants
<1> HIDE DEF a, r
<1>2. CASE r = 0
  <2>1. t - 1 = S * (a - 1) + (S - 1) /\ a - 1 \in Int
    <3>1. S * (a - 1) = S * a - S
      BY <1>1
    <3> DEFINE sa == S * a
    <3>2. sa \in Nat /\ S * (a - 1) = sa - S /\ t = sa + r
      BY <1>1, <3>1
    <3> HIDE DEF sa
    <3> QED BY <1>1, <1>2, <3>2
  <2>2. S - 1 \in 0 .. S - 1 /\ t - 1 \in Int
    BY <1>1
  <2> DEFINE u == t - 1
             b == a - 1
             s == S - 1
  <2>3. u = S * b + s /\ b \in Int /\ s \in 0 .. S - 1 /\ u \in Int
    BY <2>1, <2>2
  <2> HIDE DEF u, b, s
  <2>4. u \div S = b
    BY <1>1, <2>3, Division
  <2> QED BY <1>1, <1>2, <2>4 DEF u, b, a, r
<1>3. CASE r # 0
  <2> DEFINE u == t - 1
             s == r - 1
             sa == S * a
  <2>1. sa \in Nat /\ t = sa + r
    BY <1>1
  <2> HIDE DEF sa
  <2>2. u = sa + s /\ s \in 0 .. S - 1 /\ u \in Int
    BY <1>1, <1>3, <2>1
  <2>3. u = S * a + s
    BY <2>2 DEF sa
  <2> HIDE DEF u, s
  <2>4. u \div S = a
    BY <1>1, <2>2, <2>3, Division
  <2> QED BY <1>3, <2>4 DEF u, a, r
<1>4. r = 0 => t = S * a
  <2> DEFINE sa == S * a
  <2>1. sa \in Nat /\ t = sa + r
    BY <1>1
  <2> HIDE DEF sa
  <2>2. r = 0 => t = sa
    BY <2>1
  <2> QED BY <2>2 DEF sa
<1> QED BY <1>2, <1>3, <1>4 DEF a, r

(* One round of writing, and all of them.                                  *)
LEMMA LaidNext ==
    ASSUME NEW x, NEW c, NEW n, Wide(x, c, n), NEW v \in Values, NEW k \in Nat, NEW q, NEW y,
           WriteOn(x, n, k, y), Laid(x, c, v, n, k, q, y)
    PROVE  LET z == WriteSector(v, y)
           IN  \E r : Laid(x, c, v, n, k + 1, r, z) /\ (z.left = 0 => z.h.dirty)
<1> DEFINE z == WriteSector(v, y)
<1>1. y.left \in Nat /\ y.pos \in Nat /\ S - y.pos \in Nat
  <2>1. y.left \in Nat /\ y.pos \in Units
    BY DEF WriteOn, Writing
  <2> QED BY <2>1, Constants DEF Units
<1> HIDE DEF z
<1>2. CASE y.left = 0
  BY <1>2, LaidStill DEF z
<1>3. CASE y.left > 0 /\ y.left <= S - y.pos
  BY <1>3, LaidLast DEF z
<1>4. CASE y.left > S - y.pos
  <2>1. z.left > 0 /\ Laid(x, c, v, n, k + 1, q + 1, z)
    BY <1>4, LaidOn DEF z
  <2> QED BY <2>1 DEF z
<1> QED BY <1>1, <1>2, <1>3, <1>4

LEMMA LaidAll ==
    ASSUME NEW x, NEW c, NEW n, Wide(x, c, n), NEW v \in Values,
           Laid(x, c, v, n, 0, x.h.position \div S,
                [d |-> x.d, h |-> x.h, left |-> n, pos |-> x.h.position % S])
    PROVE  LET K   == FullSectors(x.h, n) + 1
               end == WriteLoop(x, v, n)[K]
           IN  /\ end.left = 0 /\ end.h.dirty /\ WriteOn(x, n, K, end)
               /\ \E q : Laid(x, c, v, n, K, q, end)
<1> DEFINE K == FullSectors(x.h, n) + 1
           run == WriteLoop(x, v, n)
           T == {k \in 0 .. K : \E q : Laid(x, c, v, n, k, q, run[k]) /\ (run[k].left = 0 => run[k].h.dirty)}
<1>1. Handled(x) /\ n \in Nat /\ n > 0
  BY DEF Wide
<1>2. /\ K \in Nat /\ K > 0
      /\ run[0] = [d |-> x.d, h |-> x.h, left |-> n, pos |-> x.h.position % S]
      /\ \A k \in 1 .. K : run[k] = WriteSector(v, run[k - 1])
      /\ \A k \in 0 .. K : WriteOn(x, n, k, run[k])
      /\ run[K].left = 0
  BY <1>1, WriteLoopIs
<1> HIDE DEF K, run
<1>3. 0 \in T
  <2>1. run[0].left = n /\ ~ (n = 0)
    BY <1>1, <1>2
  <2>2. Laid(x, c, v, n, 0, x.h.position \div S, run[0])
    BY <1>2
  <2>3. 0 \in 0 .. K
    BY <1>2
  <2> QED BY <2>1, <2>2, <2>3
<1>4. ASSUME NEW k \in 0 .. K - 1, k \in T PROVE k + 1 \in T
  <2>1. k \in Nat /\ k \in 0 .. K /\ k + 1 \in 1 .. K /\ k + 1 \in 0 .. K /\ (k + 1) - 1 = k
    BY <1>2
  <2>2. PICK q : Laid(x, c, v, n, k, q, run[k])
    BY <1>4
  <2>3. WriteOn(x, n, k, run[k]) /\ run[k + 1] = WriteSector(v, run[k])
    BY <1>2, <2>1
  <2> DEFINE z == WriteSector(v, run[k])
  <2>4. \E r : Laid(x, c, v, n, k + 1, r, z) /\ (z.left = 0 => z.h.dirty)
    BY <2>1, <2>2, <2>3, LaidNext
  <2>5. run[k + 1] = z
    BY <2>3
  <2> HIDE DEF z
  <2> QED BY <2>1, <2>4, <2>5
<1>5. \A k \in 0 .. K : k \in T
  <2> HIDE DEF T
  <2> QED BY <1>2, <1>3, <1>4, Induction
<1>6. K \in 0 .. K
  BY <1>2
<1>7. /\ \E q : Laid(x, c, v, n, K, q, run[K]) /\ (run[K].left = 0 => run[K].h.dirty)
      /\ WriteOn(x, n, K, run[K])
  BY <1>2, <1>5, <1>6
<1> QED BY <1>2, <1>7 DEF K, run

(* A write that the code does not support, see Spoils.                     *)
Amiss(c, s, at, n) ==
    \/ s = "full"
    \/ s = "reading" /\ at > 0 /\ at = Len(c) /\ at % PerCluster = 0
    \/ /\ at \div S # (at + n) \div S
       /\ (at + n) % S # 0 /\ at + n < Len(c)

(* What an honest handle has.                                              *)
LEMMA HonestParts ==
    ASSUME NEW d, NEW h, NEW c, NEW s, Honest(d, h, c, s)
    PROVE  LET p == ChainFrom(d, h.entry.first)
           IN  /\ h.entry.size = Len(c) /\ Cursor(p, h, At(h, s))
               /\ \A i \in 0 .. Len(c) - 1 : c[i + 1] = Unit(d, p, h, At(h, s), i)
               /\ s # "full" => At(h, s) = h.position \div S
               /\ s # "reading" => h.dirty /\ At(h, s) < Len(p) * SPC
               /\ s = "reading" => ~h.dirty
  BY DEF Honest, View, At

(* A supported write begins in a sector of the file.                       *)
LEMMA WriteWithin ==
    ASSUME NEW d, NEW h, NEW c, Fits(d, h, c), NEW s, Honest(d, h, c, s), NEW n, h.position <= Len(c),
           ~ Amiss(c, s, h.position, n)
    PROVE  LET p == ChainFrom(d, h.entry.first)
               q == h.position \div S
           IN  /\ s # "full" /\ q \in Nat /\ q < Len(p) * SPC
               /\ h.currentcluster = p[(q \div SPC) + 1] /\ h.sectorincluster = q % SPC
               /\ q \div SPC < Len(p) /\ q \div SPC \in Nat
<1> DEFINE p == ChainFrom(d, h.entry.first)
           L == Len(p)
           q == h.position \div S
           m == L * SPC
           at == h.position
<1>1. s # "full"
  BY DEF Amiss
<1>2. /\ Cursor(p, h, q)
      /\ s # "reading" => q < m
  BY <1>1, HonestParts
<1>3. /\ at \in Nat /\ L \in Nat /\ m \in Nat /\ m > 0 /\ Len(c) \in Nat /\ Len(c) <= L * PerCluster
      /\ at <= Len(c)
  BY FitsIs
<1> HIDE DEF p, L, at, m
<1>4. q \in Nat /\ q <= m
  <2> DEFINE b == L * PerCluster
  <2>1. b \in Nat /\ (at <= b => q <= m) /\ q \in Nat
    BY <1>3, UnitsWithin, UnitsOf DEF m, at
  <2>2. Len(c) <= b
    BY <1>3
  <2> HIDE DEF b, q
  <2> QED BY <1>3, <2>1, <2>2
<1>5. q # m
  <2> SUFFICES ASSUME q = m PROVE FALSE
    OBVIOUS
  <2>1. s = "reading"
    <3> HIDE DEF q
    <3> QED BY <1>2, <1>3, <1>4
  <2> DEFINE b == L * PerCluster
  <2>2. b \in Nat /\ (at <= b => at = b) /\ b % PerCluster = 0 /\ Len(c) <= b
    <3>1. b \in Nat /\ (at <= b /\ at \div S = L * SPC => at = b)
      BY <1>3, UnitsWithin
    <3>2. at \div S = L * SPC
      BY DEF at, m
    <3>3. b % PerCluster = 0
      BY <1>3, WholeClusters
    <3> QED BY <1>3, <3>1, <3>2, <3>3
  <2>3. at = b /\ at = Len(c)
    <3> HIDE DEF b
    <3> QED BY <1>3, <2>2
  <2>4. at % PerCluster = 0
    BY <2>2, <2>3
  <2>5. at > 0
    <3> SUFFICES ASSUME at = 0 PROVE FALSE
      BY <1>3
    <3>1. at \div S = 0
      BY Constants
    <3> QED BY <1>3, <3>1 DEF at
  <2> QED BY <2>1, <2>3, <2>4, <2>5 DEF Amiss, at
<1>6. q < m
  <2> HIDE DEF q
  <2> QED BY <1>3, <1>4, <1>5
<1>7. h.currentcluster = p[(q \div SPC) + 1] /\ h.sectorincluster = q % SPC
  BY <1>2, <1>6 DEF Cursor, m, L
<1>8. q \div SPC < L /\ q \div SPC \in Nat
  BY <1>3, <1>4, <1>6, SectorsOf DEF m
<1> QED BY <1>1, <1>4, <1>6, <1>7, <1>8 DEF p, L, m

(* Before the first round, after the file has been made longer.            *)
LEMMA LaidFirst ==
    ASSUME NEW x, Handled(x), NEW c, Fits(x.d, x.h, c), NEW s, Honest(x.d, x.h, c, s),
           x.h.position <= Len(c), x.h.totalclusters = Len(ChainFrom(x.d, x.h.entry.first)),
           NEW v \in Values, NEW n \in Nat, n > 0, Roomy(x, x.h.position + n),
           ~ Amiss(c, s, x.h.position, n)
    PROVE  LET y == Lengthened(x, n)
           IN  /\ Wide(y, c, n)
               /\ Laid(y, c, v, n, 0, y.h.position \div S,
                       [d |-> y.d, h |-> y.h, left |-> n, pos |-> y.h.position % S])
<1> DEFINE y == Lengthened(x, n)
           a == x.h.entry.first
           p == ChainFrom(x.d, a)
           r == ChainFrom(y.d, a)
           L == Len(p)
           M == Len(r)
           at == x.h.position
           q == at \div S
           y0 == [d |-> y.d, h |-> y.h, left |-> n, pos |-> y.h.position % S]
<1>1. /\ Moved(x, y) /\ y.d.data = x.d.data /\ y.d.stray = x.d.stray
      /\ y.h.position = at /\ y.h.currentcluster = x.h.currentcluster
      /\ y.h.sectorincluster = x.h.sectorincluster /\ y.h.buffer = x.h.buffer
      /\ at + n <= Capacity(y.h)
      /\ M - L = y.h.totalclusters - x.h.totalclusters
      /\ M >= L /\ \A j \in 1 .. L : r[j] = p[j]
  <2> HIDE DEF y
  <2> QED BY LengthenedIs DEF y
<1>2. /\ s # "full" /\ q \in Nat /\ q < L * SPC
      /\ x.h.currentcluster = p[(q \div SPC) + 1] /\ x.h.sectorincluster = q % SPC
      /\ q \div SPC < L /\ q \div SPC \in Nat
  BY WriteWithin
<1>3. /\ at \in Nat /\ Len(c) \in Nat /\ c \in Seq(Values) /\ L \in Nat /\ L * SPC \in Nat
      /\ Len(c) <= L * PerCluster
      /\ \A i \in 0 .. Len(c) - 1 : i \div S \in 0 .. L * SPC - 1 /\ i \in Nat
  BY FitsIs
<1> HIDE DEF y, a, p, r, L, M, at
<1>4. Handled(y) /\ y.h.entry.first = a
  BY <1>1 DEF Moved, a
<1>5. HasChain(y.d, a) /\ y.d \in Disks /\ y.h \in Opened /\ M \in Nat /\ y.h.totalclusters \in Nat
  <2>1. HasChain(y.d, a) /\ y.d \in Disks /\ y.h \in Opened /\ y.h.totalclusters \in Nat
    BY <1>4, HandleParts
  <2> QED BY <2>1, ChainParts DEF r, M
<1>6. L * PerCluster <= M * PerCluster /\ L * SPC <= M * SPC /\ M * PerCluster \in Nat
      /\ L * PerCluster \in Nat /\ M * SPC \in Nat
  <2>1. L <= M /\ L \in Nat /\ M \in Nat
    BY <1>1, <1>3, <1>5
  <2>2. PICK k \in Nat : M = L + k
    <3>1. M - L \in Nat /\ M = L + (M - L)
      BY <2>1
    <3> QED BY <3>1
  <2>3. ASSUME NEW b \in Nat PROVE L * b <= M * b /\ M * b \in Nat /\ L * b \in Nat
    <3>1. M * b = L * b + k * b /\ k * b \in Nat /\ L * b \in Nat
      BY <2>1, <2>2
    <3> DEFINE u == L * b
               w == k * b
    <3>2. M * b = u + w /\ u \in Nat /\ w \in Nat
      BY <3>1
    <3> HIDE DEF u, w
    <3>3. u <= M * b /\ M * b \in Nat
      BY <3>2
    <3> QED BY <3>2, <3>3 DEF u
  <2> QED BY <2>3, Constants
<1>7. at + n <= M * PerCluster
  <2>1. x.h.totalclusters = L
    BY DEF L, p, a
  <2>2. y.h.totalclusters = M
    BY <1>1, <1>3, <1>5, <2>1
  <2> QED BY <1>1, <2>2 DEF Capacity
<1>8. Len(c) <= M * PerCluster
  <2> DEFINE b == M * PerCluster
             e == L * PerCluster
  <2>1. e <= b /\ b \in Nat /\ e \in Nat /\ Len(c) <= e
    BY <1>3, <1>6
  <2> HIDE DEF b, e
  <2>2. Len(c) <= b
    BY <1>3, <2>1
  <2> QED BY <2>2 DEF b
<1>9. Wide(y, c, n)
  <2>1. Fits(y.d, y.h, c)
    BY <1>3, <1>4, <1>5, <1>8 DEF Fits, r, M
  <2>2. at <= Len(c)
    BY DEF at
  <2> QED BY <1>1, <1>4, <1>7, <2>1, <2>2 DEF Wide, r, M
<1>10. q < M * SPC
  <2> DEFINE b == M * SPC
             e == L * SPC
  <2>1. e <= b /\ b \in Nat /\ e \in Nat /\ q < e /\ q \in Nat
    BY <1>2, <1>3, <1>6
  <2> HIDE DEF b, e, q
  <2>2. q < b
    BY <2>1
  <2> QED BY <2>2 DEF b
<1>11. \A t \in Nat : t \div SPC < L /\ t \div SPC \in Nat => r[(t \div SPC) + 1] = p[(t \div SPC) + 1]
  <2> SUFFICES ASSUME NEW t \in Nat, t \div SPC < L, t \div SPC \in Nat
               PROVE  r[(t \div SPC) + 1] = p[(t \div SPC) + 1]
    OBVIOUS
  <2> DEFINE u == t \div SPC
  <2>1. u \in Nat /\ u < L
    OBVIOUS
  <2> HIDE DEF u
  <2>2. u + 1 \in 1 .. L
    BY <1>3, <2>1
  <2>3. r[u + 1] = p[u + 1]
    BY <1>1, <2>2
  <2> QED BY <2>3 DEF u
<1>12. Cursor(r, y.h, q)
  <2>1. q \in 0 .. M * SPC
    <3> DEFINE b == M * SPC
    <3>1. q \in Nat /\ b \in Nat /\ q < b
      BY <1>2, <1>6, <1>10
    <3> HIDE DEF q, b
    <3>2. q \in 0 .. b
      BY <3>1
    <3> QED BY <3>2 DEF b
  <2>2. r[(q \div SPC) + 1] = p[(q \div SPC) + 1]
    BY <1>2, <1>11
  <2> HIDE DEF q
  <2> QED BY <1>1, <1>2, <1>10, <2>1, <2>2 DEF Cursor, M
<1>13. ASSUME NEW i \in Nat, Claimed(c, at, at, q, i)
       PROVE  Unit(y.d, r, y.h, q, i) = Worth(c, at, at, v, i)
  <2>1. i < Len(c) /\ ~ (at <= i /\ i < at)
    BY <1>3, <1>13 DEF Claimed
  <2>2. i \in 0 .. Len(c) - 1
    BY <1>3, <2>1
  <2>3. c[i + 1] = Unit(x.d, p, x.h, q, i)
    <3>1. \A j \in 0 .. Len(c) - 1 : c[j + 1] = Unit(x.d, p, x.h, At(x.h, s), j)
      BY HonestParts DEF p, a
    <3>2. At(x.h, s) = q
      BY <1>2 DEF At, at
    <3> QED BY <2>2, <3>1, <3>2
  <2>4. Sector(y.d, r, i \div S) = Sector(x.d, p, i \div S)
    <3>1. i \div S \in 0 .. L * SPC - 1
      BY <1>3, <2>2
    <3> DEFINE t == i \div S
               e == L * SPC
    <3>2. t \in 0 .. e - 1 /\ e \in Nat
      BY <1>3, <3>1
    <3>3. t \in Nat /\ t < e
      <4> HIDE DEF t, e
      <4> QED BY <3>2
    <3>4. t \div SPC < L /\ t \div SPC \in Nat
      <4> HIDE DEF t
      <4> QED BY <1>3, <3>3, SectorsOf
    <3> HIDE DEF t, e
    <3>5. r[(t \div SPC) + 1] = p[(t \div SPC) + 1]
      BY <1>11, <3>3, <3>4
    <3>6. Sector(y.d, r, t) = Sector(x.d, p, t)
      BY <1>1, <3>5 DEF Sector
    <3> QED BY <3>6 DEF t
  <2>5. Unit(y.d, r, y.h, q, i) = Unit(x.d, p, x.h, q, i)
    BY <1>1, <2>4 DEF Unit
  <2> QED BY <2>1, <2>3, <2>5 DEF Worth
<1>14. Laid(y, c, v, n, 0, q, y0)
  <2>1. /\ y0.d = y.d /\ y0.h = y.h /\ y0.left = n
    OBVIOUS
  <2>2. (n > 0 => q = q + 0) /\ ~ (n = 0)
    BY <1>2
  <2> HIDE DEF y0, q
  <2>3. /\ Cursor(r, y0.h, q) /\ q \in Nat /\ q < Len(r) * SPC
    BY <1>2, <1>10, <1>12, <2>1 DEF M
  <2>4. \A i \in Nat : Claimed(c, at, y0.h.position, q, i) =>
             Unit(y0.d, r, y0.h, q, i) = Worth(c, at, y0.h.position, v, i)
    BY <1>1, <1>13, <2>1
  <2>5. y0.left > 0 => q = (y.h.position \div S) + 0
    BY <1>1, <2>2 DEF q
  <2> QED BY <1>1, <1>4, <2>1, <2>2, <2>3, <2>4, <2>5 DEF Laid, r
<1>15. y.h.position \div S = q
  BY <1>1
<1> QED BY <1>9, <1>14, <1>15 DEF y

(* A supported write of a file whose contents are c.                       *)
LEMMA WriteHonest ==
    ASSUME NEW x, Handled(x), NEW c, Fits(x.d, x.h, c), NEW s, Honest(x.d, x.h, c, s),
           x.h.position <= Len(c), x.h.entry.size <= Capacity(x.h),
           x.h.totalclusters = Len(ChainFrom(x.d, x.h.entry.first)),
           NEW v \in Values, NEW n \in Nat, n > 0, Roomy(x, x.h.position + n),
           ~ Amiss(c, s, x.h.position, n)
    PROVE  LET y  == _filewrite(x, v, n)
               c2 == Overwritten(c, x.h.position, v, n)
               s2 == IF (x.h.position + n) % S = 0 THEN "full" ELSE "writing"
           IN  Fits(y.d, y.h, c2) /\ Honest(y.d, y.h, c2, s2) /\ y.d.stray = x.d.stray
<1> DEFINE x0 == Lengthened(x, n)
           y == _filewrite(x, v, n)
           at == x.h.position
           c2 == Overwritten(c, at, v, n)
           s2 == IF (at + n) % S = 0 THEN "full" ELSE "writing"
           a == x.h.entry.first
           p == ChainFrom(x0.d, a)
           end == Written(x, v, n)
           K == FullSectors(x.h, n) + 1
           t == at + n
<1>1. /\ Moved(x, x0) /\ x0.d.stray = x.d.stray /\ x0.h.position = at
  <2> HIDE DEF x0
  <2> QED BY LengthenedIs DEF x0
<1>2. /\ Wide(x0, c, n)
      /\ Laid(x0, c, v, n, 0, x0.h.position \div S,
              [d |-> x0.d, h |-> x0.h, left |-> n, pos |-> x0.h.position % S])
  <2> HIDE DEF x0
  <2> QED BY LaidFirst DEF x0
<1>3. /\ Moved(x, y) /\ y.h.position = t
      /\ y.h.entry.size = IF t > x.h.entry.size THEN t ELSE x.h.entry.size
      /\ y.d = end.d /\ y.h.currentcluster = end.h.currentcluster
      /\ y.h.sectorincluster = end.h.sectorincluster
      /\ y.h.buffer = end.h.buffer /\ y.h.dirty = end.h.dirty
  <2> HIDE DEF y, end
  <2> QED BY WriteIs, WriteEnds DEF y, end
<1>4. /\ at \in Nat /\ Len(c) \in Nat /\ c \in Seq(Values) /\ at <= Len(c)
      /\ x.h.entry.size = Len(c)
  BY FitsIs, HonestParts
<1>5. /\ end.left = 0 /\ end.h.dirty /\ WriteOn(x0, n, K, end)
      /\ \E q : Laid(x0, c, v, n, K, q, end)
  <2>1. FullSectors(x0.h, n) + 1 = K
    BY <1>1 DEF FullSectors
  <2>2. end = WriteLoop(x0, v, n)[K]
    BY DEF Written
  <2> DEFINE k0 == FullSectors(x0.h, n) + 1
             e0 == WriteLoop(x0, v, n)[k0]
  <2>3. /\ e0.left = 0 /\ e0.h.dirty /\ WriteOn(x0, n, k0, e0)
        /\ \E q : Laid(x0, c, v, n, k0, q, e0)
    <3> HIDE DEF x0
    <3> QED BY <1>2, LaidAll
  <2>4. k0 = K /\ e0 = end
    BY <2>1, <2>2
  <2> HIDE DEF k0, e0, x0, K, end
  <2> QED BY <2>3, <2>4
<1>6. PICK q : Laid(x0, c, v, n, K, q, end)
  BY <1>5
<1> HIDE DEF x0, y, c2, end, K, at
<1>7. Handled(y) /\ Handled(x0) /\ y.h.entry.first = a /\ x0.h.entry.first = a
  BY <1>1, <1>3 DEF Moved
<1>8. /\ y.d.fat = x0.d.fat /\ ChainFrom(y.d, a) = p
  <2>1. y.d.fat = x0.d.fat
    BY <1>3, <1>5 DEF WriteOn
  <2>2. HasChain(x0.d, a)
    BY <1>7, HandleParts
  <2> QED BY <2>1, <2>2, RegrownSame
<1>9. end.h.position = t
  <2>1. end.h.position = (at + n) - 0
    BY <1>1, <1>5 DEF WriteOn
  <2> QED BY <1>4, <2>1
<1>10. /\ q \in Nat /\ q < Len(p) * SPC /\ Cursor(p, end.h, q) /\ end.d.stray = x0.d.stray
       /\ q = (t - 1) \div S
       /\ \A i \in Nat : Claimed(c, at, t, q, i) => Unit(end.d, p, end.h, q, i) = Worth(c, at, t, v, i)
  <2>1. /\ q \in Nat /\ q < Len(p) * SPC /\ Cursor(p, end.h, q) /\ end.d.stray = x0.d.stray
        /\ end.left = 0 => q = (x0.h.position + n - 1) \div S
        /\ \A i \in Nat : Claimed(c, x0.h.position, end.h.position, q, i) =>
               Unit(end.d, p, end.h, q, i) = Worth(c, x0.h.position, end.h.position, v, i)
    <3> DEFINE p0 == ChainFrom(x0.d, x0.h.entry.first)
    <3>1. p0 = p
      BY <1>7
    <3>2. /\ q \in Nat /\ q < Len(p0) * SPC /\ Cursor(p0, end.h, q) /\ end.d.stray = x0.d.stray
          /\ end.left = 0 => q = (x0.h.position + n - 1) \div S
          /\ \A i \in Nat : Claimed(c, x0.h.position, end.h.position, q, i) =>
                 Unit(end.d, p0, end.h, q, i) = Worth(c, x0.h.position, end.h.position, v, i)
      <4> HIDE DEF p
      <4> QED BY <1>6 DEF Laid
    <3> HIDE DEF p, p0
    <3> QED BY <3>1, <3>2
  <2> DEFINE at0 == x0.h.position
             to == end.h.position
  <2>2. at0 = at /\ to = t
    BY <1>1, <1>9
  <2>3. /\ q = (at0 + n - 1) \div S
        /\ \A i \in Nat : Claimed(c, at0, to, q, i) => Unit(end.d, p, end.h, q, i) = Worth(c, at0, to, v, i)
    BY <1>5, <2>1
  <2> HIDE DEF at0, to, p
  <2>4. q = (t - 1) \div S
    <3>1. at0 + n - 1 = t - 1
      BY <1>4, <2>2
    <3> QED BY <2>3, <3>1
  <2>6. /\ q \in Nat /\ q < Len(p) * SPC /\ Cursor(p, end.h, q) /\ end.d.stray = x0.d.stray
    BY <2>1
  <2>5. \A i \in Nat : Claimed(c, at, t, q, i) => Unit(end.d, p, end.h, q, i) = Worth(c, at, t, v, i)
    <3> HIDE DEF t
    <3> QED BY <2>2, <2>3
  <2> HIDE DEF t
  <2> QED BY <2>4, <2>5, <2>6
<1>11. /\ c2 \in Seq(Values) /\ Len(c2) = IF t > Len(c) THEN t ELSE Len(c)
       /\ \A k \in 1 .. Len(c2) : c2[k] = IF k \in at + 1 .. at + n THEN v ELSE c[k]
  BY <1>4, OverwrittenIs DEF c2
<1>12. t \in Nat /\ t > 0 /\ t <= Len(p) * PerCluster /\ Len(c) <= Len(p) * PerCluster
  <2>1. t <= Len(p) * PerCluster /\ Len(c) <= Len(p) * PerCluster
    BY <1>1, <1>2, <1>7 DEF Wide, Fits
  <2>2. t \in Nat /\ t > 0
    BY <1>4
  <2> QED BY <2>1, <2>2
<1>13. y.h.entry.size = Len(c2)
  BY <1>3, <1>4, <1>11
<1>14. Fits(y.d, y.h, c2)
  <2>1. y.d \in Disks /\ y.h \in Opened /\ HasChain(y.d, y.h.entry.first)
    BY <1>7, HandleParts
  <2>2. Len(c2) <= Len(p) * PerCluster
    BY <1>11, <1>12
  <2> QED BY <1>7, <1>8, <1>11, <2>1, <2>2 DEF Fits
<1>15. At(y.h, s2) = q
  <2>1. /\ (t - 1) \div S = IF t % S = 0 THEN (t \div S) - 1 ELSE t \div S
    BY <1>12, LastSector
  <2>2. s2 = "full" <=> t % S = 0
    OBVIOUS
  <2> HIDE DEF t, s2
  <2> QED BY <1>3, <1>10, <2>1, <2>2 DEF At
<1>16. ~ (at \div S # t \div S /\ t % S # 0 /\ t < Len(c))
  BY DEF Amiss, at
<1>17. ASSUME NEW i \in 0 .. Len(c2) - 1 PROVE c2[i + 1] = Unit(y.d, p, y.h, q, i)
  <2>1. i \in Nat /\ i + 1 \in 1 .. Len(c2)
    BY <1>4, <1>11, <1>12
  <2>2. i + 1 \in at + 1 .. at + n <=> at <= i /\ i < t
    BY <1>4, <2>1
  <2>3. c2[i + 1] = Worth(c, at, t, v, i)
    <3>1. c2[i + 1] = IF i + 1 \in at + 1 .. at + n THEN v ELSE c[i + 1]
      BY <1>11, <2>1
    <3> QED BY <2>2, <3>1 DEF Worth
  <2>4. i < Len(c) \/ (at <= i /\ i < t)
    <3>1. i < Len(c2)
      BY <1>4, <1>11, <1>12
    <3> HIDE DEF t
    <3> QED BY <1>4, <1>11, <1>12, <2>1, <3>1
  <2>5. i \div S = q /\ q > at \div S => i < t
    <3> SUFFICES ASSUME i \div S = q, q > at \div S, ~ (i < t) PROVE FALSE
      OBVIOUS
    <3> HIDE DEF t
    <3>1. t <= i /\ t < Len(c)
      BY <1>4, <1>11, <1>12, <2>1, <2>4
    <3>2. /\ (t - 1) \div S = IF t % S = 0 THEN (t \div S) - 1 ELSE t \div S
          /\ t % S = 0 => t = S * (t \div S)
      BY <1>12, LastSector
    <3> DEFINE u == t \div S
               e == at \div S
    <3>3. u \in Nat /\ e \in Nat
      BY <1>4, <1>12, UnitsOf
    <3>4. CASE t % S = 0
      <4>1. q = u - 1 /\ t = S * u
        BY <1>10, <3>2, <3>4
      <4>2. i \in Nat /\ t \in Nat /\ i < S * (q + 1)
        <5>1. i < S * ((i \div S) + 1)
          BY <2>1, SameSector
        <5> QED BY <1>12, <2>1, <5>1
      <4>3. q + 1 = u
        <5> HIDE DEF u
        <5> QED BY <3>3, <4>1
      <4> HIDE DEF u
      <4>4. i < t
        BY <4>1, <4>2, <4>3
      <4> QED BY <2>1, <3>1, <4>2, <4>4
    <3>5. CASE t % S # 0
      <4>1. q = u
        BY <1>10, <3>2, <3>5
      <4>2. u # e
        <5>1. q > e
          OBVIOUS
        <5> HIDE DEF u, e
        <5> QED BY <3>3, <4>1, <5>1
      <4> QED BY <1>16, <3>1, <3>5, <4>2
    <3> QED BY <3>4, <3>5
  <2>6. Claimed(c, at, t, q, i)
    BY <2>4, <2>5 DEF Claimed
  <2>7. Unit(end.d, p, end.h, q, i) = Worth(c, at, t, v, i)
    BY <1>10, <2>1, <2>6
  <2>8. Unit(y.d, p, y.h, q, i) = Unit(end.d, p, end.h, q, i)
    BY <1>3 DEF Unit
  <2> QED BY <2>3, <2>7, <2>8
<1>18. Cursor(p, y.h, q) /\ y.h.dirty
  BY <1>3, <1>5, <1>10 DEF Cursor
<1>19. s2 = "full" => y.h.position % S = 0 /\ y.h.position > 0
  BY <1>3, <1>12
<1>20. s2 \in {"full", "writing"}
  OBVIOUS
<1>21. Honest(y.d, y.h, c2, s2)
  <2> HIDE DEF s2, p
  <2> QED BY <1>7, <1>8, <1>10, <1>13, <1>15, <1>17, <1>18, <1>19, <1>20 DEF Honest, View
<1>22. y.d.stray = x.d.stray
  BY <1>1, <1>3, <1>10
<1> QED BY <1>14, <1>21, <1>22 DEF y, c2, at

(* A flush puts the buffer, if it has been written to, on the disk.        *)
LEMMA FlushHonest ==
    ASSUME NEW x, Handled(x), NEW c, Fits(x.d, x.h, c), NEW s, Honest(x.d, x.h, c, s)
    PROVE  LET y == fileflush(x)
           IN  Held(y.d, ChainFrom(x.d, x.h.entry.first), c) /\ y.d.stray = x.d.stray
<1> DEFINE y == fileflush(x)
           p == ChainFrom(x.d, x.h.entry.first)
           q == At(x.h, s)
           m == Len(p) * SPC
           b == x.h.buffer
<1>1. /\ ~x.h.dirty => y = x
      /\ x.h.dirty => y.d = fatwritesector(x.d, x.h.currentcluster, x.h.sectorincluster, b)
  BY FlushIs
<1> HIDE DEF y
<1>2. /\ Cursor(p, x.h, q)
      /\ \A i \in 0 .. Len(c) - 1 : c[i + 1] = Unit(x.d, p, x.h, q, i)
      /\ s # "reading" => x.h.dirty /\ q < m
      /\ s = "reading" => ~x.h.dirty
  BY HonestParts
<1>3. CASE s = "reading"
  <2>1. Held(x.d, p, c)
    BY <1>3, ReadingIs
  <2> QED BY <1>1, <1>2, <1>3, <2>1 DEF y, p
<1>4. CASE s # "reading"
  <2>1. /\ x.d \in Disks /\ Path(x.d.fat, p) /\ m \in Nat
        /\ \A i \in 0 .. Len(c) - 1 : i \div S \in 0 .. m - 1 /\ i % S \in Units
    BY FitsIs
  <2>2. b \in Buffers
    BY HandleParts
  <2> HIDE DEF p, q, m, b
  <2>3. q \in 0 .. m - 1
    <3>1. q \in 0 .. m /\ q < m
      BY <1>2, <1>4 DEF Cursor, m
    <3> QED BY <2>1, <3>1
  <2>4. y.d = fatwritesector(x.d, p[(q \div SPC) + 1], q % SPC, b)
    <3>1. x.h.currentcluster = p[(q \div SPC) + 1] /\ x.h.sectorincluster = q % SPC
      BY <1>2, <1>4 DEF Cursor, m
    <3> QED BY <1>1, <1>2, <1>4, <3>1
  <2>5. /\ y.d.stray = x.d.stray /\ Sector(y.d, p, q) = b
        /\ \A r \in 0 .. m - 1 : r # q => Sector(y.d, p, r) = Sector(x.d, p, r)
    <3> DEFINE e == fatwritesector(x.d, p[(q \div SPC) + 1], q % SPC, b)
    <3>1. q \in 0 .. Len(p) * SPC - 1
      BY <2>3 DEF m
    <3>2. /\ e.stray = x.d.stray /\ Sector(e, p, q) = b
          /\ \A r \in 0 .. Len(p) * SPC - 1 : r # q => Sector(e, p, r) = Sector(x.d, p, r)
      BY <2>1, <2>2, <3>1, SectorWritten
    <3>3. y.d = e
      BY <2>4
    <3> HIDE DEF e
    <3> QED BY <3>2, <3>3 DEF m
  <2>6. ASSUME NEW i \in 0 .. Len(c) - 1 PROVE c[i + 1] = Sector(y.d, p, i \div S)[i % S]
    <3> DEFINE t == i \div S
    <3>1. c[i + 1] = Unit(x.d, p, x.h, q, i) /\ t \in 0 .. m - 1
      BY <1>2, <2>1
    <3>2. CASE t = q
      BY <2>5, <3>1, <3>2 DEF Unit, b
    <3>3. CASE t # q
      BY <2>5, <3>1, <3>3 DEF Unit
    <3> QED BY <3>2, <3>3
  <2> QED BY <2>5, <2>6 DEF Held, y, p
<1> QED BY <1>3, <1>4

(* A file that is created.                                                 *)
LEMMA CreateHonest ==
    ASSUME NEW d \in Disks, NEW entry \in FileEntries, HasChain(d, entry.first), entry.size = 0
    PROVE  LET g == filenew(d, entry, TRUE)
           IN  Fits(d, g, <<>>) /\ Honest(d, g, <<>>, "writing")
<1> DEFINE g == filenew(d, entry, TRUE)
           p == ChainFrom(d, entry.first)
           m == Len(p) * SPC
<1>1. Opening(d, entry, TRUE, g)
  BY FileNewIs
<1> HIDE DEF g
<1>2. /\ g \in Opened /\ g.entry = entry /\ g.dirty /\ g.position = 0 /\ g.sectorincluster = 0
      /\ g.currentcluster = entry.first
  BY <1>1 DEF Opening
<1>3. Fits(d, g, <<>>)
  <2>1. Len(p) \in Nat
    BY ChainParts
  <2>2. 0 <= Len(p) * PerCluster
    BY <2>1, Constants
  <2> QED BY <1>2, <2>2 DEF Fits
<1>4. m \in Nat /\ m > 0 /\ p[1] = entry.first
  BY <1>2, <1>3, FitsIs
<1>5. 0 \div S = 0 /\ 0 \div SPC = 0 /\ 0 % SPC = 0
  <2>1. S \in Nat /\ S > 0 /\ SPC \in Nat /\ SPC > 0
    BY Constants
  <2>2. 0 = S * 0 + 0 /\ 0 = SPC * 0 + 0 /\ 0 \in 0 .. S - 1 /\ 0 \in 0 .. SPC - 1
    BY <2>1
  <2> QED BY <2>1, <2>2, Division
<1>6. At(g, "writing") = 0
  BY <1>2, <1>5 DEF At
<1>7. (0 \div SPC) + 1 = 1
  BY <1>5
<1> HIDE DEF p
<1>8. Cursor(p, g, 0)
  BY <1>2, <1>4, <1>5, <1>7 DEF Cursor
<1>9. View(d, p, g, 0, <<>>)
  BY DEF View
<1>10. Honest(d, g, <<>>, "writing")
  BY <1>2, <1>4, <1>6, <1>8, <1>9 DEF Honest, p
<1> QED BY <1>3, <1>10 DEF g

-----------------------------------------------------------------------------
(* The inductive invariant for the contents.                               *)

(* The slots in which a search finds the file n.                           *)
Visible(n) == {k \in Slots : InReach(k) /\ slots[k].name = n}

(* The closed file of entry has the contents c.                            *)
Stored(d, entry, c) == entry.size = Len(c) /\ Held(d, ChainFrom(d, entry.first), c)

(* An open file's handle and clusters have its contents; if its user has   *)
(* not written, neither has it a newer entry than the directory.           *)
OpenFile(h) ==
    LET n == handles[h].entry.name
    IN n \notin spoiled =>
         /\ Honest(disk, handles[h], content[n], session[h])
         /\ session[h] = "reading" => \A k \in Visible(n) : slots[k] = handles[h].entry

(* A closed file's entry and clusters have its contents.                   *)
ClosedFile(n) ==
    n \notin spoiled =>
        /\ Users(n) = {} => \A k \in Visible(n) : Stored(disk, slots[k], content[n])
        /\ Users(n) = {} /\ Visible(n) = {} /\ n \notin lost => content[n] = <<>>
        /\ Users(n) # {} /\ Visible(n) = {} => n \in lost

(* A handle writes to its own file's clusters, unless every file is        *)
(* spoiled.                                                                *)
StaysNear(h) == Names \subseteq spoiled \/ Near(disk, handles[h])

(* The invariant of the contents.                                          *)
Contents ==
    /\ \A h \in OpenHandles : StaysNear(h) /\ OpenFile(h)
    /\ \A n \in Names : ClosedFile(n)
    /\ NoStrayWrites

(* The chain of r and its clusters are in e as in d.                       *)
Undisturbed(d, e, r) ==
    /\ HasChain(d, r) /\ HasChain(e, r)
    /\ ChainFrom(e, r) = ChainFrom(d, r)
    /\ \A c \in Place(d, r) : e.data[c] = d.data[c]

(* An undisturbed file has the same sectors, contents and honest handles.  *)
LEMMA SectorStays ==
    ASSUME NEW d, NEW e, NEW r, Undisturbed(d, e, r),
           NEW q \in 0 .. Len(ChainFrom(d, r)) * SPC - 1
    PROVE  Sector(e, ChainFrom(d, r), q) = Sector(d, ChainFrom(d, r), q)
<1> DEFINE p == ChainFrom(d, r)
<1>1. Path(d.fat, p) /\ Place(d, r) = On(p)
  BY ChainParts DEF Undisturbed
<1>2. \A c \in On(p) : e.data[c] = d.data[c]
  BY <1>1 DEF Undisturbed
<1> HIDE DEF p
<1>3. q \in 0 .. Len(p) * SPC - 1
  BY DEF p
<1>4. p[(q \div SPC) + 1] \in On(p)
  BY <1>1, <1>3, SectorPlace
<1>5. Sector(e, p, q) = Sector(d, p, q)
  BY <1>2, <1>4 DEF Sector
<1> QED BY <1>5 DEF p

LEMMA HeldStays ==
    ASSUME NEW d, NEW e, NEW r, Undisturbed(d, e, r), NEW c \in Seq(Values),
           Len(c) <= Len(ChainFrom(d, r)) * PerCluster, Held(d, ChainFrom(d, r), c)
    PROVE  Held(e, ChainFrom(e, r), c)
<1> DEFINE p == ChainFrom(d, r)
           L == Len(p)
<1>1. L \in Nat /\ Len(c) \in Nat /\ ChainFrom(e, r) = p
  BY ChainParts DEF Undisturbed
<1>2. ASSUME NEW i \in 0 .. Len(c) - 1 PROVE c[i + 1] = Sector(e, p, i \div S)[i % S]
  <2> DEFINE m == L * PerCluster
             q == i \div S
             k == L * SPC
  <2>1. i \in Nat /\ m \in Nat /\ Len(c) <= m /\ k \in Nat
    BY <1>1, UnitsWithin
  <2>2. i < m
    <3> HIDE DEF m, L
    <3> QED BY <1>1, <2>1
  <2>3. q < k /\ q \in Nat
    BY <1>1, <2>1, <2>2, UnitsWithin, UnitsOf
  <2>4. q \in 0 .. k - 1
    <3> HIDE DEF q, k
    <3> QED BY <2>1, <2>3
  <2>5. Sector(e, p, q) = Sector(d, p, q)
    BY <2>4, SectorStays
  <2>6. c[i + 1] = Sector(d, p, q)[i % S]
    BY DEF Held
  <2> QED BY <2>5, <2>6
<1> QED BY <1>1, <1>2 DEF Held

LEMMA HonestStays ==
    ASSUME NEW d, NEW e, NEW h, NEW c, NEW s, Fits(d, h, c), Undisturbed(d, e, h.entry.first),
           Honest(d, h, c, s)
    PROVE  Honest(e, h, c, s)
<1> DEFINE r == h.entry.first
           p == ChainFrom(d, r)
           q == At(h, s)
<1>1. ChainFrom(e, r) = p
  BY DEF Undisturbed
<1>2. /\ Path(d.fat, p) /\ Len(p) * SPC \in Nat /\ \A a \in On(p) : e.data[a] = d.data[a]
      /\ \A i \in 0 .. Len(c) - 1 : i \div S \in 0 .. Len(p) * SPC - 1
  <2>1. Path(d.fat, p) /\ Place(d, r) = On(p)
    BY ChainParts DEF Undisturbed
  <2> QED BY <2>1, FitsIs DEF Undisturbed
<1>3. /\ h.entry.size = Len(c) /\ Cursor(p, h, q) /\ s # "none"
      /\ s = "full" => h.position % S = 0 /\ h.position > 0
      /\ s # "reading" => h.dirty /\ q < Len(p) * SPC
      /\ s = "reading" => ~h.dirty
      /\ s = "reading" /\ q < Len(p) * SPC => h.buffer = d.data[h.currentcluster][h.sectorincluster]
      /\ \A i \in 0 .. Len(c) - 1 : c[i + 1] = Unit(d, p, h, q, i)
  BY DEF Honest, View
<1>4. \A i \in 0 .. Len(c) - 1 : Sector(e, p, i \div S) = Sector(d, p, i \div S)
  BY <1>2, SectorStays
<1>5. View(e, p, h, q, c)
  <2> HIDE DEF p, q
  <2> QED BY <1>3, <1>4 DEF View, Unit
<1>6. q < Len(p) * SPC => h.currentcluster \in On(p)
  <2> HIDE DEF p, q
  <2>1. q < Len(p) * SPC => q \in 0 .. Len(p) * SPC - 1 /\ h.currentcluster = p[(q \div SPC) + 1]
    <3> DEFINE m == Len(p) * SPC
    <3>1. q \in 0 .. m /\ m \in Nat /\ (q < m => h.currentcluster = p[(q \div SPC) + 1])
      BY <1>2, <1>3 DEF Cursor
    <3> HIDE DEF m
    <3>2. q < m => q \in 0 .. m - 1 /\ h.currentcluster = p[(q \div SPC) + 1]
      BY <3>1
    <3> QED BY <3>2 DEF m
  <2> QED BY <1>2, <2>1, SectorPlace
<1>7. s = "reading" /\ q < Len(p) * SPC => h.buffer = e.data[h.currentcluster][h.sectorincluster]
  BY <1>2, <1>3, <1>6
<1> HIDE DEF p, q
<1> QED BY <1>1, <1>3, <1>5, <1>7 DEF Honest, p, q

LEMMA NearStays ==
    ASSUME NEW d, NEW e, NEW h, Undisturbed(d, e, h.entry.first), Near(d, h)
    PROVE  Near(e, h)
  BY DEF Near, Place, Undisturbed

(* A search finds a file in the slot that it is visible in.                *)
LEMMA FoundBy ==
    ASSUME ChainsInv, NEW n \in Names
    PROVE  /\ Found(n) => Visible(n) = {SearchEnd(n)}
           /\ ~Found(n) => Visible(n) = {}
<1> DEFINE s == SearchEnd(n)
<1>1. /\ s \in Slots
      /\ slots[s].name \in {n, NoName} \/ s = DIRSLOTS - 1
      /\ \A j \in 0 .. s - 1 : slots[j].name \notin {n, NoName}
  BY SearchIs
<1>2. DIRSLOTS \in Nat /\ NoName \notin Names
  BY Constants
<1> HIDE DEF s
<1>3. /\ \A j, k \in UsedSlots : slots[j].name = slots[k].name => j = k
      /\ \A k \in UsedSlots, j \in Slots : j < k => j \in UsedSlots
  BY DEF ChainsInv, Chains, OneEach
<1>4. ASSUME NEW k \in Visible(n) PROVE Found(n) /\ k = s
  <2>1. k \in Slots /\ k < DIRSLOTS - 1 /\ slots[k].name = n /\ k \in UsedSlots
    BY <1>2 DEF Visible, InReach, UsedSlots
  <2>2. k \in Nat /\ s \in Nat /\ s <= DIRSLOTS - 1
    BY <1>1, <1>2, <2>1 DEF Slots
  <2>3. s <= k
    <3> SUFFICES ASSUME k < s PROVE FALSE
      BY <2>2
    <3>1. k \in 0 .. s - 1
      BY <2>2
    <3> QED BY <1>1, <2>1, <3>1
  <2>4. slots[s].name \in {n, NoName} /\ InReach(s)
    BY <1>1, <1>2, <2>1, <2>2, <2>3 DEF InReach
  <2>5. s \in UsedSlots
    <3>1. CASE s = k
      BY <2>1, <3>1
    <3>2. CASE s < k
      BY <1>1, <1>3, <2>1, <3>2
    <3> QED BY <2>2, <2>3, <3>1, <3>2
  <2>6. slots[s].name = n
    BY <2>4, <2>5 DEF UsedSlots
  <2> QED BY <1>3, <2>1, <2>4, <2>5, <2>6 DEF Found, s
<1>5. Found(n) => s \in Visible(n)
  BY <1>1 DEF Found, Visible, s
<1> QED BY <1>4, <1>5 DEF s

-----------------------------------------------------------------------------
(* What a step leaves alone.                                               *)

(* What is known of the contents.                                          *)
LEMMA ContentIs ==
    ASSUME ChainsInv, NEW n \in Names
    PROVE  content[n] \in Seq(Values) /\ Len(content[n]) \in Nat
  BY DEF ChainsInv, Types

(* The open file has room for its contents, which its handle has.          *)
LEMMA OpenFits ==
    ASSUME ChainsInv, NEW h \in OpenHandles, OpenFile(h), handles[h].entry.name \notin spoiled
    PROVE  LET c == content[handles[h].entry.name]
           IN  /\ Fits(disk, handles[h], c) /\ Honest(disk, handles[h], c, session[h])
               /\ handles[h].entry.size = Len(c) /\ handles[h].position <= Len(c)
               /\ Len(c) <= Capacity(handles[h])
               /\ handles[h].totalclusters = Len(ChainFrom(disk, handles[h].entry.first))
<1> DEFINE c == content[handles[h].entry.name]
           g == handles[h]
<1>1. /\ g \in Opened /\ g.entry.name \in Names /\ Handled(X(h)) /\ X(h).d = disk /\ X(h).h = g
  BY OpenIs
<1>2. Sized(disk, g)
  BY SizedIs
<1>3. Honest(disk, g, c, session[h])
  BY DEF OpenFile
<1>4. g.entry.size = Len(c)
  BY <1>3 DEF Honest
<1>5. c \in Seq(Values) /\ HasChain(disk, g.entry.first) /\ disk \in Disks
  BY <1>1, ContentIs, DiskParts DEF Handled
<1> HIDE DEF c, g
<1>6. Fits(disk, g, c)
  BY <1>1, <1>2, <1>4, <1>5 DEF Fits, Sized, Capacity
<1> QED BY <1>2, <1>3, <1>4, <1>6 DEF Sized, c, g

(* An open file that a step leaves alone.                                  *)
LEMMA OpenFileStays ==
    ASSUME ChainsInv, NEW h \in OpenHandles, OpenFile(h), spoiled \subseteq spoiled',
           handles'[h] = handles[h], session'[h] = session[h],
           content'[handles[h].entry.name] = content[handles[h].entry.name],
           Undisturbed(disk, disk', handles[h].entry.first),
           \A k \in Visible(handles[h].entry.name)' :
              k \in Visible(handles[h].entry.name) /\ slots'[k] = slots[k]
    PROVE  OpenFile(h)'
<1> DEFINE n == handles[h].entry.name
<1> SUFFICES ASSUME n \notin spoiled'
             PROVE  /\ Honest(disk', handles[h], content[n], session[h])
                    /\ session[h] = "reading" => \A k \in Visible(n)' : slots'[k] = handles[h].entry
  BY DEF OpenFile, Visible
<1>1. n \notin spoiled
  OBVIOUS
<1>2. Fits(disk, handles[h], content[n]) /\ Honest(disk, handles[h], content[n], session[h])
  BY <1>1, OpenFits
<1>3. Honest(disk', handles[h], content[n], session[h])
  BY <1>2, HonestStays
<1>4. session[h] = "reading" => \A k \in Visible(n) : slots[k] = handles[h].entry
  BY <1>1 DEF OpenFile
<1> QED BY <1>3, <1>4

(* A closed one.                                                           *)
LEMMA ClosedFileStays ==
    ASSUME ChainsInv, NEW n \in Names, ClosedFile(n), spoiled \subseteq spoiled',
           content'[n] = content[n], Users(n)' = {} <=> Users(n) = {},
           n \in lost => n \in lost',
           Visible(n)' = Visible(n),
           Users(n) = {} => \A k \in Visible(n) : /\ slots'[k] = slots[k]
                                                  /\ Undisturbed(disk, disk', slots[k].first)
    PROVE  ClosedFile(n)'
<1> SUFFICES ASSUME n \notin spoiled'
             PROVE  /\ Users(n) = {} => \A k \in Visible(n) : Stored(disk', slots'[k], content[n])
                    /\ Users(n) = {} /\ Visible(n) = {} /\ n \notin lost => content[n] = <<>>
                    /\ Users(n) # {} /\ Visible(n) = {} => n \in lost
  BY DEF ClosedFile
<1>1. n \notin spoiled
  OBVIOUS
<1>2. ASSUME Users(n) = {}, NEW k \in Visible(n) PROVE Stored(disk', slots'[k], content[n])
  <2>1. Stored(disk, slots[k], content[n])
    BY <1>1, <1>2 DEF ClosedFile
  <2>2. k \in UsedSlots /\ slots[k].name = n
    BY Constants DEF Visible, UsedSlots
  <2>3. slots[k].size <= Len(ChainFrom(disk, slots[k].first)) * PerCluster
    BY <1>1, <2>2 DEF ChainsInv, Chains
  <2>4. content[n] \in Seq(Values)
    BY ContentIs
  <2>5. Held(disk', ChainFrom(disk', slots[k].first), content[n])
    BY <1>2, <2>1, <2>3, <2>4, HeldStays DEF Stored
  <2> QED BY <1>2, <2>1, <2>5 DEF Stored
<1> QED BY <1>1, <1>2 DEF ClosedFile

(* Two files' roots are one only if they are one file.                     *)
LEMMA RootsDiffer ==
    ASSUME ChainsInv, NEW h \in OpenHandles
    PROVE  /\ \A g \in OpenHandles : g # h =>
                 /\ handles[g].entry.first # handles[h].entry.first
                 /\ handles[g].entry.name # handles[h].entry.name
                 /\ handles[g].entry.first \in Roots
           /\ \A k \in UsedSlots : slots[k].name # handles[h].entry.name =>
                 slots[k].first # handles[h].entry.first /\ slots[k].first \in Roots
  BY DEF ChainsInv, Chains, OneEach, Roots

(* A call on the handle h has not changed the other files.                 *)
LEMMA OthersUndisturbed ==
    ASSUME ChainsInv, NEW h \in OpenHandles, NEW y, Moved(X(h), y),
           \A c \in Clusters \ Place(y.d, handles[h].entry.first) : y.d.data[c] = disk.data[c],
           NEW r \in Roots, r # handles[h].entry.first
    PROVE  Undisturbed(disk, y.d, r)
<1> DEFINE a == handles[h].entry.first
<1>1. Handled(X(h)) /\ X(h).d = disk /\ X(h).h = handles[h] /\ a \in Roots
  BY OpenIs
<1>2. Apart(disk, Roots)
  BY DiskParts
<1>3. Regrown(disk, y.d, a)
  BY <1>1 DEF Moved
<1>8. a \in Roots /\ r # a
  BY <1>1
<1> HIDE DEF a
<1>4. Apart(y.d, Roots) /\ ChainFrom(y.d, r) = ChainFrom(disk, r) /\ Place(y.d, r) = Place(disk, r)
  <2> DEFINE e == y.d
  <2>1. Regrown(disk, e, a)
    BY <1>3
  <2> HIDE DEF e
  <2>2. /\ Apart(e, Roots)
        /\ \A b \in Roots : b # a => ChainFrom(e, b) = ChainFrom(disk, b) /\ Place(e, b) = Place(disk, b)
    BY <1>2, <1>8, <2>1, ApartStays
  <2> QED BY <1>8, <2>2 DEF e
<1>5. HasChain(disk, r) /\ HasChain(y.d, r) /\ Place(y.d, r) \cap Place(y.d, a) = {}
  BY <1>1, <1>2, <1>4 DEF Apart, a
<1>6. Place(disk, r) \subseteq Clusters
  BY <1>5, ChainParts
<1>7. \A c \in Place(disk, r) : y.d.data[c] = disk.data[c]
  BY <1>4, <1>5, <1>6 DEF a
<1> QED BY <1>4, <1>5, <1>7 DEF Undisturbed

(* A file that is open has no units to be found elsewhere.                 *)
LEMMA OpenNotClosed ==
    ASSUME NEW n \in Names, ClosedFile(n), spoiled \subseteq spoiled', Users(n) # {}, Users(n)' # {},
           Visible(n)' = Visible(n), n \in lost => n \in lost'
    PROVE  ClosedFile(n)'
  BY DEF ClosedFile

(* If every file is spoiled, the contents do not matter.                   *)
LEMMA AllSpoiled ==
    ASSUME Names \subseteq spoiled', \A h \in OpenHandles' : handles'[h].entry.name \in Names,
           disk'.stray => spoiled' # {}
    PROVE  Contents'
  BY DEF Contents, StaysNear, OpenFile, ClosedFile, NoStrayWrites

(* A call on the open handle h.                                            *)
LEMMA ContentsStep ==
    ASSUME ChainsInv, Contents, NEW h \in OpenHandles, NEW y, Moved(X(h), y), Becomes(h, y),
           slots' = slots, lost' = lost, spoiled \subseteq spoiled',
           \A n \in Names : n # handles[h].entry.name => content'[n] = content[n],
           \A g \in Handles : g # h => session'[g] = session[g],
           \/ Names \subseteq spoiled'
           \/ /\ Near(y.d, y.h)
              /\ \A c \in Clusters \ Place(y.d, handles[h].entry.first) : y.d.data[c] = disk.data[c],
           handles[h].entry.name \notin spoiled' =>
              /\ Honest(y.d, y.h, content'[handles[h].entry.name], session'[h])
              /\ session'[h] = "reading" => session[h] = "reading" /\ y.h.entry = handles[h].entry,
           y.d.stray => spoiled' # {}
    PROVE  Contents'
<1>0. PICK n \in Names : n = handles[h].entry.name
  BY OpenIs
<1>1. /\ h \in Handles /\ handles[h] \in Opened /\ handles[h].opened = TRUE /\ n \in Names
      /\ X(h).h = handles[h] /\ X(h).d = disk
  BY OpenIs
<1>2. handles \in [Handles -> Opened \cup {Closed}]
  BY DiskParts
<1>3. /\ disk' = y.d /\ handles'[h] = y.h
      /\ \A g \in Handles : g # h => handles'[g] = handles[g]
  BY <1>1, <1>2 DEF Becomes
<1>4. Handled(y) /\ y.h.entry.name = n /\ y.h.entry.first = handles[h].entry.first
  BY <1>0, <1>1 DEF Moved
<1>5. y.h.opened = TRUE
  BY <1>4, HandleParts
<1>6. OpenHandles' = OpenHandles
  <2>1. \A g \in Handles : handles'[g].opened <=> handles[g].opened
    BY <1>1, <1>3, <1>5
  <2> QED BY <2>1 DEF OpenHandles
<1>7. \A m : Users(m)' = Users(m)
  <2>1. \A g \in Handles : /\ handles'[g].opened <=> handles[g].opened
                           /\ handles'[g].entry.name = handles[g].entry.name
    BY <1>0, <1>1, <1>3, <1>4, <1>5
  <2> QED BY <2>1 DEF Users
<1>8. \A m : Visible(m)' = Visible(m)
  BY DEF Visible
<1>9. \A g \in OpenHandles : g \in Handles /\ handles[g].entry.name \in Names
  BY OpenIs
<1>10. CASE Names \subseteq spoiled'
  <2>1. \A g \in OpenHandles' : handles'[g].entry.name \in Names
    <3> SUFFICES ASSUME NEW g \in OpenHandles PROVE handles'[g].entry.name \in Names
      BY <1>6
    <3> QED BY <1>0, <1>1, <1>3, <1>4, <1>9
  <2> QED BY <1>3, <1>10, <2>1, AllSpoiled
<1>11. CASE ~ (Names \subseteq spoiled')
  <2>1. /\ Near(y.d, y.h)
        /\ \A c \in Clusters \ Place(y.d, handles[h].entry.first) : y.d.data[c] = disk.data[c]
    BY <1>11
  <2>2. \A r \in Roots : r # handles[h].entry.first => Undisturbed(disk, disk', r)
    BY <1>3, <2>1, OthersUndisturbed
  <2>3. ASSUME NEW g \in OpenHandles PROVE StaysNear(g)' /\ OpenFile(g)'
    <3>1. CASE g = h
      <4>1. StaysNear(h)'
        BY <1>3, <2>1 DEF StaysNear
      <4>2. ASSUME n \notin spoiled', session'[h] = "reading", NEW k \in Visible(n)
            PROVE  slots[k] = y.h.entry
        <5>1. session[h] = "reading" /\ y.h.entry = handles[h].entry
          BY <1>0, <4>2
        <5>2. n \notin spoiled /\ OpenFile(h)
          BY <1>0, <4>2 DEF Contents
        <5> QED BY <1>0, <4>2, <5>1, <5>2 DEF OpenFile
      <4>3. OpenFile(h)'
        <5>1. n \notin spoiled' => Honest(disk', handles'[h], content'[n], session'[h])
          BY <1>0, <1>3
        <5>2. handles'[h].entry.name = n /\ handles'[h].entry = y.h.entry
          BY <1>3, <1>4
        <5>3. n \notin spoiled' /\ session'[h] = "reading" =>
                 \A k \in Visible(n)' : slots'[k] = handles'[h].entry
          BY <1>8, <4>2, <5>2
        <5> QED BY <5>1, <5>2, <5>3 DEF OpenFile, Visible
      <4> QED BY <3>1, <4>1, <4>3
    <3>2. CASE g # h
      <4>1. /\ handles[g].entry.first # handles[h].entry.first
            /\ handles[g].entry.name # n /\ handles[g].entry.first \in Roots
        BY <1>0, <3>2, RootsDiffer
      <4>2. Undisturbed(disk, disk', handles[g].entry.first)
        BY <2>2, <4>1
      <4>3. handles'[g] = handles[g] /\ session'[g] = session[g]
            /\ content'[handles[g].entry.name] = content[handles[g].entry.name]
        BY <1>0, <1>3, <1>9, <3>2, <4>1
      <4>4. OpenFile(g) /\ StaysNear(g)
        BY DEF Contents
      <4>5. \A k \in Visible(handles[g].entry.name)' :
              k \in Visible(handles[g].entry.name) /\ slots'[k] = slots[k]
        BY <4>3 DEF Visible
      <4>6. OpenFile(g)'
        BY <4>2, <4>3, <4>4, <4>5, OpenFileStays
      <4>7. Near(disk, handles[g])
        BY <1>11, <4>4 DEF StaysNear
      <4>8. Near(disk', handles[g])
        BY <4>2, <4>7, NearStays
      <4> QED BY <4>3, <4>6, <4>8 DEF StaysNear
    <3> QED BY <3>1, <3>2
  <2>4. ASSUME NEW m \in Names PROVE ClosedFile(m)'
    <3>1. ClosedFile(m) /\ Users(m)' = Users(m) /\ Visible(m)' = Visible(m)
      BY <1>7, <1>8 DEF Contents
    <3>2. CASE m = n
      <4>1. h \in Users(m)
        BY <1>0, <1>1, <3>2 DEF Users
      <4> QED BY <3>1, <4>1, OpenNotClosed
    <3>3. CASE m # n
      <4>1. content'[m] = content[m]
        BY <1>0, <3>3
      <4>2. ASSUME NEW k \in Visible(m) PROVE slots'[k] = slots[k] /\ Undisturbed(disk, disk', slots[k].first)
        <5>1. k \in UsedSlots /\ slots[k].name = m
          BY Constants DEF Visible, UsedSlots
        <5>2. slots[k].first # handles[h].entry.first /\ slots[k].first \in Roots
          BY <1>0, <3>3, <5>1, RootsDiffer
        <5> QED BY <2>2, <5>2
      <4> QED BY <3>1, <4>1, <4>2, ClosedFileStays
    <3> QED BY <3>2, <3>3
  <2>5. NoStrayWrites'
    BY <1>3 DEF NoStrayWrites
  <2> QED BY <1>6, <2>3, <2>4, <2>5 DEF Contents
<1> QED BY <1>10, <1>11

-----------------------------------------------------------------------------
(* The system's steps keep the contents.                                   *)

(* A call that reads nothing.                                              *)
LEMMA NoReadIs == ASSUME got' = NoRead PROVE ReadsHonest'
  BY Constants DEF ReadsHonest, NoRead

(* A call stays in its file's clusters, unless every file is spoiled.      *)
LEMMA OwnOrSpoiled ==
    ASSUME ChainsInv, Contents, NEW h \in OpenHandles, NEW y, OwnData(X(h), y), spoiled \subseteq spoiled'
    PROVE  \/ Names \subseteq spoiled'
           \/ /\ Near(y.d, y.h)
              /\ \A c \in Clusters \ Place(y.d, handles[h].entry.first) : y.d.data[c] = disk.data[c]
<1>1. X(h).d = disk /\ X(h).h = handles[h]
  BY OpenIs
<1>2. Names \subseteq spoiled \/ Near(disk, handles[h])
  BY DEF Contents, StaysNear
<1>3. Near(disk, handles[h]) =>
        /\ Near(y.d, y.h)
        /\ \A c \in Clusters \ Place(y.d, handles[h].entry.first) : y.d.data[c] = disk.data[c]
  BY <1>1 DEF OwnData
<1> QED BY <1>2, <1>3

(* A call that only a user who has just read may make.                     *)
LEMMA ContentsRead ==
    ASSUME ChainsInv, Contents, NEW h \in OpenHandles, NEW y, Moved(X(h), y), OwnData(X(h), y),
           Becomes(h, y), slots' = slots, content' = content, session' = session, lost' = lost,
           Judge(session[h] = "reading", h), SameFile(handles[h], y.h),
           session[h] = "reading" /\ handles[h].entry.name \notin spoiled =>
              /\ Honest(y.d, y.h, content[handles[h].entry.name], "reading")
              /\ y.d.stray = disk.stray
    PROVE  Contents'
<1> DEFINE p == session[h] = "reading"
<1>1. /\ spoiled \subseteq spoiled' /\ spoiled' \subseteq Names
      /\ p => spoiled' = spoiled
      /\ ~p => handles[h].entry.name \in spoiled'
  <2>1. Judge(p, h)
    OBVIOUS
  <2> HIDE DEF p
  <2> QED BY <2>1, JudgeIs
<1>2. \/ Names \subseteq spoiled'
      \/ /\ Near(y.d, y.h)
         /\ \A c \in Clusters \ Place(y.d, handles[h].entry.first) : y.d.data[c] = disk.data[c]
  BY <1>1, OwnOrSpoiled
<1>3. handles[h].entry.name \notin spoiled' =>
         /\ Honest(y.d, y.h, content'[handles[h].entry.name], session'[h])
         /\ session'[h] = "reading" => session[h] = "reading" /\ y.h.entry = handles[h].entry
  BY <1>1 DEF SameFile
<1>4. y.d.stray => spoiled' # {}
  <2>1. CASE handles[h].entry.name \in spoiled'
    BY <2>1
  <2>2. CASE handles[h].entry.name \notin spoiled'
    <3>1. y.d.stray = disk.stray /\ spoiled' = spoiled
      BY <1>1, <2>2
    <3> QED BY <3>1 DEF Contents, NoStrayWrites
  <2> QED BY <2>1, <2>2
<1>5. /\ \A n \in Names : n # handles[h].entry.name => content'[n] = content[n]
      /\ \A g \in Handles : g # h => session'[g] = session[g]
  OBVIOUS
<1> QED BY <1>1, <1>2, <1>3, <1>4, <1>5, ContentsStep

(* The calls on a handle that only a reader may make.                      *)
LEMMA StoresSeek ==
    ASSUME ChainsInv, Contents, NEW h \in Handles, NEW p \in Nat, Seek(h, p)
    PROVE  Contents' /\ ReadsHonest'
<1> DEFINE y == fileseek(X(h), p)
<1>1. h \in OpenHandles
  BY DEF Seek, OpenHandles
<1>2. Handled(X(h)) /\ X(h).d = disk /\ X(h).h = handles[h]
  BY <1>1, OpenIs
<1>3. Moved(X(h), y) /\ OwnData(X(h), y) /\ y.d = disk /\ SameFile(handles[h], y.h)
  BY <1>2, SeekIs
<1>4. /\ Becomes(h, y) /\ slots' = slots /\ p <= handles[h].entry.size
      /\ content' = content /\ session' = session /\ lost' = lost
      /\ got' = NoRead /\ Judge(session[h] = "reading", h)
  BY DEF Seek, Abandons
<1>5. ASSUME session[h] = "reading", handles[h].entry.name \notin spoiled
      PROVE  Honest(y.d, y.h, content[handles[h].entry.name], "reading")
  <2>1. OpenFile(h)
    BY <1>1 DEF Contents
  <2> DEFINE c == content[handles[h].entry.name]
  <2>2. Fits(disk, handles[h], c) /\ Honest(disk, handles[h], c, session[h]) /\ handles[h].entry.size = Len(c)
    BY <1>1, <1>5, <2>1, OpenFits
  <2>3. Fits(X(h).d, X(h).h, c) /\ Honest(X(h).d, X(h).h, c, "reading") /\ p <= Len(c)
    BY <1>2, <1>4, <1>5, <2>2
  <2> HIDE DEF c
  <2> QED BY <1>2, <2>3, SeekHonest DEF c
<1> HIDE DEF y
<1>6. Contents'
  BY <1>1, <1>3, <1>4, <1>5, ContentsRead
<1> QED BY <1>4, <1>6, NoReadIs

LEMMA StoresRewind ==
    ASSUME ChainsInv, Contents, NEW h \in Handles, Rewind(h)
    PROVE  Contents' /\ ReadsHonest'
<1> DEFINE y == filereset(X(h))
<1>1. h \in OpenHandles
  BY DEF Rewind, OpenHandles
<1>2. Handled(X(h)) /\ X(h).d = disk /\ X(h).h = handles[h]
  BY <1>1, OpenIs
<1>3. Moved(X(h), y) /\ OwnData(X(h), y) /\ y.d = disk /\ SameFile(handles[h], y.h)
  BY <1>2, ResetIs
<1>4. /\ Becomes(h, y) /\ slots' = slots
      /\ content' = content /\ session' = session /\ lost' = lost
      /\ got' = NoRead /\ Judge(session[h] = "reading", h)
  BY DEF Rewind, Abandons
<1>5. ASSUME session[h] = "reading", handles[h].entry.name \notin spoiled
      PROVE  Honest(y.d, y.h, content[handles[h].entry.name], "reading")
  <2>1. OpenFile(h)
    BY <1>1 DEF Contents
  <2> DEFINE c == content[handles[h].entry.name]
  <2>2. Fits(disk, handles[h], c) /\ Honest(disk, handles[h], c, session[h])
    BY <1>1, <1>5, <2>1, OpenFits
  <2>3. Fits(X(h).d, X(h).h, c) /\ Honest(X(h).d, X(h).h, c, "reading")
    BY <1>2, <1>5, <2>2
  <2> HIDE DEF c
  <2> QED BY <1>2, <2>3, ResetHonest DEF c
<1> HIDE DEF y
<1>6. Contents'
  BY <1>1, <1>3, <1>4, <1>5, ContentsRead
<1> QED BY <1>4, <1>6, NoReadIs

LEMMA StoresFlush ==
    ASSUME ChainsInv, Contents, NEW h \in Handles, Flush(h)
    PROVE  Contents' /\ ReadsHonest'
<1> DEFINE y == fileflush(X(h))
<1>1. h \in OpenHandles
  BY DEF Flush, OpenHandles
<1>2. Handled(X(h)) /\ X(h).d = disk /\ X(h).h = handles[h]
  BY <1>1, OpenIs
<1>3. /\ Moved(X(h), y) /\ OwnData(X(h), y) /\ SameFile(handles[h], y.h)
      /\ ~handles[h].dirty => y = X(h)
  BY <1>2, FlushIs
<1>4. /\ Becomes(h, y) /\ slots' = slots
      /\ content' = content /\ session' = session /\ lost' = lost
      /\ got' = NoRead /\ Judge(session[h] = "reading", h)
  BY DEF Flush, Abandons
<1> HIDE DEF y
<1>5. ASSUME session[h] = "reading", handles[h].entry.name \notin spoiled
      PROVE  Honest(y.d, y.h, content[handles[h].entry.name], "reading") /\ y.d.stray = disk.stray
  <2>1. OpenFile(h)
    BY <1>1 DEF Contents
  <2>2. Honest(disk, handles[h], content[handles[h].entry.name], "reading")
    BY <1>1, <1>5, <2>1, OpenFits
  <2>3. y = X(h)
    <3>1. ~handles[h].dirty
      BY <2>2 DEF Honest
    <3> QED BY <1>3, <3>1
  <2> QED BY <1>2, <2>2, <2>3
<1>6. Contents'
  BY <1>1, <1>3, <1>4, <1>5, ContentsRead
<1> QED BY <1>4, <1>6, NoReadIs

(* A read returns the file's units, and leaves an honest handle.           *)
LEMMA StoresRead ==
    ASSUME ChainsInv, Contents, NEW h \in Handles, NEW n \in Nat, Read(h, n)
    PROVE  Contents' /\ ReadsHonest'
<1> DEFINE r == _fileread(X(h), n)
           y == [d |-> disk, h |-> r.h]
           c == content[handles[h].entry.name]
           at == handles[h].position
<1>1. h \in OpenHandles
  BY DEF Read, OpenHandles
<1>2. Handled(X(h)) /\ X(h).d = disk /\ X(h).h = handles[h] /\ handles[h].entry.name \in Names
  BY <1>1, OpenIs
<1>3. Moved(X(h), y) /\ OwnData(X(h), y) /\ SameFile(handles[h], y.h) /\ y.d = disk /\ y.h = r.h
  <2> HIDE DEF r
  <2> QED BY <1>2, ReadIs DEF r
<1>4. /\ disk' = disk /\ handles' = [handles EXCEPT ![h] = r.h] /\ slots' = slots
      /\ content' = content /\ session' = session /\ lost' = lost
      /\ got'.name = handles[h].entry.name /\ got'.at = at /\ got'.ret = r.ret /\ got'.units = r.units
      /\ Judge(session[h] = "reading", h)
  BY DEF Read
<1>5. ASSUME session[h] = "reading", handles[h].entry.name \notin spoiled
      PROVE  /\ Honest(disk, r.h, c, "reading")
             /\ r.units = SubSeq(c, at + 1, at + Len(r.units))
             /\ r.ret \in {0, Len(r.units)}
  <2>1. OpenFile(h)
    BY <1>1 DEF Contents
  <2>2. /\ Fits(disk, handles[h], c) /\ Honest(disk, handles[h], c, session[h])
        /\ handles[h].position <= Len(c) /\ Len(c) <= Capacity(handles[h])
    BY <1>1, <1>5, <2>1, OpenFits
  <2>3. /\ Fits(X(h).d, X(h).h, c) /\ Honest(X(h).d, X(h).h, c, "reading")
        /\ X(h).h.position <= Len(c) /\ Len(c) <= Capacity(X(h).h)
    BY <1>2, <1>5, <2>2
  <2> HIDE DEF c, r
  <2>4. /\ Honest(X(h).d, r.h, c, "reading")
        /\ r.units = SubSeq(c, X(h).h.position + 1, X(h).h.position + Len(r.units))
        /\ r.ret \in {0, Len(r.units)}
    BY <1>2, <2>3, ReadHonest DEF r
  <2> QED BY <1>2, <2>4
<1> HIDE DEF r
<1>6. Becomes(h, y)
  BY <1>4 DEF Becomes
<1>7. session[h] = "reading" /\ handles[h].entry.name \notin spoiled =>
              /\ Honest(y.d, y.h, c, "reading")
              /\ y.d.stray = disk.stray
  BY <1>3, <1>5
<1> HIDE DEF y
<1>8. Contents'
  BY <1>1, <1>3, <1>4, <1>6, <1>7, ContentsRead
<1>9. ReadsHonest'
  <2> SUFFICES ASSUME handles[h].entry.name \notin spoiled'
               PROVE  /\ r.units = SubSeq(c, at + 1, at + Len(r.units))
                      /\ r.ret \in {0, Len(r.units)}
    BY <1>4 DEF ReadsHonest
  <2> DEFINE p == session[h] = "reading"
  <2>1. spoiled \subseteq spoiled' /\ (~p => handles[h].entry.name \in spoiled')
    <3>1. Judge(p, h)
      BY <1>4
    <3> HIDE DEF p
    <3> QED BY <1>1, <3>1, JudgeIs
  <2>2. session[h] = "reading" /\ handles[h].entry.name \notin spoiled
    BY <2>1
  <2> QED BY <1>5, <2>2
<1> QED BY <1>8, <1>9

(* A resize spoils the file, and every file if the handle is left on a     *)
(* free cluster.                                                           *)
LEMMA StoresResize ==
    ASSUME ChainsInv, Contents, NEW h \in Handles, NEW size \in Nat, Resize(h, size)
    PROVE  Contents' /\ ReadsHonest'
<1> DEFINE y == fileresize(X(h), size)
           c == handles[h].entry.first
<1>1. h \in OpenHandles
  BY DEF Resize, OpenHandles
<1>2. /\ Handled(X(h)) /\ X(h).d = disk /\ X(h).h = handles[h] /\ handles[h].totalclusters \in Nat
      /\ handles[h].entry.name \in Names
  BY <1>1, OpenIs
<1>3. /\ Moved(X(h), y) /\ y.d.data = disk.data
      /\ \/ OwnData(X(h), y)
         \/ /\ y.h.currentcluster = handles[h].currentcluster
            /\ \A a \in Place(disk, c) : a \in Place(y.d, c) \/ a \in FreeClusters(y.d)
  <2>1. Capacity(X(h).h) \in Nat
    <3> DEFINE t == handles[h].totalclusters
    <3>1. t \in Nat /\ PerCluster \in Nat
      BY <1>2, Constants
    <3> HIDE DEF t
    <3>2. t * PerCluster \in Nat
      BY <3>1
    <3> QED BY <1>2, <3>2 DEF Capacity, t
  <2>2. CASE size > Capacity(X(h).h)
    BY <1>2, <2>2, GrowIs DEF Resize, Room
  <2>3. CASE size <= Capacity(X(h).h)
    BY <1>2, <2>3, ShrinkIs
  <2> HIDE DEF y
  <2> QED BY <2>1, <2>2, <2>3
<1>4. /\ Becomes(h, y) /\ slots' = slots
      /\ content' = content /\ session' = session /\ lost' = lost
      /\ got' = NoRead
      /\ spoiled' = spoiled \cup (IF handles[h].currentcluster \in FreeClusters(y.d)
                                 THEN Names ELSE {handles[h].entry.name})
  BY DEF Resize, Misuse
<1> HIDE DEF y
<1>5. spoiled \subseteq spoiled' /\ handles[h].entry.name \in spoiled'
  BY <1>2, <1>4
<1>6. \/ Names \subseteq spoiled'
      \/ /\ Near(y.d, y.h)
         /\ \A a \in Clusters \ Place(y.d, handles[h].entry.first) : y.d.data[a] = disk.data[a]
  <2>1. CASE OwnData(X(h), y)
    BY <1>1, <1>5, <2>1, OwnOrSpoiled
  <2>2. CASE handles[h].currentcluster \in FreeClusters(y.d)
    BY <1>4, <2>2
  <2>3. CASE /\ y.h.currentcluster = handles[h].currentcluster
             /\ \A a \in Place(disk, c) : a \in Place(y.d, c) \/ a \in FreeClusters(y.d)
             /\ handles[h].currentcluster \notin FreeClusters(y.d)
    <3>1. y.h.entry.first = c
      BY <1>2, <1>3 DEF Moved
    <3>2. Names \subseteq spoiled \/ Near(disk, handles[h])
      BY <1>1 DEF Contents, StaysNear
    <3>3. Near(disk, handles[h]) => Near(y.d, y.h)
      BY <2>3, <3>1 DEF Near
    <3> QED BY <1>3, <1>5, <3>2, <3>3
  <2> QED BY <1>3, <2>1, <2>2, <2>3
<1>7. /\ \A m \in Names : m # handles[h].entry.name => content'[m] = content[m]
      /\ \A g \in Handles : g # h => session'[g] = session[g]
      /\ y.d.stray => spoiled' # {}
  BY <1>4, <1>5
<1>8. Contents'
  BY <1>1, <1>3, <1>4, <1>5, <1>6, <1>7, ContentsStep
<1> QED BY <1>4, <1>8, NoReadIs

(* A write that is supported leaves an honest handle.                      *)
LEMMA StoresWrite ==
    ASSUME ChainsInv, Contents, NEW h \in Handles, NEW v \in Values, NEW n \in 1 .. MaxCount,
           Write(h, v, n)
    PROVE  Contents' /\ ReadsHonest'
<1> DEFINE y == _filewrite(X(h), v, n)
           name == handles[h].entry.name
           at == handles[h].position
           c == content[name]
           c2 == Overwritten(c, at, v, n)
           s == session[h]
           s2 == IF (at + n) % S = 0 THEN "full" ELSE "writing"
<1>1. h \in OpenHandles /\ n \in Nat /\ n > 0
  BY Constants DEF Write, OpenHandles
<1>2. /\ Handled(X(h)) /\ X(h).d = disk /\ X(h).h = handles[h] /\ handles[h].totalclusters \in Nat
      /\ name \in Names /\ at \in Nat
  BY <1>1, OpenIs
<1>3. Roomy(X(h), at + n)
  BY <1>2 DEF Write, Room, Roomy
<1>4. Moved(X(h), y) /\ OwnData(X(h), y)
  <2> HIDE DEF y
  <2> QED BY <1>1, <1>2, <1>3, WriteIs DEF y
<1>5. /\ Becomes(h, y) /\ slots' = slots
      /\ lost' = lost /\ got' = NoRead /\ Judge(~Spoils(h, n), h)
      /\ content' = IF at > Len(c) THEN content ELSE [content EXCEPT ![name] = c2]
      /\ session' = [session EXCEPT ![h] = s2]
  BY DEF Write
<1>6. /\ content \in [Names -> Seq(Values)]
      /\ session \in [Handles -> {"none", "reading", "writing", "full"}]
  BY DEF ChainsInv, Types
<1>7. Spoils(h, n) <=> Amiss(c, s, at, n)
  BY DEF Spoils, Amiss
<1>8. ASSUME name \notin spoiled, ~Spoils(h, n)
      PROVE  at <= Len(c) /\ Honest(y.d, y.h, c2, s2) /\ y.d.stray = disk.stray
  <2>1. OpenFile(h)
    BY <1>1 DEF Contents
  <2>2. /\ Fits(disk, handles[h], c) /\ Honest(disk, handles[h], c, s)
        /\ handles[h].entry.size = Len(c) /\ at <= Len(c) /\ Len(c) <= Capacity(handles[h])
        /\ handles[h].totalclusters = Len(ChainFrom(disk, handles[h].entry.first))
    BY <1>1, <1>8, <2>1, OpenFits
  <2> HIDE DEF c, y, s, c2, s2, at
  <2>3. /\ Fits(X(h).d, X(h).h, c) /\ Honest(X(h).d, X(h).h, c, s)
        /\ X(h).h.position <= Len(c) /\ X(h).h.entry.size <= Capacity(X(h).h)
        /\ X(h).h.totalclusters = Len(ChainFrom(X(h).d, X(h).h.entry.first))
        /\ X(h).h.position = at
    BY <1>2, <2>2 DEF at
  <2>4. ~Amiss(c, s, X(h).h.position, n) /\ Roomy(X(h), X(h).h.position + n)
    BY <1>3, <1>7, <1>8, <2>3
  <2>5. /\ Honest(y.d, y.h, Overwritten(c, X(h).h.position, v, n),
                  IF (X(h).h.position + n) % S = 0 THEN "full" ELSE "writing")
        /\ y.d.stray = X(h).d.stray
    BY <1>1, <1>2, <2>3, <2>4, WriteHonest DEF y
  <2> QED BY <1>2, <2>2, <2>3, <2>5 DEF c2, s2
<1> HIDE DEF y, c2, s2
<1>9. /\ spoiled \subseteq spoiled' /\ spoiled' \subseteq Names
      /\ ~Spoils(h, n) => spoiled' = spoiled
      /\ Spoils(h, n) => name \in spoiled'
  <2> DEFINE p == ~Spoils(h, n)
  <2>1. Judge(p, h)
    BY <1>5
  <2>2. /\ spoiled \subseteq spoiled' /\ spoiled' \subseteq Names
        /\ p => spoiled' = spoiled
        /\ ~p => name \in spoiled'
    <3> HIDE DEF p
    <3> QED BY <1>1, <2>1, JudgeIs
  <2> QED BY <2>2
<1>10. \/ Names \subseteq spoiled'
       \/ /\ Near(y.d, y.h)
          /\ \A a \in Clusters \ Place(y.d, handles[h].entry.first) : y.d.data[a] = disk.data[a]
  BY <1>1, <1>4, <1>9, OwnOrSpoiled
<1>11. ASSUME name \notin spoiled'
       PROVE  /\ Honest(y.d, y.h, content'[name], session'[h])
              /\ session'[h] # "reading" /\ y.d.stray = disk.stray /\ spoiled' = spoiled
  <2>1. name \notin spoiled /\ ~Spoils(h, n)
    BY <1>9, <1>11
  <2>2. at <= Len(c) /\ Honest(y.d, y.h, c2, s2) /\ y.d.stray = disk.stray
    BY <1>8, <2>1
  <2>3. Len(c) \in Nat
    BY <1>2, ContentIs
  <2> HIDE DEF c, at, name
  <2>4. content' = [content EXCEPT ![name] = c2]
    <3>1. ~ (at > Len(c))
      BY <1>2, <2>2, <2>3
    <3> QED BY <1>5, <3>1
  <2>5. content'[name] = c2 /\ session'[h] = s2
    BY <1>2, <1>5, <1>6, <2>4
  <2>6. s2 # "reading"
    BY DEF s2
  <2> QED BY <1>9, <2>1, <2>2, <2>5, <2>6
<1>12. /\ \A m \in Names : m # name => content'[m] = content[m]
       /\ \A g \in Handles : g # h => session'[g] = session[g]
  <2> HIDE DEF c, at, name
  <2> QED BY <1>5, <1>6
<1>13. y.d.stray => spoiled' # {}
  <2>1. CASE name \in spoiled'
    BY <2>1
  <2>2. CASE name \notin spoiled'
    <3>1. y.d.stray = disk.stray /\ spoiled' = spoiled
      BY <1>11, <2>2
    <3> QED BY <3>1 DEF Contents, NoStrayWrites
  <2> QED BY <2>1, <2>2
<1>14. Contents'
  BY <1>1, <1>4, <1>5, <1>9, <1>10, <1>11, <1>12, <1>13, ContentsStep
<1> QED BY <1>5, <1>14, NoReadIs

(* No handle and no file has changed.                                      *)
LEMMA ContentsDisk ==
    ASSUME ChainsInv, Contents, handles' = handles, slots' = slots, content' = content,
           session' = session, spoiled' = spoiled, lost' = lost,
           \A r \in Roots : Undisturbed(disk, disk', r), disk'.stray = disk.stray
    PROVE  Contents'
<1>1. OpenHandles' = OpenHandles
  BY DEF OpenHandles
<1>2. \A m : Visible(m)' = Visible(m) /\ Users(m)' = Users(m)
  BY DEF Visible, Users
<1>3. ASSUME NEW g \in OpenHandles PROVE StaysNear(g)' /\ OpenFile(g)'
  <2>1. Undisturbed(disk, disk', handles[g].entry.first)
    BY OpenIs
  <2>2. StaysNear(g) /\ OpenFile(g)
    BY DEF Contents
  <2>3. OpenFile(g)'
    <3>1. \A k \in Visible(handles[g].entry.name)' :
              k \in Visible(handles[g].entry.name) /\ slots'[k] = slots[k]
      BY DEF Visible
    <3> QED BY <2>1, <2>2, <3>1, OpenFileStays
  <2>4. Near(disk, handles[g]) => Near(disk', handles[g])
    BY <2>1, NearStays
  <2> QED BY <2>2, <2>3, <2>4 DEF StaysNear
<1>4. ASSUME NEW m \in Names PROVE ClosedFile(m)'
  <2>1. ClosedFile(m)
    BY DEF Contents
  <2>2. ASSUME NEW k \in Visible(m) PROVE slots'[k] = slots[k] /\ Undisturbed(disk, disk', slots[k].first)
    <3>1. k \in UsedSlots
      BY Constants DEF Visible, UsedSlots
    <3> QED BY <3>1, DiskParts
  <2> QED BY <1>2, <2>1, <2>2, ClosedFileStays
<1>5. NoStrayWrites'
  BY DEF Contents, NoStrayWrites
<1> QED BY <1>1, <1>3, <1>4, <1>5 DEF Contents

LEMMA SameDisk ==
    ASSUME ChainsInv, disk' = disk, NEW r \in Roots
    PROVE  Undisturbed(disk, disk', r)
  BY DiskParts DEF Apart, Undisturbed

(* The calls that fail.                                                    *)
LEMMA StoresOpenFails ==
    ASSUME ChainsInv, Contents, NEW n \in Names, OpenFails(n)
    PROVE  Contents' /\ ReadsHonest'
<1>1. /\ disk' = disk /\ slots' = slots /\ handles' = handles /\ content' = content
      /\ session' = session /\ spoiled' = spoiled /\ lost' = lost /\ got' = NoRead
  BY DEF OpenFails, ghosts, use
<1>2. disk'.stray = disk.stray /\ \A r \in Roots : Undisturbed(disk, disk', r)
  BY <1>1, SameDisk
<1> QED BY <1>1, <1>2, ContentsDisk, NoReadIs

LEMMA StoresSeekFails ==
    ASSUME ChainsInv, Contents, NEW h \in Handles, SeekFails(h)
    PROVE  Contents' /\ ReadsHonest'
<1>1. /\ disk' = disk /\ slots' = slots /\ handles' = handles /\ content' = content
      /\ session' = session /\ spoiled' = spoiled /\ lost' = lost /\ got' = NoRead
  BY DEF SeekFails, ghosts, use
<1>2. disk'.stray = disk.stray /\ \A r \in Roots : Undisturbed(disk, disk', r)
  BY <1>1, SameDisk
<1> QED BY <1>1, <1>2, ContentsDisk, NoReadIs

(* A cluster that is taken was in no file.                                 *)
LEMMA FreshUndisturbed ==
    ASSUME ChainsInv, Room(0, 1), NEW r \in Roots
    PROVE  LET c == fatfindfreecluster(disk)
               e == [disk EXCEPT !.fat[c] = END]
           IN  Undisturbed(disk, e, r)
<1> DEFINE c == fatfindfreecluster(disk)
           e == [disk EXCEPT !.fat[c] = END]
<1>1. c \in FreeClusters(disk) /\ e.data = disk.data /\ e.fat = [disk.fat EXCEPT ![c] = END]
  BY FreshDisk
<1>2. disk.fat \in Tables /\ Apart(disk, Roots)
  BY DiskParts
<1> HIDE DEF c, e
<1>3. /\ c \notin Roots /\ Apart(e, Roots \cup {c}) /\ Apart(e, Roots)
      /\ \A b \in Roots : ChainFrom(e, b) = ChainFrom(disk, b)
  <2>1. c \in FreeClusters(disk) /\ e.fat = [disk.fat EXCEPT ![c] = END]
    BY <1>1
  <2> QED BY <1>2, <2>1, FreshApart
<1>4. Undisturbed(disk, e, r)
  BY <1>1, <1>2, <1>3 DEF Apart, Undisturbed
<1> QED BY <1>4 DEF c, e

LEMMA StoresCreateFails ==
    ASSUME ChainsInv, Contents, NEW n \in Names, CreateFails(n)
    PROVE  Contents' /\ ReadsHonest'
<1> DEFINE c == fatfindfreecluster(disk)
           e == [disk EXCEPT !.fat[c] = END]
<1>1. /\ Room(0, 1) /\ disk' = e /\ slots' = slots /\ handles' = handles /\ content' = content
      /\ session' = session /\ spoiled' = spoiled /\ lost' = lost /\ got' = NoRead
  BY DEF CreateFails, ghosts, use
<1>2. e.stray = disk.stray
  BY <1>1, FreshDisk
<1>3. \A r \in Roots : Undisturbed(disk, e, r)
  BY <1>1, FreshUndisturbed
<1> HIDE DEF e
<1> QED BY <1>1, <1>2, <1>3, ContentsDisk, NoReadIs

-----------------------------------------------------------------------------
(* A file is opened or created.                                            *)

(* One handle is opened, and no other file is touched.                     *)
LEMMA AddedFile ==
    ASSUME ChainsInv, Contents, NEW h \in Handles, ~handles[h].opened, NEW n \in Names, NEW g,
           g.opened = TRUE, g.entry.name = n, handles' = [handles EXCEPT ![h] = g], Users(n) = {},
           \A r \in Roots : Undisturbed(disk, disk', r), disk'.stray = disk.stray,
           spoiled' = spoiled, NEW s, session' = [session EXCEPT ![h] = s],
           \A m \in Names : m # n =>
              /\ content'[m] = content[m]
              /\ m \in lost => m \in lost'
              /\ Visible(m)' = Visible(m)
              /\ \A k \in Visible(m) : slots'[k] = slots[k],
           Near(disk', g),
           n \notin spoiled =>
              /\ Honest(disk', g, content'[n], s)
              /\ s = "reading" => \A k \in Visible(n)' : slots'[k] = g.entry,
           Visible(n)' = {} => n \in lost'
    PROVE  Contents'
<1>1. /\ handles \in [Handles -> Opened \cup {Closed}]
      /\ session \in [Handles -> {"none", "reading", "writing", "full"}]
  BY DEF ChainsInv, Types
<1>2. /\ handles'[h] = g /\ session'[h] = s
      /\ \A f \in Handles : f # h => handles'[f] = handles[f] /\ session'[f] = session[f]
  BY <1>1
<1>3. \A f \in Handles : f \in OpenHandles' <=> f \in OpenHandles \/ f = h
  BY <1>2 DEF OpenHandles
<1>4. \A m \in Names : m # n => Users(m)' = Users(m)
  BY <1>2 DEF Users
<1>5. h \in Users(n)'
  BY <1>2 DEF Users
<1>6. ASSUME NEW f \in OpenHandles'
      PROVE  StaysNear(f)' /\ OpenFile(f)'
  <2>0. f \in Handles
    BY DEF OpenHandles
  <2>1. CASE f = h
    <3>1. StaysNear(h)'
      BY <1>2 DEF StaysNear
    <3>2. OpenFile(h)'
      BY <1>2 DEF OpenFile, Visible
    <3> QED BY <2>1, <3>1, <3>2
  <2>2. CASE f # h
    <3>1. f \in OpenHandles
      BY <1>3, <2>0, <2>2
    <3>2. PICK m \in Names : m = handles[f].entry.name
      BY <3>1, OpenIs
    <3>3. m # n
      BY <2>0, <3>1, <3>2 DEF Users, OpenHandles
    <3>4. Undisturbed(disk, disk', handles[f].entry.first)
      BY <3>1, OpenIs
    <3>5. StaysNear(f) /\ OpenFile(f)
      BY <3>1 DEF Contents
    <3>6. handles'[f] = handles[f] /\ session'[f] = session[f]
      BY <1>2, <2>0, <2>2
    <3>7. /\ content'[m] = content[m] /\ Visible(m)' = Visible(m)
          /\ \A k \in Visible(m) : slots'[k] = slots[k]
      BY <3>3
    <3>8. OpenFile(f)'
      <4>1. content'[handles[f].entry.name] = content[handles[f].entry.name]
        BY <3>2, <3>7
      <4>2. \A k \in Visible(handles[f].entry.name)' :
              k \in Visible(handles[f].entry.name) /\ slots'[k] = slots[k]
        <5>1. handles'[f].entry.name = m /\ handles[f].entry.name = m
          BY <3>2, <3>6
        <5>2. \A k \in Visible(m)' : k \in Visible(m) /\ slots'[k] = slots[k]
          BY <3>7
        <5> QED BY <5>1, <5>2 DEF Visible
      <4> QED BY <3>1, <3>4, <3>5, <3>6, <4>1, <4>2, OpenFileStays
    <3>9. Near(disk, handles[f]) => Near(disk', handles[f])
      BY <3>4, NearStays
    <3> QED BY <3>5, <3>6, <3>8, <3>9 DEF StaysNear
  <2> QED BY <2>1, <2>2
<1>7. ASSUME NEW m \in Names PROVE ClosedFile(m)'
  <2>1. CASE m = n
    BY <1>5, <2>1 DEF ClosedFile
  <2>2. CASE m # n
    <3>1. ClosedFile(m)
      BY DEF Contents
    <3>2. /\ content'[m] = content[m] /\ Visible(m)' = Visible(m) /\ (m \in lost => m \in lost')
          /\ Users(m)' = Users(m)
      BY <1>4, <2>2
    <3>3. ASSUME NEW k \in Visible(m) PROVE slots'[k] = slots[k] /\ Undisturbed(disk, disk', slots[k].first)
      <4>1. k \in UsedSlots
        BY Constants DEF Visible, UsedSlots
      <4> QED BY <2>2, <4>1, DiskParts
    <3> QED BY <3>1, <3>2, <3>3, ClosedFileStays
  <2> QED BY <2>1, <2>2
<1>8. NoStrayWrites'
  BY DEF Contents, NoStrayWrites
<1> QED BY <1>6, <1>7, <1>8 DEF Contents

(* The handle of a file that is opened, and sought to the end if           *)
(* appending.                                                              *)
LEMMA StoresOpen ==
    ASSUME ChainsInv, Contents, NEW h \in Handles, NEW n \in Names, NEW append \in BOOLEAN, Open(h, n, append)
    PROVE  Contents' /\ ReadsHonest'
<1> DEFINE k == SearchEnd(n)
           g == filenew(disk, slots[k], FALSE)
           x == [d |-> disk, h |-> g]
           y == IF append THEN fileseek(x, x.h.entry.size) ELSE x
           first == slots[k].first
           c == content[n]
<1>1. /\ ~handles[h].opened /\ Users(n) = {} /\ Found(n)
      /\ Becomes(h, y)
      /\ session' = [session EXCEPT ![h] = "reading"]
      /\ got' = NoRead /\ slots' = slots /\ content' = content
      /\ spoiled' = spoiled /\ lost' = lost
  <2> HIDE DEF g
  <2> QED BY DEF Open, use, g
<1>2. /\ k \in UsedSlots /\ slots[k].name = n /\ slots[k] \in FileEntries
      /\ HasChain(disk, first) /\ slots[k].size \in Nat /\ first \in Roots /\ Visible(n) = {k}
  <2>1. /\ k \in UsedSlots /\ slots[k].name = n /\ slots[k] \in FileEntries
        /\ HasChain(disk, first) /\ first \in Roots
    BY <1>1, FoundIs
  <2>2. Visible(n) = {k}
    BY <1>1, FoundBy
  <2> QED BY <2>1, <2>2 DEF FileEntries
<1> HIDE DEF k
<1>3. Opening(disk, slots[k], FALSE, g)
  <2>1. disk \in Disks /\ FALSE \in BOOLEAN
    BY DiskParts
  <2> QED BY <1>2, <2>1, FileNewIs
<1> HIDE DEF g
<1>4. /\ Handled(x) /\ x.d = disk /\ x.h = g /\ g \in Opened /\ g.opened = TRUE /\ g.entry = slots[k]
      /\ g.position = 0 /\ ~g.dirty /\ g.sectorincluster = 0 /\ g.currentcluster = first
      /\ g.buffer = fatreadsector(disk, first, 0)
  BY <1>3 DEF Opening, Opened
<1> HIDE DEF x
<1>5. first \in Place(disk, first)
  BY <1>2, ChainParts
<1>6. Near(disk, g)
  BY <1>4, <1>5 DEF Near
<1>7. ASSUME n \notin spoiled
      PROVE  /\ Fits(disk, g, c) /\ Honest(disk, g, c, "reading") /\ slots[k].size = Len(c)
  <2>1. ClosedFile(n)
    BY DEF Contents
  <2>2. Stored(disk, slots[k], c)
    BY <1>1, <1>2, <1>7, <2>1 DEF ClosedFile
  <2>3. slots[k].size <= Len(ChainFrom(disk, first)) * PerCluster
    BY <1>2, <1>7 DEF ChainsInv, Chains
  <2>4. c \in Seq(Values) /\ disk \in Disks
    BY ContentIs, DiskParts
  <2>5. slots[k].size = Len(c) /\ Held(disk, ChainFrom(disk, first), c)
    BY <2>2 DEF Stored
  <2> HIDE DEF c
  <2>6. Fits(disk, g, c)
    BY <1>2, <1>4, <2>3, <2>4, <2>5 DEF Fits
  <2>7. Honest(disk, g, c, "reading")
    BY <1>4, <2>5, <2>6, OpenHonest
  <2> QED BY <2>5, <2>6, <2>7
<1>8. /\ y.d = disk /\ y.h.entry = slots[k] /\ y.h.opened = TRUE /\ Near(disk, y.h)
      /\ n \notin spoiled => Honest(disk, y.h, c, "reading")
  <2>1. CASE append
    <3> DEFINE z == fileseek(x, x.h.entry.size)
    <3>1. y = z
      BY <2>1
    <3>2. x.h.entry.size \in Nat
      BY <1>2, <1>4
    <3>3. Moved(x, z) /\ OwnData(x, z) /\ z.d = disk /\ SameFile(x.h, z.h)
      BY <1>4, <3>2, SeekIs
    <3>4. n \notin spoiled => Honest(z.d, z.h, c, "reading")
      <4> HIDE DEF c
      <4> SUFFICES ASSUME n \notin spoiled PROVE Honest(z.d, z.h, c, "reading")
        OBVIOUS
      <4>1. Fits(x.d, x.h, c) /\ Honest(x.d, x.h, c, "reading") /\ x.h.entry.size <= Len(c)
        <5>1. slots[k].size \in Nat /\ slots[k].size = Len(c)
          BY <1>2, <1>7
        <5> QED BY <1>4, <1>7, <5>1
      <4> QED BY <1>4, <3>2, <4>1, SeekHonest
    <3> HIDE DEF z, y
    <3>5. z.h.entry = slots[k] /\ z.h.opened = TRUE
      BY <1>4, <3>3, HandleParts DEF Moved, SameFile
    <3>6. Near(disk, z.h)
      BY <1>4, <1>6, <3>3 DEF OwnData
    <3> QED BY <3>1, <3>3, <3>4, <3>5, <3>6
  <2>2. CASE ~append
    <3>1. y = x
      BY <2>2
    <3> QED BY <1>4, <1>6, <1>7, <3>1
  <2> QED BY <2>1, <2>2
<1> HIDE DEF y, first
<1>9. disk' = disk /\ handles' = [handles EXCEPT ![h] = y.h]
  BY <1>1, <1>8 DEF Becomes
<1>10. disk'.stray = disk.stray /\ \A r \in Roots : Undisturbed(disk, disk', r)
  BY <1>9, SameDisk
<1>11. \A m : Visible(m)' = Visible(m)
  BY <1>1 DEF Visible
<1>12. Contents'
  <2> DEFINE s == "reading"
             f == y.h
  <2>1. f.opened = TRUE /\ f.entry.name = n /\ handles' = [handles EXCEPT ![h] = f] /\ Near(disk', f)
    BY <1>2, <1>8, <1>9
  <2>2. session' = [session EXCEPT ![h] = s]
    BY <1>1
  <2>3. \A m \in Names : m # n =>
              /\ content'[m] = content[m]
              /\ m \in lost => m \in lost'
              /\ Visible(m)' = Visible(m)
              /\ \A j \in Visible(m) : slots'[j] = slots[j]
    BY <1>1, <1>11
  <2>4. n \notin spoiled =>
              /\ Honest(disk', f, content'[n], s)
              /\ s = "reading" => \A j \in Visible(n)' : slots'[j] = f.entry
    BY <1>1, <1>2, <1>8, <1>9, <1>11
  <2>5. Visible(n)' = {} => n \in lost'
    BY <1>2, <1>11
  <2>6. ~handles[h].opened /\ Users(n) = {} /\ spoiled' = spoiled
    BY <1>1
  <2> HIDE DEF s, f
  <2> QED
    BY ONLY ChainsInv, Contents, h \in Handles, n \in Names, <1>10, <2>6, <2>1, <2>2, <2>3, <2>4, <2>5, AddedFile
<1> QED BY <1>1, <1>12, NoReadIs

(* A file that is created, in a slot where it is seen or, lost, in the     *)
(* last one.                                                               *)
LEMMA StoresCreate ==
    ASSUME ChainsInv, Contents, NEW h \in Handles, NEW n \in Names, Create(h, n)
    PROVE  Contents' /\ ReadsHonest'
<1> DEFINE c == fatfindfreecluster(disk)
           k == SearchEnd(n)
           entry == [name |-> n, size |-> 0, first |-> c]
           d == [disk EXCEPT !.fat[c] = END]
           g == filenew(d, entry, TRUE)
           s == "writing"
<1>1. /\ ~handles[h].opened /\ Users(n) = {} /\ ~Found(n) /\ Room(0, 1)
      /\ slots' = [slots EXCEPT ![k] = entry]
      /\ disk' = d /\ handles' = [handles EXCEPT ![h] = g]
      /\ lost' = (lost \cup IF InReach(k) THEN {} ELSE {n, slots[k].name}) \ {NoName}
      /\ content' = [content EXCEPT ![n] = <<>>]
      /\ session' = [session EXCEPT ![h] = s]
      /\ got' = NoRead /\ spoiled' = spoiled
  <2> HIDE DEF g
  <2> QED BY DEF Create, Becomes, ProperUse, use, g
<1>2. /\ c \in FreeClusters(disk) /\ c \in Clusters /\ d \in Disks /\ d.stray = disk.stray
      /\ d.fat = [disk.fat EXCEPT ![c] = END]
  BY <1>1, FreshDisk
<1>3. \A r \in Roots : Undisturbed(disk, d, r)
  BY <1>1, FreshUndisturbed
<1> HIDE DEF c, d
<1>4. c \notin Roots /\ Apart(d, Roots \cup {c}) /\ HasChain(d, c)
  <2>1. disk.fat \in Tables /\ Apart(disk, Roots)
    BY DiskParts
  <2> QED BY <1>2, <2>1, FreshApart
<1>5. entry \in FileEntries /\ entry.first = c /\ entry.name = n /\ entry.size = 0
  BY <1>2 DEF FileEntries
<1> HIDE DEF entry
<1>6. Honest(d, g, <<>>, "writing")
  BY <1>2, <1>4, <1>5, CreateHonest
<1>7. g.opened = TRUE /\ g.entry = entry /\ g.currentcluster = c
  <2>1. Opening(d, entry, TRUE, g)
    <3>1. HasChain(d, entry.first) /\ TRUE \in BOOLEAN
      BY <1>4, <1>5
    <3> QED BY <1>2, <1>5, <3>1, FileNewIs
  <2> HIDE DEF g
  <2> QED BY <1>5, <2>1 DEF Opening, Opened
<1> HIDE DEF g
<1>8. Near(d, g)
  <2>1. c \in Place(d, c)
    BY <1>4, ChainParts
  <2> QED BY <1>5, <1>7, <2>1 DEF Near
<1>9. /\ k \in Slots /\ (InReach(k) => k \notin UsedSlots)
      /\ \A j \in UsedSlots : j # k => slots[j].name # n
  BY <1>1, NotFoundIs
<1> HIDE DEF k
<1>10. slots'[k] = entry /\ \A j \in Slots : j # k => slots'[j] = slots[j]
  BY <1>1, <1>9, DiskParts
<1>11. NoName \notin Names /\ content \in [Names -> Seq(Values)]
  BY Constants DEF ChainsInv, Types
<1>12. ASSUME NEW m \in Names, m # n
       PROVE  /\ content'[m] = content[m]
              /\ m \in lost => m \in lost'
              /\ Visible(m)' = Visible(m)
              /\ \A j \in Visible(m) : slots'[j] = slots[j]
  <2>1. ASSUME NEW j \in Slots, InReach(j) PROVE slots'[j].name = m <=> slots[j].name = m
    <3>1. CASE j = k
      <4>1. slots[k].name = NoName
        BY <1>9, <2>1, <3>1 DEF UsedSlots
      <4> QED BY <1>5, <1>10, <1>11, <1>12, <3>1, <4>1
    <3>2. CASE j # k
      BY <1>10, <3>2
    <3> QED BY <3>1, <3>2
  <2>2. \A j : InReach(j)' <=> InReach(j)
    BY DEF InReach
  <2>3. Visible(m)' = Visible(m)
    BY <2>1, <2>2 DEF Visible
  <2>4. ASSUME NEW j \in Visible(m) PROVE slots'[j] = slots[j]
    <3>1. j \in Slots /\ InReach(j) /\ slots[j].name = m
      BY DEF Visible
    <3>2. j # k
      <4>1. j \in UsedSlots
        BY <1>11, <3>1 DEF UsedSlots
      <4> QED BY <1>9, <3>1, <4>1
    <3> QED BY <1>10, <3>1, <3>2
  <2>5. m \in lost => m \in lost'
    BY <1>1, <1>11
  <2>6. content'[m] = content[m]
    BY <1>1, <1>11, <1>12
  <2> QED BY <2>3, <2>4, <2>5, <2>6
<1>13. Visible(n)' = {} => n \in lost'
  <2>1. InReach(k) => k \in Visible(n)'
    BY <1>5, <1>9, <1>10 DEF Visible, InReach
  <2>2. ~InReach(k) => n \in lost'
    BY <1>1, <1>11
  <2> QED BY <2>1, <2>2
<1>14. Contents'
  <2>1. content'[n] = <<>>
    BY <1>1, <1>11
  <2>2. s # "reading"
    OBVIOUS
  <2>3. Honest(disk', g, content'[n], s) /\ Near(disk', g)
    BY <1>1, <1>6, <1>8, <2>1
  <2> HIDE DEF s
  <2>4. disk'.stray = disk.stray /\ \A r \in Roots : Undisturbed(disk, disk', r)
    BY <1>1, <1>2, <1>3
  <2>5. g.opened = TRUE /\ g.entry.name = n
    BY <1>5, <1>7
  <2> QED BY <1>1, <1>12, <1>13, <2>2, <2>3, <2>4, <2>5, AddedFile
<1> QED BY <1>1, <1>14, NoReadIs

-----------------------------------------------------------------------------
(* A file is closed, or left by its program.                               *)

(* One handle is closed; what it leaves on the disk is the contents.       *)
LEMMA RemovedFile ==
    ASSUME ChainsInv, Contents, NEW h \in OpenHandles, NEW n \in Names, n = handles[h].entry.name,
           handles' = [handles EXCEPT ![h] = Closed], session' = [session EXCEPT ![h] = "none"],
           content' = content, lost' = lost, spoiled \subseteq spoiled',
           \/ Names \subseteq spoiled'
           \/ \A r \in Roots : r # handles[h].entry.first => Undisturbed(disk, disk', r),
           \A m \in Names : /\ Visible(m)' = Visible(m)
                            /\ m # n => \A k \in Visible(m) : slots'[k] = slots[k],
           n \notin spoiled' => \A k \in Visible(n) : Stored(disk', slots'[k], content[n]),
           disk'.stray => spoiled' # {}
    PROVE  Contents'
<1>1. /\ h \in Handles /\ handles \in [Handles -> Opened \cup {Closed}]
      /\ session \in [Handles -> {"none", "reading", "writing", "full"}]
  BY OpenIs DEF ChainsInv, Types
<1>2. /\ handles'[h] = Closed
      /\ \A f \in Handles : f # h => handles'[f] = handles[f] /\ session'[f] = session[f]
  BY <1>1
<1>3. \A f \in OpenHandles' : f \in OpenHandles /\ f # h
  BY <1>2 DEF OpenHandles, Closed
<1>4. \A m \in Names : m # n => Users(m)' = Users(m)
  <2>1. \A f \in Handles, m \in Names : m # n =>
           ((handles'[f].opened /\ handles'[f].entry.name = m) <=> (handles[f].opened /\ handles[f].entry.name = m))
    BY <1>2 DEF Closed
  <2> QED BY <2>1 DEF Users
<1>5. Users(n) # {}
  BY <1>1 DEF Users, OpenHandles
<1>6. CASE Names \subseteq spoiled'
  <2>1. \A f \in OpenHandles' : handles'[f].entry.name \in Names
    BY <1>2, <1>3, OpenIs
  <2> QED BY <1>6, <2>1, AllSpoiled
<1>7. CASE ~ (Names \subseteq spoiled')
  <2>1. \A r \in Roots : r # handles[h].entry.first => Undisturbed(disk, disk', r)
    BY <1>7
  <2>2. ASSUME NEW f \in OpenHandles' PROVE StaysNear(f)' /\ OpenFile(f)'
    <3>1. f \in OpenHandles /\ f # h /\ f \in Handles
      BY <1>3 DEF OpenHandles
    <3>2. PICK m \in Names : m = handles[f].entry.name
      BY <3>1, OpenIs
    <3>3. m # n /\ handles[f].entry.first # handles[h].entry.first /\ handles[f].entry.first \in Roots
      BY <3>1, <3>2, RootsDiffer
    <3>4. Undisturbed(disk, disk', handles[f].entry.first)
      BY <2>1, <3>3
    <3>5. StaysNear(f) /\ OpenFile(f)
      BY <3>1 DEF Contents
    <3>6. handles'[f] = handles[f] /\ session'[f] = session[f]
      BY <1>2, <3>1
    <3>7. \A k \in Visible(handles[f].entry.name)' :
              k \in Visible(handles[f].entry.name) /\ slots'[k] = slots[k]
      <4>1. handles'[f].entry.name = m /\ handles[f].entry.name = m
        BY <3>2, <3>6
      <4>2. \A k \in Visible(m)' : k \in Visible(m) /\ slots'[k] = slots[k]
        BY <3>3
      <4> QED BY <4>1, <4>2 DEF Visible
    <3>8. OpenFile(f)'
      BY <3>1, <3>4, <3>5, <3>6, <3>7, OpenFileStays
    <3>9. Near(disk, handles[f])
      BY <1>7, <3>5 DEF StaysNear
    <3>10. Near(disk', handles[f])
      BY <3>4, <3>9, NearStays
    <3> QED BY <3>6, <3>8, <3>10 DEF StaysNear
  <2>3. ASSUME NEW m \in Names PROVE ClosedFile(m)'
    <3>1. ClosedFile(m) /\ Visible(m)' = Visible(m)
      BY DEF Contents
    <3>2. CASE m = n
      <4> SUFFICES ASSUME n \notin spoiled'
                   PROVE  /\ \A k \in Visible(n) : Stored(disk', slots'[k], content[n])
                          /\ Visible(n) = {} => n \in lost
        BY <3>1, <3>2 DEF ClosedFile
      <4>1. Visible(n) = {} => n \in lost
        BY <1>5, <3>1, <3>2 DEF ClosedFile
      <4> QED BY <4>1
    <3>3. CASE m # n
      <4>1. ASSUME NEW k \in Visible(m) PROVE slots'[k] = slots[k] /\ Undisturbed(disk, disk', slots[k].first)
        <5>1. k \in UsedSlots /\ slots[k].name = m
          BY Constants DEF Visible, UsedSlots
        <5>2. slots[k].first # handles[h].entry.first /\ slots[k].first \in Roots
          BY <3>3, <5>1, RootsDiffer
        <5> QED BY <2>1, <3>3, <5>2
      <4>2. Users(m)' = Users(m)
        BY <1>4, <3>3
      <4> QED BY <3>1, <4>1, <4>2, ClosedFileStays
    <3> QED BY <3>2, <3>3
  <2>4. NoStrayWrites'
    BY DEF NoStrayWrites
  <2> QED BY <2>2, <2>3, <2>4 DEF Contents
<1> QED BY <1>6, <1>7

(* fileclose stores the entry and the sector.                              *)
LEMMA StoresClose ==
    ASSUME ChainsInv, Contents, NEW h \in Handles, Close(h)
    PROVE  Contents' /\ ReadsHonest'
<1> DEFINE entry == handles[h].entry
           y == fileflush(X(h))
           c == content[entry.name]
<1>1. h \in OpenHandles
  BY DEF Close, OpenHandles
<1>2. Handled(X(h)) /\ X(h).d = disk /\ X(h).h = handles[h]
  BY <1>1, OpenIs
<1>3. Moved(X(h), y) /\ OwnData(X(h), y) /\ y.d.fat = disk.fat
  BY <1>2, FlushIs
<1>4. /\ slots' = IF handles[h].dirty THEN dirupdateentry(entry) ELSE slots
      /\ disk' = y.d
      /\ handles' = [handles EXCEPT ![h] = Closed]
      /\ session' = [session EXCEPT ![h] = "none"]
      /\ got' = NoRead /\ content' = content /\ spoiled' = spoiled /\ lost' = lost
  BY DEF Close, use
<1>5. PICK n \in Names : n = entry.name
  BY <1>1, OpenIs
<1>6. \A j \in Slots : /\ slots'[j].name = slots[j].name
                       /\ slots[j].name # n => slots'[j] = slots[j]
                       /\ handles[h].dirty /\ j \in Visible(n) => slots'[j] = entry
  <2> DEFINE k == SearchEnd(entry.name)
  <2>1. CASE handles[h].dirty
    <3>1. slots' = dirupdateentry(entry)
      BY <1>4, <2>1
    <3>2. /\ \A j \in Slots : slots'[j] = IF Found(entry.name) /\ j = k THEN entry ELSE slots[j]
          /\ Found(entry.name) => /\ k \in UsedSlots /\ slots[k].name = entry.name
                                  /\ slots[k].first = entry.first
      BY <1>1, <3>1, UpdatedIs
    <3>3. /\ Found(n) => Visible(n) = {SearchEnd(n)}
          /\ ~Found(n) => Visible(n) = {}
      BY FoundBy
    <3> HIDE DEF entry, k
    <3>4. \A j \in Visible(n) : Found(entry.name) /\ j = k
      BY <1>5, <3>3 DEF k
    <3> QED BY <1>5, <3>2, <3>4
  <2>2. CASE ~handles[h].dirty
    BY <1>4, <2>2
  <2> QED BY <2>1, <2>2
<1>7. ASSUME NEW m \in Names
      PROVE  /\ Visible(m)' = Visible(m)
             /\ m # n => \A k \in Visible(m) : slots'[k] = slots[k]
  <2>1. Visible(m)' = Visible(m)
    BY <1>6 DEF Visible, InReach
  <2> QED BY <1>6, <2>1 DEF Visible
<1> HIDE DEF y
<1>8. \/ Names \subseteq spoiled'
      \/ \A r \in Roots : r # handles[h].entry.first => Undisturbed(disk, disk', r)
  <2>1. \/ Names \subseteq spoiled'
        \/ \A a \in Clusters \ Place(y.d, handles[h].entry.first) : y.d.data[a] = disk.data[a]
    BY <1>1, <1>3, <1>4, OwnOrSpoiled
  <2> QED BY <1>1, <1>3, <1>4, <2>1, OthersUndisturbed
<1>9. ASSUME n \notin spoiled
      PROVE  /\ \A k \in Visible(n) : Stored(y.d, slots'[k], content[n])
             /\ y.d.stray = disk.stray
  <2>1. OpenFile(h)
    BY <1>1 DEF Contents
  <2>2. /\ Fits(disk, handles[h], c) /\ Honest(disk, handles[h], c, session[h])
        /\ handles[h].entry.size = Len(c)
    BY <1>1, <1>5, <1>9, <2>1, OpenFits
  <2>3. Held(y.d, ChainFrom(disk, entry.first), c) /\ y.d.stray = disk.stray
    <3> HIDE DEF c
    <3>1. Fits(X(h).d, X(h).h, c) /\ Honest(X(h).d, X(h).h, c, session[h])
      BY <1>2, <2>2
    <3>2. Held(y.d, ChainFrom(X(h).d, X(h).h.entry.first), c) /\ y.d.stray = X(h).d.stray
      BY <1>2, <3>1, FlushHonest DEF y
    <3> QED BY <1>2, <3>2
  <2>4. ChainFrom(y.d, entry.first) = ChainFrom(disk, entry.first)
    <3>1. HasChain(disk, entry.first)
      BY <2>2 DEF Fits
    <3> HIDE DEF entry
    <3> QED BY <1>3, <3>1, RegrownSame
  <2>5. Stored(y.d, entry, c)
    BY <2>2, <2>3, <2>4 DEF Stored
  <2>6. ASSUME NEW k \in Visible(n) PROVE slots'[k] = entry
    <3>0. k \in Slots
      BY DEF Visible
    <3>1. CASE handles[h].dirty
      BY <1>6, <3>0, <3>1
    <3>2. CASE ~handles[h].dirty
      <4>1. session[h] = "reading"
        BY <2>2, <3>2 DEF Honest
      <4>2. slots[k] = entry
        BY <1>5, <1>9, <2>1, <4>1 DEF OpenFile
      <4> QED BY <1>4, <3>2, <4>2
    <3> QED BY <3>1, <3>2
  <2> QED BY <1>5, <2>3, <2>5, <2>6
<1>10. disk'.stray => spoiled' # {}
  <2>1. CASE n \in spoiled
    BY <1>4, <2>1
  <2>2. CASE n \notin spoiled
    BY <1>4, <1>9, <2>2 DEF Contents, NoStrayWrites
  <2> QED BY <2>1, <2>2
<1>11. Contents'
  <2>1. n = handles[h].entry.name /\ spoiled \subseteq spoiled'
    BY <1>4, <1>5
  <2>2. n \notin spoiled' => \A k \in Visible(n) : Stored(disk', slots'[k], content[n])
    BY <1>4, <1>9
  <2> QED BY <1>1, <1>4, <1>7, <1>8, <1>10, <2>1, <2>2, RemovedFile
<1> QED BY <1>4, <1>11, NoReadIs

(* A handle that is left has nothing that the disk does not have, or its   *)
(* file is spoiled.                                                        *)
LEMMA StoresDrop ==
    ASSUME ChainsInv, Contents, NEW h \in Handles, Drop(h)
    PROVE  Contents' /\ ReadsHonest'
<1> DEFINE entry == handles[h].entry
           c == content[entry.name]
           p == session[h] = "reading"
<1>1. h \in OpenHandles
  BY DEF Drop, OpenHandles
<1>2. /\ handles' = [handles EXCEPT ![h] = Closed] /\ session' = [session EXCEPT ![h] = "none"]
      /\ disk' = disk /\ slots' = slots /\ content' = content /\ lost' = lost
      /\ got' = NoRead /\ Judge(session[h] = "reading", h)
  BY DEF Drop, Abandons
<1>3. PICK n \in Names : n = entry.name
  BY <1>1, OpenIs
<1>4. /\ spoiled \subseteq spoiled'
      /\ p => spoiled' = spoiled
      /\ ~p => n \in spoiled'
  <2>1. Judge(p, h)
    BY <1>2
  <2> HIDE DEF p
  <2> QED BY <1>1, <1>3, <2>1, JudgeIs
<1>5. ASSUME NEW m \in Names
      PROVE  /\ Visible(m)' = Visible(m)
             /\ m # n => \A k \in Visible(m) : slots'[k] = slots[k]
  BY <1>2 DEF Visible
<1>6. \A r \in Roots : r # handles[h].entry.first => Undisturbed(disk, disk', r)
  BY <1>2, SameDisk
<1>7. ASSUME n \notin spoiled', NEW k \in Visible(n) PROVE Stored(disk', slots'[k], content[n])
  <2>1. session[h] = "reading" /\ n \notin spoiled
    BY <1>4, <1>7
  <2>2. OpenFile(h)
    BY <1>1 DEF Contents
  <2>3. /\ Fits(disk, handles[h], c) /\ Honest(disk, handles[h], c, "reading")
        /\ handles[h].entry.size = Len(c)
    BY <1>1, <1>3, <2>1, <2>2, OpenFits
  <2>4. Held(disk, ChainFrom(disk, entry.first), c)
    <3> HIDE DEF c
    <3> QED BY <2>3, ReadingIs
  <2>5. slots[k] = entry
    BY <1>3, <2>1, <2>2 DEF OpenFile
  <2> QED BY <1>2, <1>3, <2>3, <2>4, <2>5 DEF Stored
<1>8. disk'.stray => spoiled' # {}
  BY <1>2, <1>4 DEF Contents, NoStrayWrites
<1>9. Contents'
  <2>1. n = handles[h].entry.name
    BY <1>3
  <2>2. n \notin spoiled' => \A k \in Visible(n) : Stored(disk', slots'[k], content[n])
    BY <1>7
  <2> QED BY <1>1, <1>2, <1>4, <1>5, <1>6, <1>8, <2>1, <2>2, RemovedFile
<1> QED BY <1>2, <1>9, NoReadIs

-----------------------------------------------------------------------------
(* What is written is kept.                                                *)

(* The inductive invariant of all of it.                                   *)
ContentsInv == ChainsInv /\ Contents /\ ReadsHonest

(* At the start every file is empty.                                       *)
LEMMA StartsEmpty == Init => ContentsInv
<1> SUFFICES ASSUME Init PROVE Contents /\ ReadsHonest
  BY StartsApart DEF ContentsInv
<1>1. /\ handles = [h \in Handles |-> Closed] /\ slots = [k \in Slots |-> NoEntry]
      /\ content = [n \in Names |-> <<>>] /\ got = NoRead /\ disk.stray = FALSE
  BY DEF Init
<1>2. OpenHandles = {}
  BY <1>1 DEF OpenHandles, Closed
<1>3. \A n \in Names : Visible(n) = {} /\ Users(n) = {} /\ content[n] = <<>>
  BY <1>1, Constants DEF Visible, Users, Closed, NoEntry
<1>4. Contents
  BY <1>1, <1>2, <1>3 DEF Contents, ClosedFile, NoStrayWrites
<1>5. ReadsHonest
  BY <1>1, Constants DEF ReadsHonest, NoRead
<1> QED BY <1>4, <1>5

(* Every step keeps the contents.                                          *)
LEMMA KeepsContents == ContentsInv /\ [Next]_vars => ContentsInv'
<1> SUFFICES ASSUME ChainsInv, Contents, ReadsHonest, [Next]_vars
             PROVE  Contents' /\ ReadsHonest'
  BY KeepsChains DEF ContentsInv
<1>1. ASSUME NEW n \in Names, OpenFails(n) \/ CreateFails(n) PROVE Contents' /\ ReadsHonest'
  BY <1>1, StoresOpenFails, StoresCreateFails
<1>2. ASSUME NEW h \in Handles, NEW n \in Names,
             Create(h, n) \/ \E append \in BOOLEAN : Open(h, n, append)
      PROVE  Contents' /\ ReadsHonest'
  BY <1>2, StoresCreate, StoresOpen
<1>3. ASSUME NEW h \in Handles, NEW n \in 1 .. MaxCount,
             Read(h, n) \/ \E v \in Values : Write(h, v, n)
      PROVE  Contents' /\ ReadsHonest'
  <2>1. n \in Nat
    BY Constants
  <2> QED BY <1>3, <2>1, StoresRead, StoresWrite
<1>4. ASSUME NEW h \in Handles, NEW p \in 0 .. MaxSize, Seek(h, p) \/ Resize(h, p)
      PROVE  Contents' /\ ReadsHonest'
  <2>1. p \in Nat
    BY Constants
  <2> QED BY <1>4, <2>1, StoresSeek, StoresResize
<1>5. ASSUME NEW h \in Handles, SeekFails(h) \/ Rewind(h) \/ Flush(h) \/ Close(h) \/ Drop(h)
      PROVE  Contents' /\ ReadsHonest'
  BY <1>5, StoresSeekFails, StoresRewind, StoresFlush, StoresClose, StoresDrop
<1>6. CASE UNCHANGED vars
  <2>1. /\ disk' = disk /\ handles' = handles /\ slots' = slots /\ content' = content
        /\ session' = session /\ spoiled' = spoiled /\ lost' = lost /\ got' = got
    BY <1>6 DEF vars, ghosts, use
  <2>2. disk'.stray = disk.stray /\ \A r \in Roots : Undisturbed(disk, disk', r)
    BY <2>1, SameDisk
  <2>3. Contents'
    BY <2>1, <2>2, ContentsDisk
  <2>4. ReadsHonest'
    BY <2>1 DEF ReadsHonest
  <2> QED BY <2>3, <2>4
<1> QED BY <1>1, <1>2, <1>3, <1>4, <1>5, <1>6 DEF Next

(* In every state the clusters of each file that is not spoiled, with the  *)
(* buffer of the handle that has it open, hold what the calls on the file  *)
(* have written, and the last read returned what it should.                *)
THEOREM FilesContentsInvariant == Spec => []ContentsInv
<1> QED BY StartsEmpty, KeepsContents, PTL DEF Spec

(* What the clusters of the entry that is found hold, unit by unit.        *)
LEMMA StoredOnDisk ==
    ASSUME ChainsInv, NEW n \in Names, Stored(disk, slots[SearchEnd(n)], content[n])
    PROVE  OnDisk(n) = content[n]
<1> DEFINE c == content[n]
           entry == slots[SearchEnd(n)]
           p == ChainFrom(disk, entry.first)
           Cell(k) == disk.data[p[(k - 1) \div PerCluster + 1]][((k - 1) \div S) % SPC][(k - 1) % S]
<1>1. c \in Seq(Values) /\ entry.size = Len(c) /\ Held(disk, p, c)
  BY ContentIs DEF Stored
<1>2. OnDisk(n) = [k \in 1 .. entry.size |-> Cell(k)]
  BY DEF OnDisk
<1>3. ASSUME NEW k \in 1 .. Len(c) PROVE c[k] = Cell(k)
  <2> DEFINE i == k - 1
             q == i \div S
  <2>1. i \in Nat /\ i \in 0 .. Len(c) - 1 /\ i + 1 = k
    BY <1>1
  <2>2. i \div PerCluster = q \div SPC
    <3> HIDE DEF i
    <3> QED BY <2>1, UnitsOf
  <2> HIDE DEF c, p
  <2>3. c[i + 1] = Sector(disk, p, q)[i % S]
    <3> HIDE DEF i
    <3> QED BY <1>1, <2>1 DEF Held
  <2>4. Sector(disk, p, q) = disk.data[p[(q \div SPC) + 1]][q % SPC]
    BY DEF Sector
  <2>5. c[i + 1] = disk.data[p[(i \div PerCluster) + 1]][q % SPC][i % S]
    <3> HIDE DEF i, q
    <3> QED BY <2>2, <2>3, <2>4
  <2> QED BY <2>1, <2>5
<1> HIDE DEF Cell, c, entry
<1>4. c = [k \in 1 .. Len(c) |-> Cell(k)]
  BY <1>1, <1>3
<1> QED BY <1>1, <1>2, <1>4 DEF c

(* The properties are part of the invariant.                               *)
LEMMA ContentsImply == ContentsInv => ContentsKept /\ HandlesHonest /\ NoStrayWrites
<1> SUFFICES ASSUME ContentsInv PROVE ContentsKept /\ HandlesHonest /\ NoStrayWrites
  OBVIOUS
<1>1. ChainsInv /\ Contents /\ ReadsHonest
  BY DEF ContentsInv
<1>2. ASSUME NEW n \in Names \ (spoiled \cup lost), Users(n) = {} PROVE Kept(n)
  <2>1. ClosedFile(n)
    BY <1>1 DEF Contents
  <2>2. CASE Found(n)
    <3>1. SearchEnd(n) \in Visible(n)
      BY <1>1, <2>2, FoundBy
    <3>2. Stored(disk, slots[SearchEnd(n)], content[n])
      BY <1>2, <2>1, <3>1 DEF ClosedFile
    <3> QED BY <1>1, <2>2, <3>2, StoredOnDisk DEF Kept
  <2>3. CASE ~Found(n)
    <3>1. Visible(n) = {}
      BY <1>1, <2>3, FoundBy
    <3> QED BY <1>2, <2>1, <2>3, <3>1 DEF ClosedFile, Kept
  <2> QED BY <2>2, <2>3
<1>3. ContentsKept
  BY <1>2 DEF ContentsKept
<1> QED BY <1>1, <1>3 DEF HandlesHonest, Contents

(* What programs have written to a file is on the disk once the file is    *)
(* closed, whatever other programs do with other files and however badly   *)
(* they use those, as long as nobody uses this file in a way that the code *)
(* does not support: fileclose, fileflush and _filewrite lose no unit.     *)
THEOREM FilesContentsKept == Spec => []ContentsKept
<1> QED BY FilesContentsInvariant, ContentsImply, PTL

(* And fileread returns the file's units at the position of the handle,    *)
(* after any number of reads, seeks and rewinds over sectors and clusters. *)
THEOREM FilesHandlesHonest == Spec => []HandlesHonest
<1> QED BY FilesContentsInvariant, ContentsImply, PTL

(* No handle writes outside the data clusters before some file has been    *)
(* used in a way that the code does not support.                           *)
THEOREM FilesNoStrayWrites == Spec => []NoStrayWrites
<1> QED BY FilesContentsInvariant, ContentsImply, PTL

=============================================================================
