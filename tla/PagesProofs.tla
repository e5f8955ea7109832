---------------------------- MODULE PagesProofs ----------------------------
(***************************************************************************)
(* Proofs about Pages for any memory size, number of virtual pages and     *)
(* entries per table.  That every frame has one role (OneRole) and that    *)
(* mapped regions keep their pages depend on each other's type facts and   *)
(* on what each loop has done so far: the inductive invariant PInv joins   *)
(* them with BootInv (what the boot phases have set up) and LoopInv.       *)
(***************************************************************************)
EXTENDS Pages, SequenceTheorems, FiniteSetTheorems, TLAPS

Apart(q, a, n) == q[1] + q[2] <= a \/ a + n <= q[1]

\* which phases have which frames, and that calls run in the phases that make them
BootInv ==
    /\ phase \in {"kallocinit", "kpginit", "drivers"} => op = "idle"
    /\ phase \in {"kallocinit", "kpginit"} => kpgdir = NoPage /\ ktables = {}
    /\ phase = "kpginit" => Len(freemem) = FOURMB - FIRST
    /\ op = "unmap" => phase = "up"

\* what the iterations before i have found or made
LoopInv ==
    /\ op # "idle" => <<from, count>> \in Ranges
    /\ \A v \in VirtPages : pte[v] # NoPage => pde[PDX(v)] # NoPage
    /\ op = "check" => \A v \in from .. from + i - 1 : pde[PDX(v)] # NoPage /\ pte[v] = NoPage
    /\ op = "map" => \A v \in from .. from + i - 1 : pte[v] # NoPage
    /\ op \in {"map", "unmap"} => \A q \in regions : Apart(q, from, count)

PInv == TypeOK /\ OneRole /\ CountersHonest /\ BootInv /\ LoopInv /\ WalksSucceed /\ RegionsStayMapped

-----------------------------------------------------------------------------
(* Facts about the free list.                                              *)

FramesOf(s) == {s[k] : k \in 1 .. Len(s)}
Once(s)     == \A j, k \in 1 .. Len(s) : s[j] = s[k] => j = k

(* kalloc: taking the head of a list without repetition removes one frame, *)
(* the head, from the list's frames.                                       *)
LEMMA TakeHead ==
    ASSUME NEW s \in Seq(Frames), s # <<>>, Once(s)
    PROVE  /\ Head(s) \in FramesOf(s) /\ Head(s) \in Frames
           /\ Tail(s) \in Seq(Frames)
           /\ Len(Tail(s)) = Len(s) - 1
           /\ Once(Tail(s))
           /\ FramesOf(Tail(s)) = FramesOf(s) \ {Head(s)}
<1>1. /\ Len(s) \in Nat \ {0}
      /\ Head(s) = s[1]
      /\ Head(s) \in Frames
      /\ Tail(s) \in Seq(Frames)
      /\ Len(Tail(s)) = Len(s) - 1
      /\ \A k \in 1 .. Len(s) - 1 : Tail(s)[k] = s[k + 1]
  BY HeadTailProperties, EmptySeq
<1>2. Once(Tail(s))
  BY <1>1 DEF Once
<1>3. FramesOf(Tail(s)) \subseteq FramesOf(s) \ {Head(s)}
  BY <1>1 DEF Once, FramesOf
<1>4. ASSUME NEW k \in 1 .. Len(s), s[k] # Head(s)
      PROVE  s[k] \in FramesOf(Tail(s))
  <2>1. k - 1 \in 1 .. Len(Tail(s)) /\ Tail(s)[k - 1] = s[k]
    BY <1>1, <1>4
  <2> QED BY <2>1 DEF FramesOf
<1>5. Head(s) \in FramesOf(s)
  BY <1>1 DEF FramesOf
<1>6. FramesOf(s) \ {Head(s)} \subseteq FramesOf(Tail(s))
  BY <1>4 DEF FramesOf
<1> QED BY <1>1, <1>2, <1>3, <1>5, <1>6

(* kfree and kfreerange: putting other frames in front keeps the list      *)
(* without repetition and adds just these.                                 *)
LEMMA PutFront ==
    ASSUME NEW s \in Seq(Frames), Once(s), NEW t \in Seq(Frames), Once(t),
           FramesOf(s) \cap FramesOf(t) = {}
    PROVE  /\ t \o s \in Seq(Frames)
           /\ Len(t \o s) = Len(t) + Len(s)
           /\ Once(t \o s)
           /\ FramesOf(t \o s) = FramesOf(t) \cup FramesOf(s)
<1>1. /\ Len(s) \in Nat /\ Len(t) \in Nat
      /\ t \o s \in Seq(Frames)
      /\ Len(t \o s) = Len(t) + Len(s)
      /\ \A k \in 1 .. Len(t) + Len(s) :
            (t \o s)[k] = IF k <= Len(t) THEN t[k] ELSE s[k - Len(t)]
  BY ConcatProperties, LenProperties
<1>2. ASSUME NEW j \in 1 .. Len(t) + Len(s), NEW k \in 1 .. Len(t) + Len(s),
             (t \o s)[j] = (t \o s)[k]
      PROVE  j = k
  <2>1. CASE j <= Len(t) /\ k <= Len(t)
    <3>1. j \in 1 .. Len(t) /\ k \in 1 .. Len(t) /\ t[j] = t[k]
      BY <1>1, <1>2, <2>1
    <3> QED BY <3>1 DEF Once
  <2>2. CASE j > Len(t) /\ k > Len(t)
    <3>1. j - Len(t) \in 1 .. Len(s) /\ k - Len(t) \in 1 .. Len(s)
      BY <1>1, <2>2
    <3>2. s[j - Len(t)] = s[k - Len(t)]
      BY <1>1, <1>2, <2>2
    <3>3. j - Len(t) = k - Len(t)
      BY <3>1, <3>2 DEF Once
    <3> QED BY <3>3, <1>1
  <2>3. CASE j <= Len(t) /\ k > Len(t)
    <3>1. j \in 1 .. Len(t) /\ k - Len(t) \in 1 .. Len(s) /\ t[j] = s[k - Len(t)]
      BY <1>1, <1>2, <2>3
    <3> QED BY <3>1 DEF FramesOf
  <2>4. CASE j > Len(t) /\ k <= Len(t)
    <3>1. k \in 1 .. Len(t) /\ j - Len(t) \in 1 .. Len(s) /\ t[k] = s[j - Len(t)]
      BY <1>1, <1>2, <2>4
    <3> QED BY <3>1 DEF FramesOf
  <2> QED BY <1>1, <2>1, <2>2, <2>3, <2>4
<1>3. Once(t \o s)
  BY <1>1, <1>2 DEF Once
<1>4. FramesOf(t \o s) \subseteq FramesOf(t) \cup FramesOf(s)
  <2> SUFFICES ASSUME NEW k \in 1 .. Len(t) + Len(s)
               PROVE  (t \o s)[k] \in FramesOf(t) \cup FramesOf(s)
    BY <1>1 DEF FramesOf
  <2>1. CASE k <= Len(t)
    BY <1>1, <2>1 DEF FramesOf
  <2>2. CASE k > Len(t)
    <3>1. k - Len(t) \in 1 .. Len(s) /\ (t \o s)[k] = s[k - Len(t)]
      BY <1>1, <2>2
    <3> QED BY <3>1 DEF FramesOf
  <2> QED BY <1>1, <2>1, <2>2
<1>5. FramesOf(t) \subseteq FramesOf(t \o s)
  <2> SUFFICES ASSUME NEW k \in 1 .. Len(t) PROVE t[k] \in FramesOf(t \o s)
    BY DEF FramesOf
  <2>1. k \in 1 .. Len(t \o s) /\ (t \o s)[k] = t[k]
    BY <1>1
  <2> QED BY <2>1 DEF FramesOf
<1>6. FramesOf(s) \subseteq FramesOf(t \o s)
  <2> SUFFICES ASSUME NEW k \in 1 .. Len(s) PROVE s[k] \in FramesOf(t \o s)
    BY DEF FramesOf
  <2>1. k + Len(t) \in 1 .. Len(t \o s) /\ (t \o s)[k + Len(t)] = s[k]
    BY <1>1
  <2> QED BY <2>1 DEF FramesOf
<1> QED BY <1>1, <1>3, <1>4, <1>5, <1>6

(* The frames of kfreerange, in the order it frees them.                   *)
LEMMA RangeList ==
    ASSUME NEW a \in Nat, NEW b \in Nat, FIRST <= a, a <= b, b <= PHYSTOP
    PROVE  LET t == [k \in 1 .. b - a |-> b - k]
           IN  t \in Seq(Frames) /\ Len(t) = b - a /\ Once(t) /\ FramesOf(t) = a .. b - 1
<1> DEFINE t == [k \in 1 .. b - a |-> b - k]
<1>1. b - a \in Nat /\ t \in [1 .. b - a -> Frames]
  BY PagesAssumption DEF Frames
<1>2. t \in Seq(Frames)
  BY <1>1, SeqDef
<1>3. Len(t) = b - a
  BY <1>1, <1>2, LenProperties
<1>4. \A k \in 1 .. b - a : t[k] = b - k
  OBVIOUS
<1> HIDE DEF t
<1>5. Once(t)
  BY <1>3, <1>4 DEF Once
<1>6. FramesOf(t) \subseteq a .. b - 1
  BY <1>3, <1>4 DEF FramesOf
<1>7. ASSUME NEW f \in a .. b - 1 PROVE f \in FramesOf(t)
  <2>1. b - f \in 1 .. b - a /\ t[b - f] = f
    BY <1>4
  <2> QED BY <1>3, <2>1 DEF FramesOf
<1> QED BY <1>2, <1>3, <1>5, <1>6, <1>7 DEF t

(* kpginit takes the first n + 1 frames.                                   *)
LEMMA TakeFirst ==
    ASSUME NEW s \in Seq(Frames), Once(s), NEW n \in Nat, n + 1 <= Len(s)
    PROVE  LET t == {s[k] : k \in 2 .. n + 1}
               u == SubSeq(s, n + 2, Len(s))
           IN  /\ Head(s) \in Frames /\ Head(s) \in FramesOf(s) /\ Head(s) \notin t
               /\ t \subseteq FramesOf(s)
               /\ u \in Seq(Frames) /\ Len(u) = Len(s) - n - 1 /\ Once(u)
               /\ FramesOf(u) = FramesOf(s) \ (t \cup {Head(s)})
<1> DEFINE t == {s[k] : k \in 2 .. n + 1}
           u == SubSeq(s, n + 2, Len(s))
<1>1. Len(s) \in Nat /\ \A k \in 1 .. Len(s) : s[k] \in Frames
  BY LenProperties, ElementOfSeq
<1>2. s # <<>> /\ Head(s) = s[1]
  BY <1>1, EmptySeq
<1>3. /\ u \in Seq(Frames)
      /\ Len(u) = Len(s) - n - 1
      /\ \A k \in 1 .. Len(s) - n - 1 : u[k] = s[n + 2 + k - 1]
  <2>1. \A k \in n + 2 .. Len(s) : s[k] \in Frames
    BY <1>1
  <2>2. n + 2 \in Int /\ Len(s) \in Int
    BY <1>1
  <2>3. /\ SubSeq(s, n + 2, Len(s)) \in Seq(Frames)
        /\ Len(SubSeq(s, n + 2, Len(s))) =
              IF n + 2 <= Len(s) THEN Len(s) - (n + 2) + 1 ELSE 0
        /\ \A k \in 1 .. Len(s) - (n + 2) + 1 :
              SubSeq(s, n + 2, Len(s))[k] = s[n + 2 + k - 1]
    BY <2>1, <2>2, SubSeqProperties
  <2> QED BY <1>1, <2>3
<1> HIDE DEF u
<1>4. Once(u)
  <2> SUFFICES ASSUME NEW j \in 1 .. Len(u), NEW k \in 1 .. Len(u), u[j] = u[k]
               PROVE  j = k
    BY DEF Once
  <2>1. /\ n + 1 + j \in 1 .. Len(s) /\ n + 1 + k \in 1 .. Len(s)
        /\ s[n + 1 + j] = s[n + 1 + k]
    BY <1>1, <1>3
  <2>2. n + 1 + j = n + 1 + k
    BY <2>1 DEF Once
  <2> QED BY <2>2
<1>5. Head(s) \in Frames /\ Head(s) \in FramesOf(s)
  BY <1>1, <1>2 DEF FramesOf
<1>6. Head(s) \notin t
  <2> SUFFICES ASSUME NEW k \in 2 .. n + 1, s[k] = s[1] PROVE FALSE
    BY <1>2
  <2>1. k \in 1 .. Len(s) /\ 1 \in 1 .. Len(s)
    BY <1>1
  <2>2. k = 1
    BY <2>1 DEF Once
  <2> QED BY <2>2
<1>7. t \subseteq FramesOf(s)
  BY <1>1 DEF FramesOf
<1>8. ASSUME NEW k \in 1 .. Len(u)
      PROVE  u[k] \in FramesOf(s) \ (t \cup {Head(s)})
  <2>a. k \in 1 .. Len(s) - n - 1 /\ n + 2 + k - 1 = n + 1 + k
    BY <1>1, <1>3
  <2>b. u[k] = s[n + 2 + k - 1]
    BY <2>a, <1>3
  <2>1. n + 1 + k \in 1 .. Len(s) /\ u[k] = s[n + 1 + k]
    BY <1>1, <2>a, <2>b
  <2>2. \A j \in 1 .. n + 1 : s[j] # s[n + 1 + k]
    <3> SUFFICES ASSUME NEW j \in 1 .. n + 1, s[j] = s[n + 1 + k] PROVE FALSE
      OBVIOUS
    <3>1. j \in 1 .. Len(s)
      BY <1>1
    <3>2. j = n + 1 + k
      BY <2>1, <3>1 DEF Once
    <3> QED BY <1>3, <3>2
  <2>3. s[n + 1 + k] \in FramesOf(s)
    BY <2>1 DEF FramesOf
  <2> QED BY <1>2, <2>1, <2>2, <2>3
<1>9. ASSUME NEW k \in 1 .. Len(s), s[k] \notin t \cup {Head(s)}
      PROVE  s[k] \in FramesOf(u)
  <2>1. k > n + 1
    BY <1>1, <1>2, <1>9
  <2>2. k - n - 1 \in 1 .. Len(u) /\ u[k - n - 1] = s[k]
    BY <1>1, <1>3, <2>1
  <2> QED BY <2>2 DEF FramesOf
<1>10. FramesOf(u) = FramesOf(s) \ (t \cup {Head(s)})
  BY <1>8, <1>9 DEF FramesOf
<1> QED BY <1>3, <1>4, <1>5, <1>6, <1>7, <1>10 DEF u

-----------------------------------------------------------------------------
(* Facts about the tables.                                                 *)

EntryFrames(t, D) == {t[d] : d \in D} \ {NoPage}
Distinct(t, D)    == \A c, d \in D : t[c] = t[d] /\ t[c] # NoPage => c = d

(* A frame no entry has, put into an empty entry: the entries stay         *)
(* distinct and have that frame and no other more.                         *)
LEMMA FillEntry ==
    ASSUME NEW D, NEW t \in [D -> Frames \cup {NoPage}], Distinct(t, D),
           NEW u \in [D -> Frames \cup {NoPage}], NEW e \in D, t[e] = NoPage,
           u[e] \in Frames, u[e] \notin EntryFrames(t, D),
           \A d \in D \ {e} : u[d] = t[d]
    PROVE  /\ Distinct(u, D)
           /\ EntryFrames(u, D) = EntryFrames(t, D) \cup {u[e]}
           /\ u[e] # NoPage
<1>1. u[e] # NoPage
  BY PagesAssumption DEF Frames, NoPage
<1>2. \A d \in D : t[d] # u[e]
  BY <1>1 DEF EntryFrames
<1>3. Distinct(u, D)
  BY <1>2 DEF Distinct
<1>4. EntryFrames(u, D) = EntryFrames(t, D) \cup {u[e]}
  BY <1>1 DEF EntryFrames
<1> QED BY <1>1, <1>3, <1>4

(* Clearing an entry takes away its frame and no other.                    *)
LEMMA ClearEntry ==
    ASSUME NEW D, NEW t \in [D -> Frames \cup {NoPage}], Distinct(t, D),
           NEW u \in [D -> Frames \cup {NoPage}], NEW e \in D, t[e] # NoPage,
           u[e] = NoPage,
           \A d \in D \ {e} : u[d] = t[d]
    PROVE  /\ Distinct(u, D)
           /\ EntryFrames(u, D) = EntryFrames(t, D) \ {t[e]}
<1>1. Distinct(u, D)
  BY DEF Distinct
<1>2. EntryFrames(u, D) = EntryFrames(t, D) \ {t[e]}
  BY DEF EntryFrames, Distinct
<1> QED BY <1>1, <1>2

-----------------------------------------------------------------------------
(* The roles of frames.                                                    *)

Parts(F, T, M, K, H, D) ==
    /\ K \cap (F \cup T \cup M \cup H) = {}
    /\ F \cap (T \cup M \cup H) = {}
    /\ T \cap (M \cup H) = {}
    /\ M \cap H = {}
    /\ F \cup T \cup M \cup K \cup H = D

(* OneRole, in the terms of the lemmas above.                              *)
LEMMA OneRoleParts ==
    ASSUME OneRole
    PROVE  /\ Once(freemem) /\ Distinct(pde, Dirs) /\ Distinct(pte, VirtPages)
           /\ kpgdir \notin ktables
           /\ Parts(FramesOf(freemem), EntryFrames(pde, Dirs), EntryFrames(pte, VirtPages),
                    KernelFrames, held, Donated)
BY DEF OneRole, Once, Distinct, Parts, FramesOf, EntryFrames,
       FreeFrames, TableFrames, MappedFrames

(* The converse, for the state after a step.                               *)
LEMMA PartsOneRole ==
    ASSUME Once(freemem'), Distinct(pde', Dirs), Distinct(pte', VirtPages),
           kpgdir' \notin ktables',
           Parts(FramesOf(freemem'), EntryFrames(pde', Dirs), EntryFrames(pte', VirtPages),
                 KernelFrames', held', Donated')
    PROVE  OneRole'
BY DEF OneRole, Once, Distinct, Parts, FramesOf, EntryFrames,
       FreeFrames, TableFrames, MappedFrames

(* What kalloc does to the list and the counters.                          *)
LEMMA KallocStep ==
    ASSUME PInv, NEW f \in Frames, kalloc(f)
    PROVE  /\ freemem' \in Seq(Frames) /\ Once(freemem')
           /\ f \in FramesOf(freemem)
           /\ FramesOf(freemem') = FramesOf(freemem) \ {f}
           /\ available' \in Nat /\ available' = Len(freemem')
           /\ total' = total
<1>1. freemem \in Seq(Frames) /\ freemem # <<>> /\ Once(freemem)
  BY OneRoleParts DEF PInv, TypeOK, kalloc
<1>2. /\ Head(freemem) \in FramesOf(freemem)
      /\ Tail(freemem) \in Seq(Frames)
      /\ Len(Tail(freemem)) = Len(freemem) - 1
      /\ Once(Tail(freemem))
      /\ FramesOf(Tail(freemem)) = FramesOf(freemem) \ {Head(freemem)}
  BY <1>1, TakeHead
<1>3. /\ f = Head(freemem) /\ freemem' = Tail(freemem)
      /\ available' = available - 1 /\ total' = total
  BY DEF kalloc
<1>4. available' = Len(freemem')
  BY <1>2, <1>3 DEF PInv, CountersHonest
<1>5. Len(freemem') \in Nat
  BY <1>2, <1>3, LenProperties
<1> QED BY <1>2, <1>3, <1>4, <1>5

(* What kfree does, for a frame that is not free.                          *)
LEMMA KfreeStep ==
    ASSUME PInv, NEW f \in Frames, f \notin FramesOf(freemem), kfree(f)
    PROVE  /\ freemem' \in Seq(Frames) /\ Once(freemem')
           /\ FramesOf(freemem') = FramesOf(freemem) \cup {f}
           /\ available' \in Nat /\ available' = Len(freemem')
           /\ total' = total
<1>1. freemem \in Seq(Frames) /\ Once(freemem)
  BY OneRoleParts DEF PInv, TypeOK
<1>2. /\ <<f>> \in Seq(Frames) /\ Len(<<f>>) = 1
      /\ Once(<<f>>) /\ FramesOf(<<f>>) = {f}
  BY DEF Once, FramesOf
<1>3. /\ <<f>> \o freemem \in Seq(Frames)
      /\ Len(<<f>> \o freemem) = 1 + Len(freemem)
      /\ Once(<<f>> \o freemem)
      /\ FramesOf(<<f>> \o freemem) = {f} \cup FramesOf(freemem)
  <2> DEFINE t == <<f>>
  <2>1. t \in Seq(Frames) /\ Once(t) /\ FramesOf(freemem) \cap FramesOf(t) = {}
    BY <1>2
  <2>2. Len(t) = 1 /\ FramesOf(t) = {f}
    BY <1>2
  <2> HIDE DEF t
  <2>3. /\ t \o freemem \in Seq(Frames)
        /\ Len(t \o freemem) = Len(t) + Len(freemem)
        /\ Once(t \o freemem)
        /\ FramesOf(t \o freemem) = FramesOf(t) \cup FramesOf(freemem)
    BY <1>1, <2>1, PutFront
  <2> QED BY <2>2, <2>3 DEF t
<1>4. Len(freemem) \in Nat
  BY <1>1, LenProperties
<1> QED BY <1>3, <1>4 DEF kfree, PInv, CountersHonest

(* What kfreerange does, for frames that are not free.                     *)
LEMMA KfreerangeStep ==
    ASSUME PInv, NEW a \in Nat, NEW b \in Nat, FIRST <= a, a <= b, b <= PHYSTOP,
           FramesOf(freemem) \cap a .. b - 1 = {}, kfreerange(a, b)
    PROVE  /\ freemem' \in Seq(Frames) /\ Once(freemem')
           /\ Len(freemem') = b - a + Len(freemem)
           /\ FramesOf(freemem') = FramesOf(freemem) \cup a .. b - 1
           /\ available' \in Nat /\ available' = Len(freemem')
           /\ total' = total + (b - a)
<1>1. freemem \in Seq(Frames) /\ Once(freemem)
  BY OneRoleParts DEF PInv, TypeOK
<1> DEFINE t == [k \in 1 .. b - a |-> b - k]
<1>2. t \in Seq(Frames) /\ Len(t) = b - a /\ Once(t) /\ FramesOf(t) = a .. b - 1
  BY RangeList
<1>3. /\ freemem' = t \o freemem
      /\ available' = available + (b - a)
      /\ total' = total + (b - a)
  BY DEF kfreerange
<1> HIDE DEF t
<1>4. /\ t \o freemem \in Seq(Frames)
      /\ Len(t \o freemem) = Len(t) + Len(freemem)
      /\ Once(t \o freemem)
      /\ FramesOf(t \o freemem) = FramesOf(t) \cup FramesOf(freemem)
  BY <1>1, <1>2, PutFront
<1>5. Len(freemem) \in Nat
  BY <1>1, LenProperties
<1> QED BY <1>2, <1>3, <1>4, <1>5 DEF PInv, CountersHonest

-----------------------------------------------------------------------------
(* The initial state, and the boot code's steps.                           *)

LEMMA PagesInit == Init => PInv
<1> SUFFICES ASSUME Init PROVE PInv
  OBVIOUS
<1>1. TypeOK
  <2>1. 0 \in VirtPages /\ VPAGES \in Nat
    BY PagesAssumption DEF Ranges, VirtPages
  <2> QED BY <2>1 DEF Init, TypeOK, Phases
<1>2. Donated = {}
  BY DEF Init, Donated
<1>3. OneRole
  BY <1>2 DEF Init, OneRole, FreeFrames, TableFrames, MappedFrames, KernelFrames
<1>4. CountersHonest
  BY <1>2, FS_EmptySet DEF Init, CountersHonest
<1>5. BootInv /\ LoopInv /\ WalksSucceed /\ RegionsStayMapped
  BY DEF Init, BootInv, LoopInv, WalksSucceed, RegionsStayMapped
<1> QED BY <1>1, <1>3, <1>4, <1>5 DEF PInv

(* kallocinit: before it there are no frames; after it, those below 4 MB   *)
(* are all free.                                                           *)
LEMMA KallocinitStep == PInv /\ kallocinit => PInv'
<1> SUFFICES ASSUME PInv, kallocinit PROVE PInv'
  OBVIOUS
<1> USE DEF PInv
<1>1. Donated = {} /\ Donated' = FIRST .. FOURMB - 1
  BY DEF kallocinit, Donated
<1>2. /\ FramesOf(freemem) = {} /\ EntryFrames(pde, Dirs) = {}
      /\ EntryFrames(pte, VirtPages) = {} /\ KernelFrames = {} /\ held = {}
  BY <1>1, OneRoleParts DEF Parts
<1>3. Len(freemem) = 0
  <2>1. Len(freemem) \in Nat
    BY LenProperties DEF TypeOK
  <2>2. ASSUME Len(freemem) # 0 PROVE FALSE
    <3>1. 1 \in 1 .. Len(freemem)
      BY <2>1, <2>2
    <3> QED BY <3>1, <1>2 DEF FramesOf
  <2> QED BY <2>2
<1>4. /\ freemem' \in Seq(Frames) /\ Once(freemem')
      /\ Len(freemem') = FOURMB - FIRST + Len(freemem)
      /\ FramesOf(freemem') = FramesOf(freemem) \cup FIRST .. FOURMB - 1
      /\ available' \in Nat /\ available' = Len(freemem')
      /\ total' = total + (FOURMB - FIRST)
  <2>1. kfreerange(FIRST, FOURMB)
    BY DEF kallocinit
  <2>2. FIRST \in Nat /\ FOURMB \in Nat /\ FIRST <= FOURMB /\ FOURMB <= PHYSTOP
    BY PagesAssumption
  <2> QED BY <1>2, <2>1, <2>2, KfreerangeStep
<1>5. TypeOK'
  <2>1. total' \in Nat
    BY <1>4, PagesAssumption DEF TypeOK
  <2> QED BY <1>4, <2>1 DEF TypeOK, kallocinit, tableVars, callVars, Phases
<1>6. OneRole'
  <2>1. KernelFrames' = KernelFrames
    BY DEF kallocinit, tableVars, KernelFrames
  <2>2. Parts(FramesOf(freemem'), EntryFrames(pde', Dirs), EntryFrames(pte', VirtPages),
              KernelFrames', held', Donated')
    BY <1>1, <1>2, <1>4, <2>1 DEF kallocinit, tableVars, Parts
  <2> QED BY <1>4, <2>2, OneRoleParts, PartsOneRole DEF kallocinit, tableVars
<1>7. CountersHonest'
  <2>1. total = 0
    BY <1>1, FS_EmptySet DEF CountersHonest
  <2>2. Cardinality(FIRST .. FOURMB - 1) = FOURMB - FIRST
    BY FS_Interval, PagesAssumption
  <2> QED BY <1>1, <1>4, <2>1, <2>2, PagesAssumption DEF CountersHonest
<1>8. BootInv'
  BY <1>3, <1>4, PagesAssumption DEF BootInv, kallocinit, tableVars, callVars
<1>9. (LoopInv /\ WalksSucceed /\ RegionsStayMapped)'
  BY DEF LoopInv, WalksSucceed, RegionsStayMapped, kallocinit, tableVars, callVars
<1> QED BY <1>5, <1>6, <1>7, <1>8, <1>9

(* kpginit: the directory and the tables take the list's first frames.     *)
LEMMA KpginitStep == PInv /\ kpginit => PInv'
<1> SUFFICES ASSUME PInv, kpginit PROVE PInv'
  OBVIOUS
<1> USE DEF PInv
<1>1. Donated' = Donated
  BY DEF kpginit, Donated
<1>2. freemem \in Seq(Frames) /\ Once(freemem) /\ Len(freemem) = FOURMB - FIRST
  BY OneRoleParts DEF TypeOK, BootInv, kpginit
<1>3. KTABLES \in Nat /\ KTABLES + 1 <= Len(freemem)
  BY <1>2, PagesAssumption
<1>4. KernelFrames = {}
  BY DEF BootInv, kpginit, KernelFrames
<1>5. /\ kpgdir' = Head(freemem)
      /\ ktables' = {freemem[k] : k \in 2 .. KTABLES + 1}
      /\ freemem' = SubSeq(freemem, KTABLES + 2, Len(freemem))
      /\ available' = available - (KTABLES + 1) /\ total' = total
  BY DEF kpginit
<1>6. /\ kpgdir' \in Frames /\ kpgdir' \in FramesOf(freemem) /\ kpgdir' \notin ktables'
      /\ ktables' \subseteq FramesOf(freemem)
      /\ freemem' \in Seq(Frames) /\ Len(freemem') = Len(freemem) - KTABLES - 1
      /\ Once(freemem')
      /\ FramesOf(freemem') = FramesOf(freemem) \ (ktables' \cup {kpgdir'})
  BY <1>2, <1>3, <1>5, TakeFirst
<1>7. FramesOf(freemem) \subseteq Frames
  BY <1>2, ElementOfSeq DEF FramesOf
<1>8. available' \in Nat /\ available' = Len(freemem')
  <2>1. Len(freemem) \in Nat
    BY <1>2, LenProperties
  <2> QED BY <1>3, <1>5, <1>6, <2>1 DEF CountersHonest
<1>9. TypeOK'
  BY <1>6, <1>7, <1>8 DEF TypeOK, kpginit, callVars, Phases
<1>10. OneRole'
  <2>1. KernelFrames' = ktables' \cup {kpgdir'}
    <3>1. NoPage \notin Frames
      BY PagesAssumption DEF Frames, NoPage
    <3> QED BY <1>6, <3>1 DEF KernelFrames
  <2>2. Parts(FramesOf(freemem'), EntryFrames(pde, Dirs), EntryFrames(pte, VirtPages),
              KernelFrames', held, Donated)
    BY <1>4, <1>6, <2>1, OneRoleParts DEF Parts
  <2>3. pde' = pde /\ pte' = pte /\ held' = held
    BY DEF kpginit
  <2> QED BY <1>1, <1>6, <2>2, <2>3, OneRoleParts, PartsOneRole
<1>11. CountersHonest'
  BY <1>1, <1>5, <1>8 DEF CountersHonest
<1>12. (BootInv /\ LoopInv /\ WalksSucceed /\ RegionsStayMapped)'
  BY DEF BootInv, LoopInv, WalksSucceed, RegionsStayMapped, kpginit, callVars
<1> QED BY <1>9, <1>10, <1>11, <1>12

(* kallocexpand: the high frames become free and the call for the heap's   *)
(* block starts, or the one for its guard page does.                       *)
LEMMA KallocexpandStep == PInv /\ kallocexpand => PInv'
<1> SUFFICES ASSUME PInv, kallocexpand PROVE PInv'
  OBVIOUS
<1> USE DEF PInv
<1> DEFINE range == IF phase = "drivers" THEN HEAP ELSE GUARD
<1>1. /\ op = "idle" /\ op' = "check" /\ from' = range[1] /\ count' = range[2] /\ i' = 0
      /\ range \in Ranges
      /\ pde' = pde /\ pte' = pte /\ kpgdir' = kpgdir /\ ktables' = ktables
      /\ held' = held /\ regions' = regions
      /\ phase' \in {"heap", "guard"}
  BY PagesAssumption DEF kallocexpand, Call, tableVars
<1> HIDE DEF range
<1>2. /\ range = <<from', count'>>
      /\ from' \in VirtPages /\ count' \in Nat \ {0} /\ from' + count' <= VPAGES
  BY <1>1 DEF Ranges
<1>3. /\ freemem' \in Seq(Frames) /\ available' \in Nat /\ total' \in Nat
      /\ OneRole' /\ CountersHonest'
  <2>1. CASE phase = "drivers"
    <3>1. Donated = FIRST .. FOURMB - 1 /\ Donated' = Frames
      BY <2>1 DEF kallocexpand, Donated
    <3>2. Frames = Donated \cup FOURMB .. PHYSTOP - 1 /\ Donated \cap FOURMB .. PHYSTOP - 1 = {}
      BY <3>1, PagesAssumption DEF Frames
    <3>3. kfreerange(FOURMB, PHYSTOP)
      BY <2>1 DEF kallocexpand
    <3>4. FramesOf(freemem) \cap FOURMB .. PHYSTOP - 1 = {}
      BY <3>2, OneRoleParts DEF Parts
    <3>5. /\ freemem' \in Seq(Frames) /\ Once(freemem')
          /\ FramesOf(freemem') = FramesOf(freemem) \cup FOURMB .. PHYSTOP - 1
          /\ available' \in Nat /\ available' = Len(freemem')
          /\ total' = total + (PHYSTOP - FOURMB)
      <4>1. FOURMB \in Nat /\ PHYSTOP \in Nat /\ FIRST <= FOURMB
            /\ FOURMB <= PHYSTOP /\ PHYSTOP <= PHYSTOP
        BY PagesAssumption
      <4> QED BY <3>3, <3>4, <4>1, KfreerangeStep
    <3>6. KernelFrames' = KernelFrames
      BY <1>1 DEF KernelFrames
    <3>7. Parts(FramesOf(freemem'), EntryFrames(pde, Dirs), EntryFrames(pte, VirtPages),
                KernelFrames, held, Frames)
      BY <3>2, <3>5, OneRoleParts DEF Parts
    <3>8. OneRole'
      BY <1>1, <3>1, <3>5, <3>6, <3>7, OneRoleParts, PartsOneRole
    <3>9. CountersHonest' /\ total' \in Nat
      <4>1. Cardinality(FIRST .. FOURMB - 1) = FOURMB - FIRST
        BY FS_Interval, PagesAssumption
      <4>2. Cardinality(Frames) = PHYSTOP - FIRST
        BY FS_Interval, PagesAssumption DEF Frames
      <4>3. total = FOURMB - FIRST
        BY <3>1, <4>1 DEF CountersHonest
      <4> QED BY <3>1, <3>5, <4>2, <4>3, PagesAssumption DEF CountersHonest
    <3> QED BY <3>5, <3>8, <3>9
  <2>2. CASE phase = "guard"
    <3>1. UNCHANGED <<freemem, available, total, phase>>
      BY <2>2 DEF kallocexpand, listVars
    <3>2. KernelFrames' = KernelFrames /\ Donated' = Donated
      BY <1>1, <3>1 DEF KernelFrames, Donated
    <3>3. OneRole'
      BY <1>1, <3>1, <3>2, OneRoleParts, PartsOneRole
    <3> QED BY <3>1, <3>2, <3>3 DEF TypeOK, CountersHonest
  <2> QED BY <2>1, <2>2 DEF kallocexpand
<1>4. TypeOK'
  <2>1. /\ kpgdir' \in Frames \cup {NoPage} /\ ktables' \subseteq Frames
        /\ pde' \in [Dirs -> Frames \cup {NoPage}] /\ pte' \in [VirtPages -> Frames \cup {NoPage}]
        /\ held' \subseteq Frames /\ regions' \subseteq Ranges
    BY <1>1 DEF TypeOK
  <2>2. /\ op' \in {"idle", "check", "map", "unmap"} /\ phase' \in Phases
        /\ count' \in Nat /\ i' \in 0 .. count'
    BY <1>1, <1>2 DEF Phases
  <2> QED BY <1>2, <1>3, <2>1, <2>2 DEF TypeOK
<1>5. BootInv'
  BY <1>1 DEF BootInv
<1>6. LoopInv'
  BY <1>1, <1>2 DEF LoopInv, VirtPages
<1>7. (WalksSucceed /\ RegionsStayMapped)'
  BY <1>1 DEF WalksSucceed, RegionsStayMapped
<1> QED BY <1>3, <1>4, <1>5, <1>6, <1>7

-----------------------------------------------------------------------------
(* The clients' kalloc and kfree.                                          *)

LEMMA ClientAllocStep == ASSUME PInv, NEW f \in Frames, ClientAlloc(f) PROVE PInv'
<1> USE DEF PInv
<1>1. /\ kalloc(f) /\ held' = held \cup {f}
      /\ UNCHANGED <<kpgdir, ktables, pde, pte, op, from, count, i, phase, regions>>
  BY DEF ClientAlloc, tableVars, callVars
<1>2. /\ freemem' \in Seq(Frames) /\ Once(freemem')
      /\ f \in FramesOf(freemem)
      /\ FramesOf(freemem') = FramesOf(freemem) \ {f}
      /\ available' \in Nat /\ available' = Len(freemem')
      /\ total' = total
  BY <1>1, KallocStep
<1>3. TypeOK'
  BY <1>1, <1>2 DEF TypeOK
<1>4. KernelFrames' = KernelFrames /\ Donated' = Donated
  BY <1>1 DEF KernelFrames, Donated
<1>5. OneRole'
  <2>1. Parts(FramesOf(freemem'), EntryFrames(pde, Dirs), EntryFrames(pte, VirtPages),
              KernelFrames, held', Donated)
    BY <1>1, <1>2, OneRoleParts DEF Parts
  <2> QED BY <1>1, <1>2, <1>4, <2>1, OneRoleParts, PartsOneRole
<1>6. CountersHonest'
  BY <1>2, <1>4 DEF CountersHonest
<1>7. BootInv'
  BY <1>1 DEF BootInv, ClientAlloc
<1>8. (LoopInv /\ WalksSucceed /\ RegionsStayMapped)'
  BY <1>1 DEF LoopInv, WalksSucceed, RegionsStayMapped
<1> QED BY <1>3, <1>5, <1>6, <1>7, <1>8

LEMMA ClientFreeStep == ASSUME PInv, NEW f \in Frames, ClientFree(f) PROVE PInv'
<1> USE DEF PInv
<1>1. /\ kfree(f) /\ f \in held /\ held' = held \ {f} /\ phase = "up"
      /\ UNCHANGED <<kpgdir, ktables, pde, pte, op, from, count, i, phase, regions>>
  BY DEF ClientFree, tableVars, callVars
<1>2. f \notin FramesOf(freemem)
  BY <1>1, OneRoleParts DEF Parts
<1>3. /\ freemem' \in Seq(Frames) /\ Once(freemem')
      /\ FramesOf(freemem') = FramesOf(freemem) \cup {f}
      /\ available' \in Nat /\ available' = Len(freemem')
      /\ total' = total
  BY <1>1, <1>2, KfreeStep
<1>4. TypeOK'
  BY <1>1, <1>3 DEF TypeOK
<1>5. KernelFrames' = KernelFrames /\ Donated' = Donated
  BY <1>1 DEF KernelFrames, Donated
<1>6. OneRole'
  <2>1. Parts(FramesOf(freemem'), EntryFrames(pde, Dirs), EntryFrames(pte, VirtPages),
              KernelFrames, held', Donated)
    BY <1>1, <1>3, OneRoleParts DEF Parts
  <2> QED BY <1>1, <1>3, <1>5, <2>1, OneRoleParts, PartsOneRole
<1>7. CountersHonest'
  BY <1>3, <1>5 DEF CountersHonest
<1>8. BootInv'
  BY <1>1 DEF BootInv
<1>9. (LoopInv /\ WalksSucceed /\ RegionsStayMapped)'
  BY <1>1 DEF LoopInv, WalksSucceed, RegionsStayMapped
<1> QED BY <1>4, <1>6, <1>7, <1>8, <1>9

-----------------------------------------------------------------------------
(* The steps of the loops.  What a step that leaves the frames alone keeps *)
(* is proved once.                                                         *)

LEMMA FramesKept ==
    ASSUME PInv, UNCHANGED <<freemem, available, total, kpgdir, ktables, pde, pte, held>>,
           Donated' = Donated
    PROVE  OneRole' /\ CountersHonest'
<1>1. KernelFrames' = KernelFrames
  BY DEF KernelFrames
<1>2. OneRole'
  BY <1>1, OneRoleParts, PartsOneRole DEF PInv
<1> QED BY <1>2 DEF PInv, CountersHonest

(* The page of the iteration lies below KERNBASE, in a table of its own.   *)
LEMMA PageInRange ==
    ASSUME PInv, i < count
    PROVE  /\ Page \in VirtPages /\ PDX(Page) \in Dirs
           /\ i \in Nat /\ count \in Nat /\ from \in Nat /\ VPAGES \in Nat
           /\ i + 1 \in 0 .. count
           /\ from + count <= VPAGES
<1>1. /\ from \in VirtPages /\ count \in Nat /\ i \in 0 .. count
      /\ from + count <= VPAGES /\ VPAGES \in Nat
  BY PagesAssumption DEF PInv, TypeOK
<1>2. Page \in VirtPages
  BY <1>1 DEF Page, VirtPages
<1>3. PDX(Page) \in Dirs
  BY <1>2 DEF Dirs
<1> QED BY <1>1, <1>2, <1>3 DEF VirtPages

(* pg_map_range and pg_unmap_range, up to their loops.                     *)
LEMMA CallStep ==
    ASSUME PInv, NEW r \in Ranges, pg_map_range(r) \/ pg_unmap_range(r)
    PROVE  PInv'
<1> USE DEF PInv
<1>1. /\ UNCHANGED <<freemem, available, total, kpgdir, ktables, pde, pte, held, phase>>
      /\ phase = "up"
      /\ from' = r[1] /\ count' = r[2] /\ i' = 0
      /\ \/ op' = "check" /\ regions' = regions
         \/ op' = "unmap" /\ r \in regions /\ regions' = regions \ {r}
  BY DEF pg_map_range, pg_unmap_range, Call, listVars, tableVars
<1>2. /\ r = <<from', count'>>
      /\ from' \in VirtPages /\ count' \in Nat \ {0} /\ from' + count' <= VPAGES
  BY <1>1 DEF Ranges
<1>3. OneRole' /\ CountersHonest'
  BY <1>1, FramesKept DEF Donated
<1>4. TypeOK'
  BY <1>1, <1>2 DEF TypeOK
<1>5. BootInv'
  BY <1>1 DEF BootInv
<1>6. RegionsStayMapped'
  BY <1>1 DEF RegionsStayMapped
<1>7. LoopInv'
  <2>1. op' \in {"map", "unmap"} => \A q \in regions' : Apart(q, from', count')
    BY <1>1, <1>2 DEF RegionsStayMapped, Apart
  <2>2. op' \in {"check", "map"} => \A v \in from' .. from' + i' - 1 : FALSE
    BY <1>1, <1>2 DEF VirtPages
  <2> QED BY <1>1, <1>2, <2>1, <2>2 DEF LoopInv
<1>8. WalksSucceed'
  <2>1. ASSUME op' = "unmap", NEW v \in from' + i' .. from' + count' - 1
        PROVE  pde'[PDX(v)] # NoPage /\ pte'[v] # NoPage
    <3>1. v \in VirtPages /\ v \in r[1] .. r[1] + r[2] - 1 /\ r \in regions
      BY <1>1, <1>2, <2>1, PagesAssumption DEF VirtPages
    <3>2. pte[v] # NoPage
      BY <3>1 DEF RegionsStayMapped
    <3> QED BY <1>1, <3>1, <3>2 DEF LoopInv
  <2> QED BY <1>1, <2>1 DEF WalksSucceed
<1> QED BY <1>3, <1>4, <1>5, <1>6, <1>7, <1>8

(* An iteration of pg_map_range's first loop.                              *)
LEMMA CheckPageStep == PInv /\ CheckPage => PInv'
<1> SUFFICES ASSUME PInv, CheckPage PROVE PInv'
  OBVIOUS
<1> USE DEF PInv
<1>1. /\ op = "check" /\ i < count /\ pte[Page] = NoPage /\ i' = i + 1
      /\ UNCHANGED <<kpgdir, ktables, pte, op, from, count, phase, held, regions>>
  BY DEF CheckPage
<1>2. /\ Page \in VirtPages /\ PDX(Page) \in Dirs
      /\ i \in Nat /\ count \in Nat /\ from \in Nat /\ i + 1 \in 0 .. count
      /\ VPAGES \in Nat /\ from + count <= VPAGES
  BY <1>1, PageInRange
<1>3. KernelFrames' = KernelFrames /\ Donated' = Donated
  BY <1>1 DEF KernelFrames, Donated
<1>4. /\ freemem' \in Seq(Frames) /\ available' \in Nat /\ total' = total
      /\ pde' \in [Dirs -> Frames \cup {NoPage}]
      /\ OneRole' /\ CountersHonest'
      /\ pde'[PDX(Page)] # NoPage
      /\ \A d \in Dirs : pde[d] # NoPage => pde'[d] # NoPage
  <2>1. CASE pde[PDX(Page)] # NoPage
    <3>1. UNCHANGED <<freemem, available, total, pde>>
      BY <2>1 DEF CheckPage, listVars
    <3>2. OneRole' /\ CountersHonest'
      BY <1>1, <1>3, <3>1, FramesKept
    <3> QED BY <2>1, <3>1, <3>2 DEF TypeOK
  <2>2. CASE pde[PDX(Page)] = NoPage
    <3>1. PICK f \in Frames : kalloc(f) /\ pde' = [pde EXCEPT ![PDX(Page)] = f]
      BY <2>2 DEF CheckPage
    <3>2. /\ freemem' \in Seq(Frames) /\ Once(freemem')
          /\ f \in FramesOf(freemem)
          /\ FramesOf(freemem') = FramesOf(freemem) \ {f}
          /\ available' \in Nat /\ available' = Len(freemem')
          /\ total' = total
      BY <3>1, KallocStep
    <3>3. f \notin EntryFrames(pde, Dirs) /\ f # NoPage
      BY <3>2, OneRoleParts, PagesAssumption DEF Parts, Frames, NoPage
    <3>4. pde \in [Dirs -> Frames \cup {NoPage}] /\ Distinct(pde, Dirs)
      BY OneRoleParts DEF TypeOK
    <3>5. /\ pde' \in [Dirs -> Frames \cup {NoPage}]
          /\ Distinct(pde', Dirs)
          /\ EntryFrames(pde', Dirs) = EntryFrames(pde, Dirs) \cup {f}
          /\ pde'[PDX(Page)] # NoPage
      <4> DEFINE e == PDX(Page)
      <4>1. e \in Dirs /\ pde[e] = NoPage /\ pde' = [pde EXCEPT ![e] = f]
        BY <1>2, <2>2, <3>1
      <4> HIDE DEF e
      <4>2. /\ pde' \in [Dirs -> Frames \cup {NoPage}]
            /\ pde'[e] = f /\ \A d \in Dirs \ {e} : pde'[d] = pde[d]
        BY <3>1, <3>4, <4>1
      <4>3. /\ Distinct(pde', Dirs)
            /\ EntryFrames(pde', Dirs) = EntryFrames(pde, Dirs) \cup {f}
        <5>2. pde'[e] \in Frames /\ pde'[e] \notin EntryFrames(pde, Dirs)
          BY <3>1, <3>3, <4>2
        <5>3. pde \in [Dirs -> Frames \cup {NoPage}] /\ Distinct(pde, Dirs) /\ pde[e] = NoPage /\ e \in Dirs
          BY <3>4, <4>1
        <5>4. pde' \in [Dirs -> Frames \cup {NoPage}] /\ (\A d \in Dirs \ {e} : pde'[d] = pde[d])
          BY <4>2
        <5> QED BY <5>2, <5>3, <5>4, <4>2, FillEntry
      <4> QED BY <3>3, <4>2, <4>3 DEF e
    <3>6. Parts(FramesOf(freemem'), EntryFrames(pde', Dirs), EntryFrames(pte, VirtPages),
                KernelFrames, held, Donated)
      BY <3>2, <3>5, OneRoleParts DEF Parts
    <3>7. OneRole'
      BY <1>1, <1>3, <3>2, <3>5, <3>6, OneRoleParts, PartsOneRole
    <3>8. CountersHonest'
      BY <1>3, <3>2 DEF CountersHonest
    <3>9. /\ pde'[PDX(Page)] # NoPage
          /\ \A d \in Dirs : pde[d] # NoPage => pde'[d] # NoPage
      BY <1>2, <3>1, <3>3, <3>4
    <3> QED BY <3>2, <3>5, <3>7, <3>8, <3>9
  <2> QED BY <2>1, <2>2
<1>5. TypeOK'
  BY <1>1, <1>2, <1>4 DEF TypeOK
<1>6. BootInv'
  BY <1>1 DEF BootInv
<1>7. LoopInv'
  <2>1. \A v \in VirtPages : pte'[v] # NoPage => pde'[PDX(v)] # NoPage
    BY <1>1, <1>4 DEF LoopInv, Dirs
  <2>2. ASSUME NEW v \in from' .. from' + i' - 1
        PROVE  pde'[PDX(v)] # NoPage /\ pte'[v] = NoPage
    <3>1. v \in from .. from + i - 1 \/ v = Page
      BY <1>1, <1>2 DEF Page
    <3>2. CASE v \in from .. from + i - 1
      <4>1. pde[PDX(v)] # NoPage /\ pte[v] = NoPage
        BY <1>1, <3>2 DEF LoopInv
      <4>2. v \in VirtPages
        BY <1>1, <1>2, <3>2 DEF VirtPages
      <4>3. PDX(v) \in Dirs
        BY <4>2 DEF Dirs
      <4> QED BY <1>1, <1>4, <4>1, <4>3
    <3>3. CASE v = Page
      BY <1>1, <1>4, <3>3
    <3> QED BY <3>1, <3>2, <3>3
  <2> QED BY <1>1, <2>1, <2>2 DEF LoopInv
<1>8. (WalksSucceed /\ RegionsStayMapped)'
  BY <1>1 DEF WalksSucceed, RegionsStayMapped
<1> QED BY <1>4, <1>5, <1>6, <1>7, <1>8

(* The first loop finds no page in use: so far from every mapped region,   *)
(* the range can be mapped.                                                *)
LEMMA CheckDoneStep == PInv /\ CheckDone => PInv'
<1> SUFFICES ASSUME PInv, CheckDone PROVE PInv'
  OBVIOUS
<1> USE DEF PInv
<1>1. /\ op = "check" /\ i = count /\ op' = "map" /\ i' = 0
      /\ UNCHANGED <<freemem, available, total, kpgdir, ktables, pde, pte,
                     from, count, phase, held, regions>>
  BY DEF CheckDone, listVars, tableVars
<1>2. from \in Nat /\ count \in Nat /\ VPAGES \in Nat
  BY PagesAssumption DEF TypeOK, VirtPages
<1>3. OneRole' /\ CountersHonest'
  BY <1>1, FramesKept DEF Donated
<1>4. TypeOK'
  BY <1>1, <1>2 DEF TypeOK
<1>5. BootInv'
  BY <1>1 DEF BootInv
<1>6. RegionsStayMapped'
  BY <1>1 DEF RegionsStayMapped
<1>7. \A v \in from .. from + count - 1 : pde[PDX(v)] # NoPage /\ pte[v] = NoPage
  BY <1>1 DEF LoopInv
<1>8. WalksSucceed'
  BY <1>1, <1>2, <1>7 DEF WalksSucceed
<1>9. ASSUME NEW q \in regions, ~ Apart(q, from, count) PROVE FALSE
  <2>1. q[1] \in Nat /\ q[2] \in Nat \ {0} /\ count > 0
    BY <1>1, <1>2 DEF TypeOK, Ranges, VirtPages, LoopInv
  <2>2. PICK v \in Nat : /\ v \in q[1] .. q[1] + q[2] - 1
                         /\ v \in from .. from + count - 1
    <3>1. CASE q[1] <= from
      <4>1. from \in q[1] .. q[1] + q[2] - 1 /\ from \in from .. from + count - 1
        BY <1>2, <1>9, <2>1, <3>1 DEF Apart
      <4> QED BY <1>2, <4>1
    <3>2. CASE q[1] > from
      <4>1. q[1] \in q[1] .. q[1] + q[2] - 1 /\ q[1] \in from .. from + count - 1
        BY <1>2, <1>9, <2>1, <3>2 DEF Apart
      <4> QED BY <2>1, <4>1
    <3> QED BY <1>2, <2>1, <3>1, <3>2
  <2>3. pte[v] # NoPage
    BY <2>2 DEF RegionsStayMapped
  <2> QED BY <1>7, <2>2, <2>3
<1>10. LoopInv'
  <2>1. \A v \in from' .. from' + i' - 1 : FALSE
    BY <1>1, <1>2
  <2> QED BY <1>1, <1>9, <2>1 DEF LoopInv
<1> QED BY <1>3, <1>4, <1>5, <1>6, <1>8, <1>10

(* An iteration of the second loop.                                        *)
LEMMA MapPageStep == PInv /\ MapPage => PInv'
<1> SUFFICES ASSUME PInv, MapPage PROVE PInv'
  OBVIOUS
<1> USE DEF PInv
<1>1. /\ op = "map" /\ i < count /\ pde[PDX(Page)] # NoPage /\ pte[Page] = NoPage
      /\ i' = i + 1
      /\ UNCHANGED <<kpgdir, ktables, pde, op, from, count, phase, held, regions>>
  BY DEF MapPage
<1>2. PICK f \in Frames : kalloc(f) /\ pte' = [pte EXCEPT ![Page] = f]
  BY DEF MapPage
<1>3. /\ Page \in VirtPages
      /\ i \in Nat /\ count \in Nat /\ from \in Nat /\ i + 1 \in 0 .. count
      /\ VPAGES \in Nat /\ from + count <= VPAGES
  BY <1>1, PageInRange
<1>4. /\ freemem' \in Seq(Frames) /\ Once(freemem')
      /\ f \in FramesOf(freemem)
      /\ FramesOf(freemem') = FramesOf(freemem) \ {f}
      /\ available' \in Nat /\ available' = Len(freemem')
      /\ total' = total
  BY <1>2, KallocStep
<1>5. /\ pte' \in [VirtPages -> Frames \cup {NoPage}]
      /\ Distinct(pte', VirtPages)
      /\ EntryFrames(pte', VirtPages) = EntryFrames(pte, VirtPages) \cup {f}
      /\ pte'[Page] = f /\ f # NoPage
      /\ \A v \in VirtPages \ {Page} : pte'[v] = pte[v]
  <2>1. pte \in [VirtPages -> Frames \cup {NoPage}] /\ Distinct(pte, VirtPages)
    BY OneRoleParts DEF TypeOK
  <2>2. /\ pte' \in [VirtPages -> Frames \cup {NoPage}]
        /\ pte'[Page] = f /\ \A v \in VirtPages \ {Page} : pte'[v] = pte[v]
    BY <1>2, <1>3, <2>1
  <2>3. pte'[Page] \in Frames /\ pte'[Page] \notin EntryFrames(pte, VirtPages)
    BY <1>2, <1>4, <2>2, OneRoleParts DEF Parts
  <2>4. pte[Page] = NoPage /\ Page \in VirtPages
    BY <1>1, <1>3
  <2>5. /\ Distinct(pte', VirtPages)
        /\ EntryFrames(pte', VirtPages) = EntryFrames(pte, VirtPages) \cup {pte'[Page]}
        /\ pte'[Page] # NoPage
    BY <2>1, <2>2, <2>3, <2>4, FillEntry
  <2> QED BY <2>2, <2>5
<1>6. KernelFrames' = KernelFrames /\ Donated' = Donated
  BY <1>1 DEF KernelFrames, Donated
<1>7. OneRole'
  <2>1. Parts(FramesOf(freemem'), EntryFrames(pde, Dirs), EntryFrames(pte', VirtPages),
              KernelFrames, held, Donated)
    BY <1>4, <1>5, OneRoleParts DEF Parts
  <2> QED BY <1>1, <1>4, <1>5, <1>6, <2>1, OneRoleParts, PartsOneRole
<1>8. CountersHonest'
  BY <1>4, <1>6 DEF CountersHonest
<1>9. TypeOK'
  BY <1>1, <1>3, <1>4, <1>5 DEF TypeOK
<1>10. BootInv'
  BY <1>1 DEF BootInv
<1>11. LoopInv'
  <2>1. \A v \in VirtPages : pte'[v] # NoPage => pde'[PDX(v)] # NoPage
    BY <1>1, <1>5 DEF LoopInv
  <2>2. ASSUME NEW v \in from' .. from' + i' - 1 PROVE pte'[v] # NoPage
    <3>1. v \in VirtPages /\ (v \in from .. from + i - 1 \/ v = Page)
      BY <1>1, <1>3 DEF Page, VirtPages
    <3>2. v # Page => pte[v] # NoPage
      BY <1>1, <3>1 DEF LoopInv
    <3> QED BY <1>5, <3>1, <3>2
  <2> QED BY <1>1, <2>1, <2>2 DEF LoopInv
<1>12. WalksSucceed'
  <2>1. ASSUME NEW v \in from' + i' .. from' + count' - 1
        PROVE  pde'[PDX(v)] # NoPage /\ pte'[v] = NoPage
    <3>1. v \in VirtPages /\ v # Page /\ v \in from + i .. from + count - 1
      BY <1>1, <1>3 DEF Page, VirtPages
    <3>2. pde[PDX(v)] # NoPage /\ pte[v] = NoPage
      BY <1>1, <3>1 DEF WalksSucceed
    <3> QED BY <1>1, <1>5, <3>1, <3>2
  <2> QED BY <1>1, <2>1 DEF WalksSucceed
<1>13. RegionsStayMapped'
  <2>1. ASSUME NEW r \in regions, NEW v \in r[1] .. r[1] + r[2] - 1 PROVE pte'[v] # NoPage
    <3>1. v \in VirtPages
      BY <1>3 DEF TypeOK, Ranges, VirtPages
    <3>2. pte[v] # NoPage
      BY DEF RegionsStayMapped
    <3> QED BY <1>5, <3>1, <3>2
  <2> QED BY <1>1, <2>1 DEF RegionsStayMapped
<1> QED BY <1>7, <1>8, <1>9, <1>10, <1>11, <1>12, <1>13

(* The returns of pg_map_range: with FALSE from either loop, or with TRUE  *)
(* when every page is mapped.                                              *)
LEMMA ReturnStep ==
    ASSUME PInv, CheckFails \/ MapFails \/ MapDone
    PROVE  PInv'
<1> USE DEF PInv
<1>1. /\ op \in {"check", "map"} /\ op' = "idle" /\ from' = 0 /\ count' = 0 /\ i' = 0
      /\ UNCHANGED <<freemem, available, total, kpgdir, ktables, pde, pte, held>>
      /\ \/ regions' = regions
         \/ op = "map" /\ i = count /\ regions' = regions \cup {<<from, count>>}
      /\ phase' = CASE phase = "heap" -> "guard" [] OTHER -> "up"
  BY DEF CheckFails, MapFails, MapDone, Return, Leave, listVars, tableVars
<1>2. <<from, count>> \in Ranges
  BY <1>1 DEF LoopInv
<1>3. /\ phase \notin {"kallocinit", "kpginit", "drivers"}
      /\ phase' \notin {"kallocinit", "kpginit", "drivers"}
  BY <1>1 DEF BootInv
<1>4. OneRole' /\ CountersHonest'
  <2>1. Donated' = Donated
    BY <1>3 DEF Donated
  <2> QED BY <1>1, <2>1, FramesKept
<1>5. TypeOK'
  <2>1. 0 \in VirtPages /\ 0 <= VPAGES
    BY PagesAssumption DEF Ranges, VirtPages
  <2>2. phase' \in Phases
    BY <1>1 DEF Phases
  <2> QED BY <1>1, <1>2, <2>1, <2>2 DEF TypeOK
<1>6. BootInv'
  BY <1>1, <1>3 DEF BootInv
<1>7. LoopInv' /\ WalksSucceed'
  BY <1>1 DEF LoopInv, WalksSucceed
<1>8. RegionsStayMapped'
  <2>1. CASE regions' = regions
    BY <1>1, <2>1 DEF RegionsStayMapped
  <2>2. CASE op = "map" /\ i = count /\ regions' = regions \cup {<<from, count>>}
    <3>1. \A v \in from .. from + count - 1 : pte[v] # NoPage
      BY <2>2 DEF LoopInv
    <3>2. \A q \in regions : q[1] + q[2] <= from \/ from + count <= q[1]
      BY <2>2 DEF LoopInv, Apart
    <3> DEFINE r == <<from, count>>
    <3>3. r[1] = from /\ r[2] = count /\ regions' = regions \cup {r}
      BY <2>2
    <3> HIDE DEF r
    <3>4. \A q \in regions' : \A v \in q[1] .. q[1] + q[2] - 1 : pte'[v] # NoPage
      BY <1>1, <3>1, <3>3 DEF RegionsStayMapped
    <3>5. \A q, p \in regions' : q # p => q[1] + q[2] <= p[1] \/ p[1] + p[2] <= q[1]
      BY <3>2, <3>3 DEF RegionsStayMapped
    <3> QED BY <3>4, <3>5 DEF RegionsStayMapped
  <2> QED BY <1>1, <2>1, <2>2
<1> QED BY <1>4, <1>5, <1>6, <1>7, <1>8

(* An iteration of pg_unmap_range.                                         *)
LEMMA UnmapPageStep == PInv /\ UnmapPage => PInv'
<1> SUFFICES ASSUME PInv, UnmapPage PROVE PInv'
  OBVIOUS
<1> USE DEF PInv
<1>1. /\ op = "unmap" /\ i < count /\ pte[Page] # NoPage
      /\ kfree(pte[Page]) /\ pte' = [pte EXCEPT ![Page] = NoPage]
      /\ i' = i + 1
      /\ UNCHANGED <<kpgdir, ktables, pde, op, from, count, phase, held, regions>>
  BY DEF UnmapPage
<1>2. /\ Page \in VirtPages
      /\ i \in Nat /\ count \in Nat /\ from \in Nat /\ i + 1 \in 0 .. count
      /\ VPAGES \in Nat /\ from + count <= VPAGES
  BY <1>1, PageInRange
<1>3. /\ pte \in [VirtPages -> Frames \cup {NoPage}] /\ Distinct(pte, VirtPages)
      /\ pte[Page] \in Frames /\ pte[Page] \in EntryFrames(pte, VirtPages)
  BY <1>1, <1>2, OneRoleParts DEF TypeOK, EntryFrames
<1>4. /\ freemem' \in Seq(Frames) /\ Once(freemem')
      /\ FramesOf(freemem') = FramesOf(freemem) \cup {pte[Page]}
      /\ available' \in Nat /\ available' = Len(freemem')
      /\ total' = total
  <2>1. pte[Page] \notin FramesOf(freemem)
    BY <1>3, OneRoleParts DEF Parts
  <2> QED BY <1>1, <1>3, <2>1, KfreeStep
<1>5. /\ pte' \in [VirtPages -> Frames \cup {NoPage}]
      /\ pte'[Page] = NoPage /\ \A v \in VirtPages \ {Page} : pte'[v] = pte[v]
  BY <1>1, <1>2, <1>3
<1>6. /\ Distinct(pte', VirtPages)
      /\ EntryFrames(pte', VirtPages) = EntryFrames(pte, VirtPages) \ {pte[Page]}
  <2>1. pte[Page] # NoPage
    BY <1>1
  <2> QED BY <1>2, <1>3, <1>5, <2>1, ClearEntry
<1>7. KernelFrames' = KernelFrames /\ Donated' = Donated
  BY <1>1 DEF KernelFrames, Donated
<1>8. OneRole'
  <2>1. Parts(FramesOf(freemem'), EntryFrames(pde, Dirs), EntryFrames(pte', VirtPages),
              KernelFrames, held, Donated)
    BY <1>3, <1>4, <1>6, OneRoleParts DEF Parts
  <2> QED BY <1>1, <1>4, <1>6, <1>7, <2>1, OneRoleParts, PartsOneRole
<1>9. CountersHonest'
  BY <1>4, <1>7 DEF CountersHonest
<1>10. TypeOK'
  BY <1>1, <1>2, <1>4, <1>5 DEF TypeOK
<1>11. BootInv'
  BY <1>1 DEF BootInv
<1>12. LoopInv'
  BY <1>1, <1>2, <1>5 DEF LoopInv
<1>13. WalksSucceed'
  <2>1. ASSUME NEW v \in from' + i' .. from' + count' - 1
        PROVE  pde'[PDX(v)] # NoPage /\ pte'[v] # NoPage
    <3>1. v \in VirtPages /\ v # Page /\ v \in from + i .. from + count - 1
      BY <1>1, <1>2 DEF Page, VirtPages
    <3>2. pde[PDX(v)] # NoPage /\ pte[v] # NoPage
      BY <1>1, <3>1 DEF WalksSucceed
    <3> QED BY <1>1, <1>5, <3>1, <3>2
  <2> QED BY <1>1, <2>1 DEF WalksSucceed
<1>14. RegionsStayMapped'
  <2>1. ASSUME NEW r \in regions, NEW v \in r[1] .. r[1] + r[2] - 1 PROVE pte'[v] # NoPage
    <3>1. r \in VirtPages \X (1 .. VPAGES) /\ r[1] + r[2] <= VPAGES
      BY DEF TypeOK, Ranges
    <3>2. v \in VirtPages
      BY <1>2, <3>1 DEF VirtPages
    <3>3. pte[v] # NoPage
      BY DEF RegionsStayMapped
    <3>4. v # Page
      BY <1>1, <1>2, <3>1 DEF LoopInv, Apart, Page, VirtPages
    <3> QED BY <1>5, <3>2, <3>3, <3>4
  <2> QED BY <1>1, <2>1 DEF RegionsStayMapped
<1> QED BY <1>8, <1>9, <1>10, <1>11, <1>12, <1>13, <1>14

LEMMA UnmapDoneStep == PInv /\ UnmapDone => PInv'
<1> SUFFICES ASSUME PInv, UnmapDone PROVE PInv'
  OBVIOUS
<1> USE DEF PInv
<1>1. /\ op = "unmap" /\ op' = "idle" /\ from' = 0 /\ count' = 0 /\ i' = 0
      /\ UNCHANGED <<freemem, available, total, kpgdir, ktables, pde, pte, held,
                     phase, regions>>
  BY DEF UnmapDone, Leave, listVars, tableVars
<1>2. OneRole' /\ CountersHonest'
  BY <1>1, FramesKept DEF Donated
<1>3. TypeOK'
  <2>1. 0 \in VirtPages /\ 0 <= VPAGES
    BY PagesAssumption DEF Ranges, VirtPages
  <2> QED BY <1>1, <2>1 DEF TypeOK
<1>4. (BootInv /\ LoopInv /\ WalksSucceed /\ RegionsStayMapped)'
  BY <1>1 DEF BootInv, LoopInv, WalksSucceed, RegionsStayMapped
<1> QED BY <1>2, <1>3, <1>4

LEMMA PagesStutter == PInv /\ UNCHANGED vars => PInv'
<1> SUFFICES ASSUME PInv, UNCHANGED vars PROVE PInv'
  OBVIOUS
<1>1. UNCHANGED <<freemem, available, total, kpgdir, ktables, pde, pte, held,
                  op, from, count, i, phase, regions>>
  BY DEF vars, listVars, tableVars, callVars
<1>2. OneRole' /\ CountersHonest'
  BY <1>1, FramesKept DEF Donated
<1>3. TypeOK'
  BY <1>1 DEF PInv, TypeOK
<1>4. (BootInv /\ LoopInv /\ WalksSucceed /\ RegionsStayMapped)'
  BY <1>1 DEF PInv, BootInv, LoopInv, WalksSucceed, RegionsStayMapped
<1> QED BY <1>2, <1>3, <1>4 DEF PInv

-----------------------------------------------------------------------------
(* The theorems.                                                           *)

(* The inductive invariant holds in every behaviour.                       *)
THEOREM PagesInvariant == Spec => []PInv
<1>1. PInv /\ [Next]_vars => PInv'
  <2> SUFFICES ASSUME PInv, [Next]_vars PROVE PInv'
    OBVIOUS
  <2>1. CASE kallocinit
    BY <2>1, KallocinitStep
  <2>2. CASE kpginit
    BY <2>2, KpginitStep
  <2>3. CASE kallocexpand
    BY <2>3, KallocexpandStep
  <2>4. ASSUME NEW f \in Frames, ClientAlloc(f) \/ ClientFree(f) PROVE PInv'
    BY <2>4, ClientAllocStep, ClientFreeStep
  <2>5. ASSUME NEW r \in Ranges, pg_map_range(r) \/ pg_unmap_range(r) PROVE PInv'
    BY <2>5, CallStep
  <2>6. CASE CheckPage
    BY <2>6, CheckPageStep
  <2>7. CASE CheckDone
    BY <2>7, CheckDoneStep
  <2>8. CASE MapPage
    BY <2>8, MapPageStep
  <2>9. CASE CheckFails \/ MapFails \/ MapDone
    BY <2>9, ReturnStep
  <2>10. CASE UnmapPage
    BY <2>10, UnmapPageStep
  <2>11. CASE UnmapDone
    BY <2>11, UnmapDoneStep
  <2>12. CASE UNCHANGED vars
    BY <2>12, PagesStutter
  <2> QED BY <2>1, <2>2, <2>3, <2>4, <2>5, <2>6, <2>7, <2>8, <2>9, <2>10, <2>11, <2>12
          DEF Next
<1> QED BY <1>1, PagesInit, PTL DEF Spec

(* Every variable keeps its type, whatever the memory's size.              *)
THEOREM PagesTypeOK == Spec => []TypeOK
<1>1. PInv => TypeOK
  BY DEF PInv
<1> QED BY <1>1, PagesInvariant, PTL

(* No page of memory is lost or used for two things: kalloc, kfree,        *)
(* pg_map_range and pg_unmap_range keep every frame in one role.           *)
THEOREM FramesHaveOneRole == Spec => []OneRole
<1>1. PInv => OneRole
  BY DEF PInv
<1> QED BY <1>1, PagesInvariant, PTL

(* The counters always tell the length of the list and the frames there    *)
(* are.                                                                    *)
THEOREM CountersStayHonest == Spec => []CountersHonest
<1>1. PInv => CountersHonest
  BY DEF PInv
<1> QED BY <1>1, PagesInvariant, PTL

(* In the second loop of pg_map_range every table is there and every entry *)
(* free; in pg_unmap_range's every entry is in use.                        *)
THEOREM PageWalksSucceed == Spec => []WalksSucceed
<1>1. PInv => WalksSucceed
  BY DEF PInv
<1> QED BY <1>1, PagesInvariant, PTL

(* Mapped regions keep their pages and never overlap.                      *)
THEOREM RegionsKeepPages == Spec => []RegionsStayMapped
<1>1. PInv => RegionsStayMapped
  BY DEF PInv
<1> QED BY <1>1, PagesInvariant, PTL

(* No step but pg_unmap_range's, on a page of its range, changes an entry  *)
(* that is in use.                                                         *)
THEOREM MappedPagesStay == Spec => MappingsStable
<1> DEFINE Stable == \A v \in VirtPages : pte[v] # NoPage /\ pte'[v] # pte[v]
                        => op = "unmap" /\ v \in from .. from + count - 1
<1>1. PInv /\ [Next]_vars => [Stable]_vars
  <2> SUFFICES ASSUME PInv, Next PROVE Stable
    OBVIOUS
  <2>1. CASE pte' = pte
    BY <2>1
  <2>2. CASE MapPage
    BY <2>2 DEF MapPage, PInv, TypeOK
  <2>3. CASE UnmapPage
    <3>1. /\ op = "unmap" /\ i < count /\ pte' = [pte EXCEPT ![Page] = NoPage]
      BY <2>3 DEF UnmapPage
    <3>2. Page \in from .. from + count - 1
      BY <3>1, PageInRange DEF Page
    <3> QED BY <3>1, <3>2 DEF PInv, TypeOK
  <2> QED BY <2>1, <2>2, <2>3
          DEF Next, kallocinit, kpginit, kallocexpand, ClientAlloc, ClientFree,
              pg_map_range, pg_unmap_range, CheckPage, CheckFails, CheckDone,
              MapFails, MapDone, UnmapDone, tableVars
<1> QED BY <1>1, PagesInvariant, PTL DEF Spec, MappingsStable

=============================================================================
