----------------------------- MODULE FatProofs ------------------------------
(***************************************************************************)
(* Proofs about Fat for every size of the table, number of copies and      *)
(* choice of calls, under two hypotheses that the code needs and does not  *)
(* check: that the window is read at the place it is written (Slotted),    *)
(* and that the table is never as full as a quarter when a call asks for   *)
(* more (Roomy), so that no call's search fails twice in a row.            *)
(***************************************************************************)
EXTENDS Fat, SequenceTheorems, FiniteSetTheorems, TLAPS

\* an entry's place in the window is the same by fatclustervalue and by fatcache
Slotted == CACHE = 1 \/ FATSIZE <= CACHE

Roomy == 4 * (MaxUsed + 1) < EntryCount /\ MaxUsed + MaxCount < EntryCount - 2

Els(s)    == {s[k] : k \in 1 .. Len(s)}
LastOf(s) == s[Len(s)]

\* marked in the table, or to be marked by the call at work
Taken  == {c \in Clusters : table[c] # FREE \/ c = top}
Others == UNION {Els(x) : x \in chains \cup torn}

\* different clusters, each with the next one in its entry
Path(t, x) ==
    /\ x \in Seq(Clusters)
    /\ \A j, k \in 1 .. Len(x) : x[j] = x[k] => j = k
    /\ \A k \in 1 .. Len(x) - 1 : t[x[k]] = x[k + 1]

-----------------------------------------------------------------------------
(* The invariant.                                                          *)

Window ==
    /\ disk \in [Copies -> [Entries -> Nat]]
    /\ win \in 0 .. FATSIZE - 1
    /\ nsec = SectorsFrom(win)
    /\ buf \in [0 .. EPS * nsec - 1 -> Nat]
    /\ dirty \in BOOLEAN
    /\ table \in [Entries -> Nat]
    /\ CACHE = 1 \/ win = 0
    /\ \A e \in Entries : IF Held(e) THEN buf[e - FirstEntry] = table[e]
                          ELSE \A k \in Copies : disk[k][e] = table[e]
    /\ ~dirty => \A k \in Copies : disk[k] = table

Locals ==
    /\ search \in 1 .. EntryCount
    /\ cur \in Nat /\ left \in Nat /\ count \in Nat
    /\ found \in Entries /\ top \in Entries /\ next \in Entries /\ first \in Entries

\* the chains nobody is changing
OthersOK ==
    /\ \A x \in chains \cup torn : Path(table, x)
    /\ \A x, y \in chains \cup torn : x # y => Els(x) \cap Els(y) = {}
    /\ \A x \in chains : x # <<>> /\ table[LastOf(x)] = END
    /\ \A x \in torn : x # <<>> => table[LastOf(x)] # END

\* the one that is changed, and the part r of it that has still to be freed
MineOK(r) ==
    /\ Path(table, work) /\ Path(table, r)
    /\ Els(work) \cap Els(r) = {}
    /\ Others \cap (Els(work) \cup Els(r)) = {}
    /\ Taken = Others \cup Els(work) \cup Els(r)

AtRest(r)  == work = <<>> /\ r = <<>> /\ top = 0 /\ next = 0 /\ first = 0
Growing(r) == r = <<>> /\ next = 0 /\ first = 0
Freeing    == work # <<>> /\ first = LastOf(work) /\ top = 0 /\ found = 0

\* a cluster that the last search did not find has been freed, and the next one will find it
Refind == /\ search + 1 \in Clusters /\ table[search] # FREE /\ table[search + 1] = FREE
          /\ 4 * search + 2 <= EntryCount
          /\ work # <<>> => table[LastOf(work)] = search + 1

Phase(r) ==
    CASE pc \in {"idle", "findForCreate"} -> AtRest(r) /\ found = 0
      [] pc = "create" -> AtRest(r)
      [] pc = "findForGrow" ->
            /\ Growing(r) /\ found = 0
            /\ IF top = 0 THEN Refind
               ELSE /\ work # <<>> /\ LastOf(work) = top
                    /\ \/ Cardinality(Taken) <= MaxUsed /\ table[top] # FREE
                       \/ search = top + 1
      [] pc = "link" ->
            /\ Growing(r)
            /\ IF top = 0 THEN found # 0 /\ (work # <<>> => table[LastOf(work)] = found)
               ELSE work # <<>> /\ LastOf(work) = top
      [] pc = "sealGrown" ->
            /\ Growing(r) /\ top = found
            /\ IF found = 0 THEN work # <<>> => table[LastOf(work)] # END
               ELSE work # <<>> /\ LastOf(work) = top
      [] pc = "shrink" ->
            /\ Freeing /\ next = 0
            /\ IF r = <<>> THEN table[first] = END
               ELSE table[first] = r[1] /\ table[LastOf(r)] = END
      [] pc = "freeing" -> Freeing /\ r # <<>> /\ next = r[1] /\ table[LastOf(r)] = END
      [] pc = "sealShrunk" -> Freeing /\ r = <<>>
      [] pc = "commit" ->
            /\ r = <<>> /\ top \in {0, found}
            /\ (found # 0 => table[found] # FREE) /\ (first # 0 => first = LastOf(work))
            /\ IF first = 0 /\ found = 0 THEN work # <<>> => table[LastOf(work)] # END
               ELSE work # <<>> /\ table[LastOf(work)] = END
      [] OTHER -> FALSE

\* nothing is free behind the search start, as far as the calls need it
Search ==
    /\ table[1] # FREE
    /\ IF search < EntryCount THEN \A c \in Clusters : c < search => c \in Taken \cup {found}
       ELSE /\ found = 0
            /\ IF pc = "link"
               THEN /\ top # 0 /\ 4 * (top - 1) + 2 <= EntryCount
                    /\ \A c \in Clusters : c < top => c \in Taken
               ELSE \A c \in Clusters, d \in Taken : c < d => c \in Taken
    /\ pc \in {"create", "link"} =>
          IF found = 0 THEN search = EntryCount
          ELSE search = found + 1 /\ found # 1 /\ found # top /\ table[found] = FREE
    /\ pc = "findForCreate" => Cardinality(Taken) <= MaxUsed
    /\ pc \in {"findForGrow", "link"} =>
          count > 0 /\ Cardinality(Taken) + count <= MaxUsed + MaxCount
    /\ Finding => /\ search < EntryCount /\ cur >= search
                  /\ left + cur = EntriesLeft(search) + search
                  /\ \A e \in Entries : search <= e /\ e < cur => table[e] # FREE

FInv == Window /\ Locals /\ OthersOK /\ Search /\ \E r \in Seq(Clusters) : MineOK(r) /\ Phase(r)

-----------------------------------------------------------------------------
(* The constants, and remainders.                                          *)

LEMMA Constants ==
    /\ EPS \in Nat /\ EPS > 0 /\ FATSIZE \in Nat /\ FATSIZE > 0 /\ FATCOUNT \in Nat /\ FATCOUNT > 0
    /\ CACHE \in Nat /\ CACHE > 0 /\ UINT \in Nat /\ MaxUsed \in Nat /\ MaxCount \in Nat
    /\ EntryCount \in Nat /\ EntryCount = EPS * FATSIZE
    /\ EntryCount >= 4 /\ EntryCount < END /\ END \in Nat /\ UINT > 4 * EntryCount
<1>1. /\ {EPS, FATSIZE, FATCOUNT, CACHE} \subseteq Nat \ {0} /\ {MaxUsed, MaxCount} \subseteq Nat
      /\ EPS * FATSIZE \in 4 .. END - 1 /\ UINT \in Nat /\ UINT > 4 * EPS * FATSIZE
  BY FatAssumption
<1>2. /\ EPS \in Nat /\ EPS > 0 /\ FATSIZE \in Nat /\ FATSIZE > 0 /\ FATCOUNT \in Nat /\ FATCOUNT > 0
      /\ CACHE \in Nat /\ CACHE > 0 /\ UINT \in Nat /\ MaxUsed \in Nat /\ MaxCount \in Nat
  <2>1. {EPS, FATSIZE, FATCOUNT, CACHE} \subseteq Nat \ {0} /\ {MaxUsed, MaxCount} \subseteq Nat
    BY <1>1
  <2> QED
    BY <1>1, <2>1
<1>3. END \in Nat
  BY SMT DEF END
<1>4. EntryCount = EPS * FATSIZE /\ EPS * FATSIZE \in Int
  BY <1>2 DEF EntryCount
<1>5. 4 * EPS * FATSIZE = 4 * EntryCount
  BY <1>2, <1>4
<1> QED
  BY <1>1, <1>2, <1>3, <1>4, <1>5

(* What a number is by a larger one, and below 0.                          *)
LEMMA Remainders ==
    ASSUME NEW n \in Nat, NEW x \in Int, n > 0
    PROVE  /\ 0 <= x /\ x < n => x % n = x
           /\ x < 0 /\ -n <= x => x % n = x + n
OBVIOUS

(* The unsigned subtraction wraps if the start is behind a quarter of the  *)
(* table (fat.c:132).                                                      *)
LEMMA EntriesLeftIs ==
    ASSUME NEW s \in 1 .. EntryCount
    PROVE  /\ 4 * s <= EntryCount => EntriesLeft(s) = EntryCount - 4 * s
           /\ 4 * s > EntryCount => EntriesLeft(s) = EntryCount - 4 * s + UINT
           /\ EntriesLeft(s) \in Nat
<1>1. s * 4 = 4 * s /\ EntryCount - s * 4 \in Int /\ EntryCount - s * 4 < UINT
      /\ EntryCount - s * 4 >= -UINT /\ UINT > 0 /\ UINT \in Nat /\ EntryCount \in Nat
  BY Constants
<1> DEFINE x == EntryCount - s * 4
<1>2. /\ 0 <= x /\ x < UINT => x % UINT = x
      /\ x < 0 /\ -UINT <= x => x % UINT = x + UINT
  BY <1>1, Remainders
<1> QED
  BY <1>1, <1>2 DEF EntriesLeft

-----------------------------------------------------------------------------
(* The window.                                                             *)

(* A window lies in the table.                                             *)
LEMMA WindowFits ==
    ASSUME NEW s \in 0 .. FATSIZE - 1
    PROVE  /\ SectorsFrom(s) \in Nat /\ SectorsFrom(s) > 0
           /\ s * EPS \in Nat /\ EPS * SectorsFrom(s) \in Nat
           /\ s * EPS + EPS * SectorsFrom(s) <= EntryCount
           /\ CACHE = 1 => SectorsFrom(s) = 1
           /\ FATSIZE <= CACHE /\ s = 0 => SectorsFrom(s) = FATSIZE
<1>1. /\ SectorsFrom(s) \in Nat /\ SectorsFrom(s) > 0 /\ s + SectorsFrom(s) <= FATSIZE
      /\ CACHE = 1 => SectorsFrom(s) = 1
      /\ FATSIZE <= CACHE /\ s = 0 => SectorsFrom(s) = FATSIZE
  BY Constants DEF SectorsFrom
<1>2. \A n \in Nat : s + n <= FATSIZE => s * EPS + EPS * n <= EPS * FATSIZE /\ EPS * n \in Nat
  BY Constants
<1>3. s * EPS \in Nat
  BY Constants
<1> QED
  BY <1>1, <1>2, <1>3, Constants

(* An entry that is served is held, in the slot it was read to.            *)
LEMMA SlotOf ==
    ASSUME Slotted, Window, NEW e \in Entries, Served(e)
    PROVE  /\ Held(e) /\ Slot(e) = e - FirstEntry
           /\ Slot(e) \in 0 .. EPS * nsec - 1
<1> USE Constants
<1>1. e \in Nat /\ e < EPS * FATSIZE
  BY DEF Entries
<1>2. e \div EPS < FATSIZE
  <2>1. e \div EPS \in Int /\ EPS * (e \div EPS) <= e
    BY <1>1
  <2>2. ~(e \div EPS >= FATSIZE)
    <3>1. SUFFICES ASSUME e \div EPS >= FATSIZE PROVE FALSE
      OBVIOUS
    <3>2. EPS * (e \div EPS) >= EPS * FATSIZE
      BY <2>1, <3>1
    <3> QED
      BY <1>1, <2>1, <3>2
  <2> QED
    BY <2>1, <2>2
<1>3. Held(e)
  <2>1. e \div EPS \in Int /\ FATSIZE \in Nat
    BY <1>1
  <2>2. ~(e \div EPS >= FATSIZE)
    BY <1>2, <2>1
  <2> QED
    BY <2>2, Zenon DEF Served
<1>4. /\ win \in 0 .. FATSIZE - 1 /\ nsec = SectorsFrom(win) /\ (CACHE = 1 \/ win = 0)
  BY DEF Window
<1>5. /\ nsec \in Nat /\ nsec > 0 /\ win * EPS \in Nat /\ EPS * nsec \in Nat
      /\ CACHE = 1 => nsec = 1
      /\ FATSIZE <= CACHE => win = 0
  <2>1. CACHE = 1 \/ FATSIZE <= CACHE
    BY DEF Slotted
  <2>2. CACHE = 1 /\ FATSIZE <= CACHE => FATSIZE = 1
    OBVIOUS
  <2> QED
    BY <1>4, <2>1, <2>2, WindowFits
<1>6. FirstEntry = win * EPS /\ e >= win * EPS /\ e < win * EPS + EPS * nsec
  BY <1>3 DEF Held, FirstEntry
<1>7. e % (EPS * nsec) = e - win * EPS
  <2>1. CASE CACHE = 1
    <3>1. EPS * nsec = EPS
      BY <1>5, <2>1
    <3>2. e < (win + 1) * EPS
      BY <1>4, <1>6, <3>1
    <3>3. e % EPS = e - EPS * (e \div EPS) /\ e \div EPS \in Int
      BY <1>1
    <3>4. e \div EPS = win
      BY <1>1, <1>4, <1>6, <3>2
    <3> QED
      BY <1>4, <3>1, <3>3, <3>4
  <2>2. CASE FATSIZE <= CACHE
    <3>1. win * EPS = 0 /\ EPS * nsec > 0
      BY <1>5, <1>6, <1>1, <2>2
    <3> QED
      BY <1>1, <1>5, <1>6, <3>1, Remainders
  <2> QED
    BY <2>1, <2>2 DEF Slotted
<1>8. Slot(e) = e - FirstEntry
  BY <1>6, <1>7 DEF Slot
<1>9. \A w, n \in Nat : e >= w /\ e < w + n => e - w \in 0 .. n - 1
  BY <1>1
<1> QED
  BY <1>3, <1>5, <1>6, <1>8, <1>9

(* fatclustervalue gives the table's value.                                *)
LEMMA Reads ==
    ASSUME Slotted, Window, NEW e \in Entries, Served(e)
    PROVE  fatclustervalue(e) = table[e]
<1>1. Held(e) /\ Slot(e) = e - FirstEntry
  BY SlotOf
<1> QED
  BY <1>1 DEF Window, fatclustervalue

(* fatsetcluster sets one entry of the table, and the search start goes    *)
(* back to a cluster that is freed before it.                              *)
LEMMA Sets ==
    ASSUME Slotted, Window, NEW e \in Entries, NEW v \in Nat, Served(e), fatsetcluster(e, v)
    PROVE  /\ Window'
           /\ table' = [table EXCEPT ![e] = v]
           /\ search' = IF v = FREE /\ e < search THEN (e - 1) % UINT ELSE search
<1>1. /\ buf' = [buf EXCEPT ![Slot(e)] = v] /\ dirty' = TRUE
      /\ search' = IF v = FREE /\ e < search THEN (e - 1) % UINT ELSE search
      /\ table' = [table EXCEPT ![e] = v]
      /\ disk' = disk /\ win' = win /\ nsec' = nsec
  BY DEF fatsetcluster
<1>2. Held(e) /\ Slot(e) = e - FirstEntry /\ Slot(e) \in 0 .. EPS * nsec - 1
  BY SlotOf
<1>3. /\ disk \in [Copies -> [Entries -> Nat]] /\ win \in 0 .. FATSIZE - 1 /\ nsec = SectorsFrom(win)
      /\ buf \in [0 .. EPS * nsec - 1 -> Nat] /\ table \in [Entries -> Nat]
      /\ (CACHE = 1 \/ win = 0)
  BY DEF Window
<1>4. buf' \in [0 .. EPS * nsec' - 1 -> Nat] /\ table' \in [Entries -> Nat]
  BY <1>1, <1>2, <1>3
<1>5. nsec' = SectorsFrom(win)'
  BY <1>1, <1>3 DEF SectorsFrom
<1>6. ASSUME NEW f \in Entries
      PROVE  IF Held(f)' THEN buf'[f - FirstEntry'] = table'[f]
             ELSE \A k \in Copies : disk'[k][f] = table'[f]
  <2>1. (Held(f)' <=> Held(f)) /\ FirstEntry' = FirstEntry
    BY <1>1 DEF Held, FirstEntry
  <2>2. IF Held(f) THEN buf[f - FirstEntry] = table[f] ELSE \A k \in Copies : disk[k][f] = table[f]
    BY DEF Window
  <2>3. CASE f = e
    BY <1>1, <1>2, <1>3, <2>1, <2>3
  <2>4. CASE f # e
    <3>1. table'[f] = table[f]
      BY <1>1, <1>3, <2>4
    <3>2. Held(f) => buf'[f - FirstEntry] = buf[f - FirstEntry]
      <4>1. FirstEntry \in Int /\ f \in Int /\ e \in Int
        BY <1>3, WindowFits DEF FirstEntry, Entries
      <4>2. f - FirstEntry # e - FirstEntry
        BY <2>4, <4>1
      <4> QED
        BY <1>1, <1>2, <1>3, <4>2
    <3> QED
      BY <1>1, <2>1, <2>2, <3>1, <3>2
  <2> QED
    BY <2>3, <2>4
<1> QED
  BY <1>1, <1>3, <1>4, <1>5, <1>6 DEF Window

(* fatcommit makes the copies on the disk the table.                       *)
LEMMA CommittedIs ==
    ASSUME Window
    PROVE  \A k \in Copies : Committed[k] = table
<1>1. /\ disk \in [Copies -> [Entries -> Nat]] /\ table \in [Entries -> Nat]
      /\ \A e \in Entries : IF Held(e) THEN buf[e - FirstEntry] = table[e]
                            ELSE \A k \in Copies : disk[k][e] = table[e]
      /\ ~dirty => \A k \in Copies : disk[k] = table
  BY DEF Window
<1>2. CASE dirty
  <2>1. ASSUME NEW k \in Copies PROVE Committed[k] = table
    <3>1. Committed[k] = [e \in Entries |-> IF Held(e) THEN buf[e - FirstEntry] ELSE disk[k][e]]
      BY <1>2 DEF Committed
    <3>2. \A e \in Entries : (IF Held(e) THEN buf[e - FirstEntry] ELSE disk[k][e]) = table[e]
      BY <1>1
    <3> QED
      BY <1>1, <3>1, <3>2
  <2> QED
    BY <2>1
<1>3. CASE ~dirty
  BY <1>1, <1>3 DEF Committed
<1> QED
  BY <1>2, <1>3

LEMMA CommittedType ==
    ASSUME Window
    PROVE  Committed \in [Copies -> [Entries -> Nat]]
<1>1. disk \in [Copies -> [Entries -> Nat]] /\ table \in [Entries -> Nat]
  BY DEF Window
<1>2. \A k \in Copies : Committed[k] = table
  BY CommittedIs
<1>3. DOMAIN Committed = Copies /\ Committed = [k \in Copies |-> Committed[k]]
  BY <1>1 DEF Committed
<1> QED
  BY <1>1, <1>2, <1>3

LEMMA Commits ==
    ASSUME Window, fatcommit
    PROVE  Window' /\ table' = table /\ search' = search
<1>1. /\ disk' = Committed /\ dirty' = FALSE
      /\ buf' = buf /\ win' = win /\ nsec' = nsec /\ search' = search /\ table' = table
  BY DEF fatcommit
<1>2. disk' \in [Copies -> [Entries -> Nat]] /\ \A k \in Copies : disk'[k] = table'
  BY <1>1, CommittedIs, CommittedType
<1>3. FirstEntry' = FirstEntry /\ \A e \in Entries : Held(e)' <=> Held(e)
  BY <1>1 DEF Held, FirstEntry
<1>4. nsec' = SectorsFrom(win)' /\ buf' \in [0 .. EPS * nsec' - 1 -> Nat]
  BY <1>1 DEF SectorsFrom, Window
<1> QED
  BY <1>1, <1>2, <1>3, <1>4 DEF Window

(* The window is moved only if one sector is all it holds; then it has the *)
(* sector's entries, and the copies on the disk are the table.             *)
LEMMA Moves ==
    ASSUME Slotted, Window, NEW e \in Nat, ~Served(e), fatcache(e \div EPS)
    PROVE  Window' /\ table' = table /\ search' = search
<1> DEFINE s == e \div EPS
<1>1. /\ disk' = Committed /\ win' = s /\ nsec' = SectorsFrom(s) /\ buf' = WindowAt(disk', s)
      /\ dirty' = FALSE /\ search' = search /\ table' = table
  BY DEF fatcache
<1>2. ~(s >= FATSIZE) /\ s \in Nat
  <2>1. s \in Nat
    BY Constants
  <2> QED
    BY <2>1 DEF Served
<1>3. s \in 0 .. FATSIZE - 1
  BY <1>2, Constants
<1>4. CACHE = 1
  <2>1. SUFFICES ASSUME CACHE # 1 PROVE FALSE
    OBVIOUS
  <2>2. FATSIZE <= CACHE /\ win = 0 /\ nsec = SectorsFrom(0) /\ 0 \in 0 .. FATSIZE - 1
    BY <2>1, Constants DEF Slotted, Window
  <2>3. nsec = FATSIZE /\ FirstEntry = 0 /\ FirstEntry + EPS * nsec = EPS * FATSIZE
    BY <2>2, WindowFits, Constants DEF FirstEntry
  <2>4. e >= EPS * FATSIZE
    <3>1. ~(e >= FirstEntry /\ e < FirstEntry + EPS * nsec)
      BY Zenon DEF Served, Held
    <3>2. EPS * FATSIZE \in Nat /\ e >= FirstEntry
      BY <2>3, Constants
    <3>3. ~(e < EPS * FATSIZE)
      BY <2>3, <3>1, <3>2, Zenon
    <3> QED
      BY <3>2, <3>3
  <2>5. e \div EPS >= FATSIZE
    BY <2>4, Constants
  <2> QED
    BY <1>2, <2>5
<1> HIDE DEF s
<1>5. /\ SectorsFrom(s) \in Nat /\ s * EPS \in Nat /\ EPS * SectorsFrom(s) \in Nat
      /\ s * EPS + EPS * SectorsFrom(s) <= EntryCount
  BY <1>3, WindowFits
<1>6. disk' \in [Copies -> [Entries -> Nat]] /\ \A k \in Copies : disk'[k] = table'
  BY <1>1, CommittedIs, CommittedType
<1>7. table' \in [Entries -> Nat] /\ disk'[1] = table'
  BY <1>1, <1>6, Constants DEF Window, Copies
<1>8. buf' = [j \in 0 .. EPS * nsec' - 1 |-> table'[s * EPS + j]]
  BY <1>1, <1>7 DEF WindowAt
<1>9. buf' \in [0 .. EPS * nsec' - 1 -> Nat]
  <2>1. ASSUME NEW j \in 0 .. EPS * nsec' - 1 PROVE table'[s * EPS + j] \in Nat
    <3>1. s * EPS + j \in Entries
      BY <1>1, <1>5, Constants DEF Entries
    <3> QED
      BY <1>7, <3>1
  <2> QED
    BY <1>8, <2>1
<1>10. ASSUME NEW f \in Entries, Held(f)' PROVE buf'[f - FirstEntry'] = table'[f]
  <2>1. FirstEntry' = s * EPS /\ f \in Nat
    BY <1>1, Constants DEF FirstEntry, Entries
  <2>2. f >= s * EPS /\ f < s * EPS + EPS * nsec'
    BY <1>10, <2>1 DEF Held
  <2>3. f - s * EPS \in 0 .. EPS * nsec' - 1 /\ s * EPS + (f - s * EPS) = f
    BY <1>1, <1>5, <2>1, <2>2
  <2> QED
    BY <1>8, <2>1, <2>3
<1>11. nsec' = SectorsFrom(win)'
  BY <1>1 DEF SectorsFrom
<1> QED
  BY <1>1, <1>3, <1>4, <1>6, <1>7, <1>9, <1>10, <1>11 DEF Window

-----------------------------------------------------------------------------
(* Paths.                                                                  *)

LEMMA ElsIn ==
    ASSUME NEW x \in Seq(Clusters)
    PROVE  /\ Len(x) \in Nat /\ Els(x) \subseteq Clusters
           /\ x # <<>> => Len(x) > 0 /\ LastOf(x) \in Els(x) /\ LastOf(x) \in Clusters
<1>1. Len(x) \in Nat /\ \A k \in 1 .. Len(x) : x[k] \in Clusters
  OBVIOUS
<1>2. x # <<>> => Len(x) > 0 /\ Len(x) \in 1 .. Len(x)
  BY <1>1
<1> QED
  BY <1>1, <1>2 DEF Els, LastOf

LEMMA ClustersIn == \A c \in Clusters : c \in Entries /\ c \in Nat /\ c >= 2 /\ c < EntryCount /\ c # END
BY Constants DEF Clusters, Entries

(* An entry outside a path does not change it.                             *)
LEMMA PathStays ==
    ASSUME NEW t, NEW u, NEW x, Path(t, x), \A c \in Els(x) : u[c] = t[c]
    PROVE  Path(u, x) /\ (x # <<>> => u[LastOf(x)] = t[LastOf(x)])
<1>1. x \in Seq(Clusters) /\ Len(x) \in Nat
  BY DEF Path
<1>2. ASSUME NEW k \in 1 .. Len(x) - 1 PROVE u[x[k]] = x[k + 1]
  <2>1. k \in 1 .. Len(x)
    BY <1>1
  <2>2. x[k] \in Els(x)
    BY <2>1 DEF Els
  <2> QED
    BY <2>2 DEF Path
<1>3. x # <<>> => LastOf(x) \in Els(x)
  BY <1>1, ElsIn
<1> QED
  BY <1>2, <1>3 DEF Path

(* Both parts of a path are paths, and share nothing.                      *)
Cut(t, x, n, a, b) ==
    /\ Path(t, a) /\ Path(t, b)
    /\ Els(x) = Els(a) \cup Els(b) /\ Els(a) \cap Els(b) = {}
    /\ n > 0 => a # <<>> /\ LastOf(a) = x[n]
    /\ n < Len(x) => b # <<>> /\ b[1] = x[n + 1] /\ LastOf(b) = LastOf(x)
    /\ n = Len(x) => b = <<>> /\ a = x
    /\ Len(b) = Len(x) - n

LEMMA PathCut ==
    ASSUME NEW t, NEW x, Path(t, x), NEW n \in 0 .. Len(x)
    PROVE  Cut(t, x, n, SubSeq(x, 1, n), SubSeq(x, n + 1, Len(x)))
<1> DEFINE a == SubSeq(x, 1, n)
           b == SubSeq(x, n + 1, Len(x))
<1>1. x \in Seq(Clusters) /\ Len(x) \in Nat /\ n \in Nat /\ n <= Len(x)
  BY DEF Path
<1>2. /\ a \in Seq(Clusters) /\ Len(a) = n /\ \A k \in 1 .. n : a[k] = x[k]
      /\ b \in Seq(Clusters) /\ Len(b) = Len(x) - n
      /\ \A k \in 1 .. Len(x) - n : b[k] = x[n + k]
  <2>1. a \in Seq(Clusters) /\ Len(a) = n /\ \A k \in 1 .. n : a[k] = x[k]
    BY <1>1
  <2>2. b \in Seq(Clusters) /\ Len(b) = Len(x) - n
    BY <1>1
  <2>3. \A k \in 1 .. Len(x) - n : b[k] = x[n + k]
    BY <1>1
  <2> QED
    BY <2>1, <2>2, <2>3
<1>3. /\ \A j, k \in 1 .. Len(x) : x[j] = x[k] => j = k
      /\ \A k \in 1 .. Len(x) - 1 : t[x[k]] = x[k + 1]
  BY DEF Path
<1> HIDE DEF a, b
<1>4. Path(t, a)
  <2>1. ASSUME NEW j \in 1 .. Len(a), NEW k \in 1 .. Len(a), a[j] = a[k] PROVE j = k
    <3>1. j \in 1 .. Len(x) /\ k \in 1 .. Len(x) /\ x[j] = x[k]
      BY <1>1, <1>2, <2>1
    <3> QED
      BY <1>3, <3>1
  <2>2. ASSUME NEW k \in 1 .. Len(a) - 1 PROVE t[a[k]] = a[k + 1]
    <3>1. k \in 1 .. Len(x) - 1 /\ k \in 1 .. n /\ k + 1 \in 1 .. n
      BY <1>1, <1>2
    <3> QED
      BY <1>2, <1>3, <3>1
  <2> QED
    BY <1>2, <2>1, <2>2 DEF Path
<1>5. Path(t, b)
  <2>1. ASSUME NEW j \in 1 .. Len(b), NEW k \in 1 .. Len(b), b[j] = b[k] PROVE j = k
    <3>1. n + j \in 1 .. Len(x) /\ n + k \in 1 .. Len(x) /\ x[n + j] = x[n + k]
      BY <1>1, <1>2, <2>1
    <3> QED
      BY <1>1, <1>3, <3>1
  <2>2. ASSUME NEW k \in 1 .. Len(b) - 1 PROVE t[b[k]] = b[k + 1]
    <3>1. /\ k \in 1 .. Len(x) - n /\ k + 1 \in 1 .. Len(x) - n
          /\ n + k \in 1 .. Len(x) - 1 /\ n + (k + 1) = (n + k) + 1
      BY <1>1, <1>2
    <3> QED
      BY <1>2, <1>3, <3>1
  <2> QED
    BY <1>2, <2>1, <2>2 DEF Path
<1>6. Els(a) \cup Els(b) = Els(x)
  <2>1. ASSUME NEW k \in 1 .. Len(x) PROVE x[k] \in Els(a) \cup Els(b)
    <3>1. CASE k <= n
      BY <1>1, <1>2, <3>1 DEF Els
    <3>2. CASE k > n
      <4>1. k - n \in 1 .. Len(b) /\ n + (k - n) = k
        BY <1>1, <1>2, <3>2
      <4> QED
        BY <1>2, <4>1 DEF Els
    <3> QED
      BY <1>1, <3>1, <3>2
  <2>2. ASSUME NEW k \in 1 .. Len(a) PROVE a[k] \in Els(x)
    BY <1>1, <1>2 DEF Els
  <2>3. ASSUME NEW k \in 1 .. Len(b) PROVE b[k] \in Els(x)
    <3>1. n + k \in 1 .. Len(x)
      BY <1>1, <1>2
    <3> QED
      BY <1>2, <3>1 DEF Els
  <2> QED
    BY <2>1, <2>2, <2>3 DEF Els
<1>7. Els(a) \cap Els(b) = {}
  <2>1. ASSUME NEW j \in 1 .. Len(a), NEW k \in 1 .. Len(b), a[j] = b[k] PROVE FALSE
    <3>1. j \in 1 .. Len(x) /\ n + k \in 1 .. Len(x) /\ x[j] = x[n + k] /\ j # n + k
      BY <1>1, <1>2, <2>1
    <3> QED
      BY <1>3, <3>1
  <2> QED
    BY <2>1 DEF Els
<1>8. n > 0 => a # <<>> /\ LastOf(a) = x[n]
  BY <1>1, <1>2 DEF LastOf
<1>9. n < Len(x) => b # <<>> /\ b[1] = x[n + 1] /\ LastOf(b) = LastOf(x)
  <2>1. SUFFICES ASSUME n < Len(x) PROVE b # <<>> /\ b[1] = x[n + 1] /\ LastOf(b) = LastOf(x)
    OBVIOUS
  <2>2. 1 \in 1 .. Len(x) - n /\ Len(x) - n \in 1 .. Len(x) - n /\ n + (Len(x) - n) = Len(x)
    BY <1>1, <2>1
  <2>3. b[1] = x[n + 1] /\ b[Len(x) - n] = x[Len(x)]
    BY <1>2, <2>2
  <2>4. b # <<>>
    BY <1>1, <1>2, <2>1
  <2> QED
    BY <1>2, <2>3, <2>4 DEF LastOf
<1>10. n = Len(x) => b = <<>> /\ a = x
  BY <1>1, <1>2
<1> QED
  BY <1>2, <1>4, <1>5, <1>6, <1>7, <1>8, <1>9, <1>10 DEF a, b, Cut

(* A cluster at the end of a path that leads to it.                        *)
LEMMA PathAppend ==
    ASSUME NEW t, NEW x, Path(t, x), NEW c \in Clusters, c \notin Els(x),
           x # <<>> => t[LastOf(x)] = c
    PROVE  LET y == Append(x, c) IN
           Path(t, y) /\ Els(y) = Els(x) \cup {c} /\ y # <<>> /\ LastOf(y) = c
<1> DEFINE y == Append(x, c)
<1>1. /\ x \in Seq(Clusters) /\ Len(x) \in Nat
      /\ \A j, k \in 1 .. Len(x) : x[j] = x[k] => j = k
      /\ \A k \in 1 .. Len(x) - 1 : t[x[k]] = x[k + 1]
  BY DEF Path
<1>2. y \in Seq(Clusters) /\ Len(y) = Len(x) + 1 /\ y[Len(x) + 1] = c
      /\ \A k \in 1 .. Len(x) : y[k] = x[k]
  BY <1>1
<1> HIDE DEF y
<1>3. \A k \in 1 .. Len(x) : x[k] # c
  BY DEF Els
<1>4. Path(t, y)
  <2>1. ASSUME NEW j \in 1 .. Len(y), NEW k \in 1 .. Len(y), y[j] = y[k] PROVE j = k
    BY <1>1, <1>2, <1>3, <2>1
  <2>2. ASSUME NEW k \in 1 .. Len(y) - 1 PROVE t[y[k]] = y[k + 1]
    <3>1. CASE k = Len(x)
      <4>1. x # <<>> /\ LastOf(x) = x[k]
        BY <1>1, <3>1 DEF LastOf
      <4> QED
        BY <1>1, <1>2, <3>1, <4>1
    <3>2. CASE k # Len(x)
      <4>1. k \in 1 .. Len(x) - 1 /\ k \in 1 .. Len(x) /\ k + 1 \in 1 .. Len(x)
        BY <1>1, <1>2, <3>2
      <4> QED
        BY <1>1, <1>2, <4>1
    <3> QED
      BY <3>1, <3>2
  <2> QED
    BY <1>2, <2>1, <2>2 DEF Path
<1>5. Els(y) = Els(x) \cup {c}
  <2>1. \A k \in 1 .. Len(y) : k \in 1 .. Len(x) \/ k = Len(x) + 1
    BY <1>1, <1>2
  <2>2. 1 .. Len(x) \subseteq 1 .. Len(y) /\ Len(x) + 1 \in 1 .. Len(y)
    BY <1>1, <1>2
  <2> QED
    BY <1>2, <2>1, <2>2 DEF Els
<1>6. y # <<>> /\ LastOf(y) = c
  BY <1>1, <1>2 DEF LastOf
<1> QED
  BY <1>4, <1>5, <1>6 DEF y

-----------------------------------------------------------------------------
(* The chains that nobody is changing.                                     *)

LEMMA OthersStay ==
    ASSUME OthersOK, chains' = chains, torn' = torn, \A c \in Others : table'[c] = table[c]
    PROVE  OthersOK' /\ Others' = Others
<1>1. Others' = Others
  BY DEF Others
<1>2. ASSUME NEW x \in chains \cup torn
      PROVE  Path(table', x) /\ (x # <<>> => table'[LastOf(x)] = table[LastOf(x)])
  <2>1. Path(table, x) /\ \A c \in Els(x) : table'[c] = table[c]
    BY DEF OthersOK, Others
  <2> QED
    BY <2>1, PathStays
<1>3. OthersOK'
  BY <1>2 DEF OthersOK
<1> QED
  BY <1>1, <1>3

LEMMA OthersLose ==
    ASSUME OthersOK, NEW ch \in chains, chains' = chains \ {ch}, torn' = torn, table' = table
    PROVE  /\ OthersOK' /\ Path(table, ch) /\ ch # <<>> /\ table[LastOf(ch)] = END
           /\ Others = Others' \cup Els(ch) /\ Others' \cap Els(ch) = {}
<1>1. OthersOK'
  BY DEF OthersOK
<1>2. Path(table, ch) /\ ch # <<>> /\ table[LastOf(ch)] = END
  BY DEF OthersOK
<1>3. ch \notin torn
  BY <1>2 DEF OthersOK
<1>4. chains' \cup torn' = (chains \cup torn) \ {ch}
  BY <1>3
<1>5. Others = Others' \cup Els(ch)
  BY <1>4 DEF Others
<1>6. Others' \cap Els(ch) = {}
  <2>1. \A x \in (chains \cup torn) \ {ch} : Els(x) \cap Els(ch) = {}
    BY DEF OthersOK
  <2> QED
    BY <1>4, <2>1 DEF Others
<1> QED
  BY <1>1, <1>2, <1>5, <1>6

LEMMA OthersGain ==
    ASSUME OthersOK, NEW w, Path(table, w), Els(w) \cap Others = {}, table' = table,
           \/ /\ chains' = chains \cup {w} /\ torn' = torn
              /\ w # <<>> /\ table[LastOf(w)] = END
           \/ /\ chains' = chains /\ torn' = torn \cup {w}
              /\ w # <<>> => table[LastOf(w)] # END
    PROVE  OthersOK' /\ Others' = Others \cup Els(w)
<1>1. chains' \cup torn' = chains \cup torn \cup {w}
  OBVIOUS
<1>2. Others' = Others \cup Els(w)
  BY <1>1 DEF Others
<1>3. \A x \in chains' \cup torn' : Path(table', x)
  BY <1>1 DEF OthersOK
<1>4. ASSUME NEW x \in chains' \cup torn', NEW y \in chains' \cup torn', x # y
      PROVE  Els(x) \cap Els(y) = {}
  <2>1. \A z \in chains \cup torn : Els(z) \cap Els(w) = {}
    BY DEF Others
  <2>2. CASE x = w
    BY <1>1, <1>4, <2>1, <2>2
  <2>3. CASE y = w
    BY <1>1, <1>4, <2>1, <2>3
  <2>4. CASE x # w /\ y # w
    BY <1>1, <1>4, <2>4 DEF OthersOK
  <2> QED
    BY <2>2, <2>3, <2>4
<1>5. /\ \A x \in chains' : x # <<>> /\ table'[LastOf(x)] = END
      /\ \A x \in torn' : x # <<>> => table'[LastOf(x)] # END
  BY DEF OthersOK
<1> QED
  BY <1>2, <1>3, <1>4, <1>5 DEF OthersOK

-----------------------------------------------------------------------------
(* What a step needs of the invariant, and what it leaves alone.           *)

LEMMA Typing ==
    ASSUME FInv
    PROVE  /\ table \in [Entries -> Nat] /\ search \in 1 .. EntryCount /\ search \in Nat
           /\ cur \in Nat /\ left \in Nat /\ count \in Nat
           /\ top \in Entries /\ found \in Entries /\ next \in Entries /\ first \in Entries
           /\ top \in Nat /\ found \in Nat
BY Constants DEF FInv, Window, Locals, Entries

(* A step that changes nothing but the window.                             *)
LEMMA WindowOnlyKeeps ==
    ASSUME FInv, Window', UNCHANGED <<table, search, findVars, allocVars, freeVars, ghostVars, pc>>
    PROVE  FInv'
<1>1. /\ table' = table /\ search' = search /\ cur' = cur /\ left' = left /\ found' = found
      /\ top' = top /\ count' = count /\ next' = next /\ first' = first
      /\ chains' = chains /\ work' = work /\ torn' = torn /\ pc' = pc
  BY DEF findVars, allocVars, freeVars, ghostVars
<1>2. Taken' = Taken /\ Others' = Others /\ Finding' = Finding
  BY <1>1 DEF Taken, Others, Finding
<1>3. Locals' /\ OthersOK'
  BY <1>1 DEF FInv, Locals, OthersOK
<1>4. Search'
  BY <1>1, <1>2 DEF FInv, Search
<1>5. ASSUME NEW r \in Seq(Clusters), MineOK(r), Phase(r) PROVE MineOK(r)' /\ Phase(r)'
  <2>1. MineOK(r)'
    BY <1>1, <1>2, <1>5 DEF MineOK
  <2>2. (AtRest(r)' <=> AtRest(r)) /\ (Growing(r)' <=> Growing(r)) /\ (Freeing' <=> Freeing)
        /\ (Refind' <=> Refind)
    BY <1>1 DEF AtRest, Growing, Freeing, Refind
  <2>3. Phase(r)'
    BY <1>1, <1>2, <1>5, <2>2 DEF Phase
  <2> QED
    BY <2>1, <2>3
<1> QED
  BY <1>3, <1>4, <1>5 DEF FInv

LEMMA MoveWindowKeeps == ASSUME Slotted, FInv, MoveWindow PROVE FInv'
<1>1. PICK e \in Wanted : /\ ~Served(e) /\ fatcache(e \div EPS)
                          /\ UNCHANGED <<findVars, allocVars, freeVars, ghostVars, pc>>
  BY DEF MoveWindow
<1>2. e \in Nat
  <2>1. cur \in Nat /\ found \in Nat /\ top \in Nat /\ next \in Nat /\ first \in Nat
    BY Typing, Constants DEF Entries
  <2> QED
    BY <2>1 DEF Wanted
<1>3. Window' /\ table' = table /\ search' = search
  BY <1>1, <1>2, Moves DEF FInv
<1> QED
  BY <1>1, <1>3, WindowOnlyKeeps

(* A step that leaves the table and the chains alone.                      *)
LEMMA ChainsStayKeeps ==
    ASSUME FInv, Window', Locals', Search',
           table' = table, chains' = chains, torn' = torn, work' = work, top' = top,
           \A r \in Seq(Clusters) : MineOK(r) /\ Phase(r) => Phase(r)'
    PROVE  FInv'
<1>1. Taken' = Taken /\ Others' = Others
  BY DEF Taken, Others
<1>2. OthersOK'
  BY DEF FInv, OthersOK
<1>3. \A r \in Seq(Clusters) : MineOK(r) => MineOK(r)'
  BY <1>1 DEF MineOK
<1> QED
  BY <1>2, <1>3 DEF FInv

LEMMA CountClusters ==
    /\ IsFiniteSet(Clusters) /\ Cardinality(Clusters) = EntryCount - 2
    /\ IsFiniteSet(Taken) /\ Taken \subseteq Clusters
    /\ Cardinality(Taken) \in Nat /\ Cardinality(Taken) <= EntryCount - 2
<1>1. 2 \in Int /\ EntryCount - 1 \in Int /\ 2 <= EntryCount - 1 /\ EntryCount - 1 - 2 + 1 = EntryCount - 2
  BY Constants
<1>2. IsFiniteSet(Clusters) /\ Cardinality(Clusters) = EntryCount - 2
  <2>1. /\ IsFiniteSet(2 .. EntryCount - 1)
        /\ Cardinality(2 .. EntryCount - 1) =
              IF 2 > EntryCount - 1 THEN 0 ELSE EntryCount - 1 - 2 + 1
    BY <1>1, FS_Interval
  <2>2. ~(2 > EntryCount - 1)
    BY Constants
  <2> QED
    BY <1>1, <2>1, <2>2 DEF Clusters
<1>3. Taken \subseteq Clusters
  BY DEF Taken
<1>4. IsFiniteSet(Taken) /\ Cardinality(Taken) <= Cardinality(Clusters)
  BY <1>2, <1>3, FS_Subset
<1>5. Cardinality(Taken) \in Nat
  BY <1>4, FS_CardinalityType
<1> QED
  BY <1>2, <1>3, <1>4, <1>5

(* While a call looks for a cluster, two are free ahead of it.              *)
LEMMA RoomAhead ==
    ASSUME Roomy, FInv, Finding
    PROVE  /\ Cardinality(Taken) < EntryCount - 3
           /\ \A x : \E f \in Clusters : f \notin Taken /\ f # x /\ f >= cur /\ f >= search
<1>1. /\ MaxUsed \in Nat /\ MaxCount \in Nat /\ EntryCount \in Nat /\ EntryCount >= 4
      /\ 4 * (MaxUsed + 1) < EntryCount /\ MaxUsed + MaxCount < EntryCount - 2
      /\ count \in Nat /\ Cardinality(Taken) \in Nat
  BY Constants, Typing, CountClusters DEF Roomy
<1>2. \/ Cardinality(Taken) <= MaxUsed
      \/ count > 0 /\ Cardinality(Taken) + count <= MaxUsed + MaxCount
  BY DEF FInv, Search, Finding
<1>3. Cardinality(Taken) < EntryCount - 3
  BY <1>1, <1>2
<1>4. ASSUME NEW x
      PROVE  \E f \in Clusters : f \notin Taken /\ f # x /\ f >= cur /\ f >= search
  <2>1. IsFiniteSet(Taken \cup {x}) /\ Cardinality(Taken \cup {x}) <= Cardinality(Taken) + 1
    <3>1. /\ IsFiniteSet(Taken \cup {x})
          /\ Cardinality(Taken \cup {x}) = IF x \in Taken THEN Cardinality(Taken)
                                                        ELSE Cardinality(Taken) + 1
      BY CountClusters, FS_AddElement
    <3> QED
      BY <1>1, <3>1
  <2>2. ~(Clusters \subseteq Taken \cup {x})
    <3>1. Clusters \subseteq Taken \cup {x} => Cardinality(Clusters) <= Cardinality(Taken \cup {x})
      BY <2>1, FS_Subset
    <3>2. Cardinality(Taken \cup {x}) \in Nat
      BY <2>1, FS_CardinalityType
    <3> QED
      BY <1>1, <1>3, <2>1, <3>1, <3>2, CountClusters
  <2>3. PICK f \in Clusters : f \notin Taken /\ f # x
    BY <2>2
  <2>4. /\ search < EntryCount /\ cur >= search /\ found = 0
        /\ \A c \in Clusters : c < search => c \in Taken \cup {found}
        /\ \A e \in Entries : search <= e /\ e < cur => table[e] # FREE
    BY DEF FInv, Search, Phase, Finding
  <2>5. f \in Entries /\ f \in Nat /\ f # 0 /\ search \in Nat /\ cur \in Nat
    BY Typing, ClustersIn
  <2>6. table[f] = FREE
    BY <2>3 DEF Taken
  <2>7. f >= search
    BY <2>3, <2>4, <2>5
  <2>8. f >= cur
    BY <2>4, <2>5, <2>6, <2>7
  <2> QED
    BY <2>3, <2>7, <2>8
<1> QED
  BY <1>3, <1>4

(* A search that fails started in the first quarter of the table and has   *)
(* found it full up to A.  If a call had just begun, nothing else is.      *)
LEMMA FailedSearch ==
    ASSUME Roomy, FInv, Finding, left = 0
    PROVE  LET A == EntryCount - 3 * search - 1 IN
           /\ 4 * search <= EntryCount
           /\ A \in Nat /\ A + 1 >= search /\ cur = A + 1
           /\ \A c \in Clusters : c <= A => c \in Taken
           /\ Cardinality(Taken) <= MaxUsed =>
                 4 * A < EntryCount /\ \A c \in Clusters : c \in Taken => c <= A
<1> DEFINE A == EntryCount - 3 * search - 1
<1>1. /\ EntryCount \in Nat /\ search \in Nat /\ search >= 1 /\ search < EntryCount /\ cur \in Nat
      /\ UINT \in Nat /\ UINT > 4 * EntryCount /\ MaxUsed \in Nat /\ left \in Nat
      /\ cur >= search /\ left + cur = EntriesLeft(search) + search /\ EntryCount >= 4
      /\ 4 * (MaxUsed + 1) < EntryCount
  BY Constants, Typing DEF FInv, Search, Roomy
<1>2. cur = EntriesLeft(search) + search /\ EntriesLeft(search) \in Nat
  BY <1>1, EntriesLeftIs
<1>3. 4 * search <= EntryCount
  <2>1. SUFFICES ASSUME 4 * search > EntryCount PROVE FALSE
    BY <1>1
  <2>2. EntriesLeft(search) = EntryCount - 4 * search + UINT
    BY <1>1, <2>1, EntriesLeftIs
  <2>3. cur > EntryCount
    BY <1>1, <1>2, <2>2
  <2>4. \E f \in Clusters : f >= cur
    BY RoomAhead, Zenon
  <2> QED
    BY <1>1, <2>3, <2>4, ClustersIn
<1>4. EntriesLeft(search) = EntryCount - 4 * search
  BY <1>1, <1>3, EntriesLeftIs
<1>5. A \in Nat /\ A + 1 >= search /\ cur = A + 1 /\ A < EntryCount
  BY <1>1, <1>2, <1>3, <1>4
<1>6. ASSUME NEW c \in Clusters, c <= A PROVE c \in Taken
  <2>1. c \in Nat /\ c \in Entries /\ c # 0 /\ found = 0
    BY ClustersIn DEF FInv, Phase, Finding
  <2>2. CASE c < search
    BY <1>1, <2>1, <2>2 DEF FInv, Search
  <2>3. CASE c >= search
    <3>1. search <= c /\ c < cur
      BY <1>1, <1>5, <1>6, <2>1, <2>3
    <3>2. table[c] # FREE
      BY <2>1, <3>1 DEF FInv, Search
    <3> QED
      BY <3>2 DEF Taken
  <2> QED
    BY <1>1, <2>1, <2>2, <2>3
<1>7. ASSUME Cardinality(Taken) <= MaxUsed
      PROVE  4 * A < EntryCount /\ \A c \in Clusters : c \in Taken => c <= A
  <2> HIDE DEF A
  <2>1. 2 .. A \subseteq Taken
    <3>1. \A c \in 2 .. A : c \in Clusters
      BY <1>1, <1>5 DEF Clusters
    <3> QED
      BY <1>6, <3>1
  <2>2. /\ IsFiniteSet(2 .. A)
        /\ Cardinality(2 .. A) = IF 2 > A THEN 0 ELSE A - 2 + 1
    BY <1>5, FS_Interval
  <2>3. Cardinality(2 .. A) <= Cardinality(Taken)
        /\ (Cardinality(2 .. A) = Cardinality(Taken) => 2 .. A = Taken)
    BY <2>1, CountClusters, FS_Subset
  <2>4. Cardinality(Taken) \in Nat
    BY CountClusters
  <2>5. A - 1 <= Cardinality(2 .. A) /\ Cardinality(2 .. A) \in Nat
    BY <1>5, <2>2
  <2>6. A - 1 <= MaxUsed
    BY <1>1, <1>5, <1>7, <2>3, <2>4, <2>5
  <2>7. 4 * A < EntryCount
    BY <1>1, <1>5, <2>6
  <2>8. MaxUsed <= A - 1
    BY <1>1, <1>3, <1>5, <2>7 DEF A
  <2>9. Cardinality(2 .. A) = Cardinality(Taken)
    BY <1>1, <1>5, <1>7, <2>3, <2>4, <2>5, <2>8
  <2>10. \A c \in Taken : c \in 2 .. A
    BY <2>3, <2>9
  <2> QED
    BY <2>7, <2>10
<1> QED
  BY <1>3, <1>5, <1>6, <1>7

-----------------------------------------------------------------------------
(* The steps of a search.                                                  *)

LEMMA WindowStays ==
    ASSUME Window, UNCHANGED <<disk, buf, win, nsec, dirty, table>>
    PROVE  Window'
<1>1. nsec' = SectorsFrom(win)' /\ FirstEntry' = FirstEntry
      /\ \A e \in Entries : Held(e)' <=> Held(e)
  BY DEF Window, SectorsFrom, Held, FirstEntry
<1> QED
  BY <1>1 DEF Window

(* The next entry is not a free one.                                       *)
LEMMA FindStepMisses ==
    ASSUME Slotted, Roomy, FInv, FindStep, cur \in Entries, table[cur] # FREE,
           fatclustervalue(cur) = table[cur]
    PROVE  FInv'
<1>1. /\ Finding /\ left > 0 /\ left' = left - 1 /\ cur' = cur + 1
      /\ search' = search /\ found' = found /\ pc' = pc
      /\ UNCHANGED <<disk, buf, win, nsec, dirty, table>>
      /\ top' = top /\ count' = count /\ next' = next /\ first' = first
      /\ chains' = chains /\ work' = work /\ torn' = torn
  BY DEF FindStep, allocVars, freeVars, ghostVars
<1>2. cur \in Nat /\ left \in Nat /\ cur + 1 \in Nat /\ left - 1 \in Nat /\ search \in Nat
  BY <1>1, Typing
<1>3. Window' /\ Locals'
  BY <1>1, <1>2, WindowStays DEF FInv, Locals
<1>4. Search'
  <2>1. Taken' = Taken /\ Finding' = Finding /\ table' = table
    BY <1>1 DEF Taken, Finding
  <2>2. /\ search < EntryCount /\ cur >= search /\ left + cur = EntriesLeft(search) + search
        /\ \A e \in Entries : search <= e /\ e < cur => table[e] # FREE
    BY <1>1 DEF FInv, Search
  <2>3. /\ cur' >= search /\ left' + cur' = left + cur
    BY <1>1, <1>2, <2>2
  <2>4. \A e \in Entries : search <= e /\ e < cur' => table[e] # FREE
    BY <1>1, <1>2, <2>2, Constants DEF Entries
  <2>5. EntriesLeft(search') = EntriesLeft(search)
    BY <1>1
  <2>6. Finding' => /\ search' < EntryCount /\ cur' >= search'
                    /\ left' + cur' = EntriesLeft(search') + search'
                    /\ \A e \in Entries : search' <= e /\ e < cur' => table'[e] # FREE
    BY <1>1, <2>1, <2>2, <2>3, <2>4, <2>5
  <2> QED
    BY <1>1, <2>1, <2>6 DEF FInv, Search
<1>5. ASSUME NEW r \in Seq(Clusters), Phase(r) PROVE Phase(r)'
  BY <1>1, <1>5 DEF Phase, Finding, AtRest, Growing, Refind, Taken
<1> QED
  BY <1>1, <1>3, <1>4, <1>5, ChainsStayKeeps

(* The next entry is free.                                                 *)
LEMMA FindStepHits ==
    ASSUME Slotted, Roomy, FInv, FindStep, cur \in Entries, table[cur] = FREE,
           fatclustervalue(cur) = table[cur]
    PROVE  FInv'
<1>1. /\ Finding /\ left > 0 /\ left' = 0 /\ cur' = 0
      /\ search' = cur + 1 /\ found' = cur /\ pc' = AfterFind
      /\ UNCHANGED <<disk, buf, win, nsec, dirty, table>>
      /\ top' = top /\ count' = count /\ next' = next /\ first' = first
      /\ chains' = chains /\ work' = work /\ torn' = torn
  BY DEF FindStep, allocVars, freeVars, ghostVars
<1>2. cur \in Nat /\ search \in Nat /\ search >= 1 /\ EntryCount \in Nat /\ cur < EntryCount
  BY Typing, Constants DEF Entries
<1>3. /\ search < EntryCount /\ cur >= search /\ found = 0 /\ table[1] # FREE
      /\ \A c \in Clusters : c < search => c \in Taken \cup {found}
      /\ \A e \in Entries : search <= e /\ e < cur => table[e] # FREE
  BY <1>1 DEF FInv, Search, Phase, Finding
<1>4. cur # 1 /\ cur # 0 /\ cur \in Clusters
  BY <1>2, <1>3, Constants DEF Clusters
<1>5. PICK f \in Clusters : f \notin Taken /\ f # cur /\ f >= cur
  BY <1>1, RoomAhead, Zenon
<1>6. cur + 1 < EntryCount
  BY <1>2, <1>5, ClustersIn
<1>7. \A c \in Clusters : c < cur => c \in Taken
  <2>1. SUFFICES ASSUME NEW c \in Clusters, c < cur PROVE c \in Taken
    OBVIOUS
  <2>2. c \in Nat /\ c \in Entries /\ c # 0
    BY ClustersIn
  <2>3. c < search \/ search <= c
    BY <1>2, <2>2
  <2>4. table[c] # FREE => c \in Taken
    BY DEF Taken
  <2> QED
    BY <1>3, <2>1, <2>2, <2>3, <2>4
<1>8. cur # top
  <2>1. CASE top = 0
    BY <1>4, <2>1
  <2>2. CASE top # 0
    <3>1. table[top] # FREE \/ search = top + 1
      BY <1>1, <2>2 DEF FInv, Phase, Finding, AtRest
    <3> QED
      BY <1>2, <1>3, <3>1, Typing
  <2> QED
    BY <2>1, <2>2
<1>9. Window' /\ Locals'
  <2>1. cur + 1 \in 1 .. EntryCount
    BY <1>2, <1>6
  <2>2. 0 \in Nat
    OBVIOUS
  <2> QED
    BY <1>1, <2>1, <2>2, WindowStays DEF FInv, Locals
<1>10. Taken' = Taken /\ table' = table
  BY <1>1 DEF Taken
<1>11. pc' \in {"create", "link"} /\ (pc' = "link" <=> pc = "findForGrow")
  BY <1>1 DEF AfterFind, Finding
<1>12. Search'
  <2>1. \A c \in Clusters : c < search' => c \in Taken' \cup {found'}
    <3>1. SUFFICES ASSUME NEW c \in Clusters, c < cur + 1 PROVE c \in Taken \/ c = cur
      BY <1>1, <1>10
    <3>2. c < cur \/ c = cur
      BY <1>2, <3>1, ClustersIn
    <3> QED
      BY <1>7, <3>2
  <2>2. search' < EntryCount
    BY <1>1, <1>6
  <2>3. search' = found' + 1 /\ found' # 1 /\ found' # top' /\ table'[found'] = FREE /\ found' # 0
    BY <1>1, <1>4, <1>8
  <2>4. pc' \in {"findForGrow", "link"} =>
           count' > 0 /\ Cardinality(Taken') + count' <= MaxUsed + MaxCount
    BY <1>1, <1>10, <1>11 DEF FInv, Search
  <2>5. ~Finding'
    BY <1>11 DEF Finding
  <2> QED
    BY <1>3, <1>10, <1>11, <2>1, <2>2, <2>3, <2>4, <2>5 DEF Search
<1>13. ASSUME NEW r \in Seq(Clusters), Phase(r) PROVE Phase(r)'
  <2>1. CASE pc = "findForCreate"
    BY <1>1, <1>13, <2>1 DEF Phase, AtRest, AfterFind
  <2>2. CASE pc = "findForGrow"
    <3>1. Growing(r)'
      BY <1>1, <1>13, <2>2 DEF Phase, Growing
    <3>2. CASE top = 0
      <4>1. Refind
        BY <1>13, <2>2, <3>2 DEF Phase
      <4>2. search + 1 \in Entries /\ search \in Entries /\ table[search + 1] = FREE
            /\ table[search] # FREE
        BY <1>2, <1>3, <4>1, ClustersIn DEF Refind, Entries
      <4>3. cur # search /\ ~(search + 1 < cur)
        BY <1>2, <1>3, <4>2
      <4>4. cur = search + 1
        BY <1>2, <1>3, <4>3
      <4>5. work # <<>> => table[LastOf(work)] = cur
        BY <4>1, <4>4 DEF Refind
      <4> QED
        BY <1>1, <1>4, <1>11, <2>2, <3>1, <3>2, <4>5 DEF Phase
    <3>3. CASE top # 0
      BY <1>1, <1>11, <1>13, <2>2, <3>1, <3>3 DEF Phase
    <3> QED
      BY <3>2, <3>3
  <2> QED
    BY <1>1, <2>1, <2>2 DEF Finding
<1> QED
  BY <1>1, <1>9, <1>10, <1>12, <1>13, ChainsStayKeeps

LEMMA FindStepKeeps == ASSUME Slotted, Roomy, FInv, FindStep PROVE FInv'
<1>1. Finding /\ Served(cur)
  BY DEF FindStep
<1>2. PICK f \in Clusters : f >= cur
  BY <1>1, RoomAhead, Zenon
<1>3. cur \in Entries
  BY <1>2, ClustersIn, Typing, Constants DEF Entries
<1>4. fatclustervalue(cur) = table[cur]
  BY <1>1, <1>3, Reads DEF FInv
<1> QED
  BY <1>3, <1>4, FindStepMisses, FindStepHits

(* No free cluster is among those the search may look at.                  *)
LEMMA FindFailKeeps == ASSUME Slotted, Roomy, FInv, FindFail PROVE FInv'
<1>1. /\ Finding /\ left = 0 /\ left' = left /\ cur' = 0
      /\ search' = EntryCount /\ found' = 0 /\ pc' = AfterFind
      /\ UNCHANGED <<disk, buf, win, nsec, dirty, table>>
      /\ top' = top /\ count' = count /\ next' = next /\ first' = first
      /\ chains' = chains /\ work' = work /\ torn' = torn
  BY DEF FindFail, allocVars, freeVars, ghostVars
<1> DEFINE A == EntryCount - 3 * search - 1
<1>2. /\ 4 * search <= EntryCount
      /\ A \in Nat /\ A + 1 >= search
      /\ \A c \in Clusters : c <= A => c \in Taken
      /\ Cardinality(Taken) <= MaxUsed =>
            4 * A < EntryCount /\ \A c \in Clusters : c \in Taken => c <= A
  BY <1>1, FailedSearch
<1>3. /\ search \in Nat /\ EntryCount \in Nat /\ EntryCount >= 4 /\ 0 \in Entries /\ 0 \in Nat
      /\ top \in Nat /\ found = 0
  BY <1>1, Typing, Constants DEF Entries, FInv, Phase, Finding
<1>4. Window' /\ Locals'
  <2>1. EntryCount \in 1 .. EntryCount
    BY <1>3
  <2> QED
    BY <1>1, <1>3, <2>1, WindowStays DEF FInv, Locals
<1>5. Taken' = Taken /\ table' = table
  BY <1>1 DEF Taken
<1>6. pc' \in {"create", "link"} /\ (pc' = "link" <=> pc = "findForGrow")
      /\ (pc' = "create" <=> pc = "findForCreate")
  BY <1>1 DEF AfterFind, Finding
<1>7. ASSUME pc = "findForCreate"
      PROVE  \A c \in Clusters, d \in Taken : c < d => c \in Taken
  <2>1. Cardinality(Taken) <= MaxUsed
    BY <1>7 DEF FInv, Search
  <2> HIDE DEF A
  <2>2. SUFFICES ASSUME NEW c \in Clusters, NEW d \in Taken, c < d PROVE c \in Taken
    OBVIOUS
  <2>3. d \in Clusters /\ d <= A
    BY <1>2, <2>1 DEF Taken
  <2>4. c <= A
    BY <1>2, <2>2, <2>3, ClustersIn
  <2> QED
    BY <1>2, <2>4
<1>8. ASSUME pc = "findForGrow"
      PROVE  top # 0 /\ 4 * (top - 1) + 2 <= EntryCount /\ \A c \in Clusters : c < top => c \in Taken
  <2>1. top # 0
    <3>1. SUFFICES ASSUME top = 0 PROVE FALSE
      OBVIOUS
    <3>2. search + 1 \in Clusters /\ table[search + 1] = FREE /\ 4 * search + 2 <= EntryCount
      BY <1>8, <3>1 DEF FInv, Phase, Refind
    <3>3. search + 1 <= A
      BY <1>3, <3>2
    <3>4. search + 1 \in Taken
      BY <1>2, <3>2, <3>3
    <3> QED
      BY <3>1, <3>2, <3>4, <1>3 DEF Taken
  <2>2. /\ work # <<>> /\ LastOf(work) = top
        /\ Cardinality(Taken) <= MaxUsed \/ search = top + 1
    BY <1>8, <2>1 DEF FInv, Phase
  <2>3. top \in Clusters /\ top \in Taken
    <3>1. work \in Seq(Clusters)
      BY DEF FInv, MineOK, Path
    <3> QED
      BY <2>2, <3>1, ElsIn DEF Taken
  <2> HIDE DEF A
  <2>4. CASE Cardinality(Taken) <= MaxUsed
    <3>1. top <= A /\ 4 * A < EntryCount
      BY <1>2, <2>3, <2>4
    <3>2. 4 * (top - 1) + 2 <= EntryCount
      BY <1>2, <1>3, <3>1
    <3>3. \A c \in Clusters : c < top => c <= A
      BY <1>2, <1>3, <3>1, ClustersIn
    <3> QED
      BY <1>2, <2>1, <3>2, <3>3
  <2>5. CASE search = top + 1
    <3>1. 4 * (top - 1) + 2 <= EntryCount
      BY <1>2, <1>3, <2>5
    <3>2. \A c \in Clusters : c < search => c \in Taken \cup {found}
      BY <1>1 DEF FInv, Search
    <3>3. \A c \in Clusters : c < top => c < search /\ c # 0
      BY <1>3, <2>5, ClustersIn
    <3> QED
      BY <1>3, <2>1, <3>1, <3>2, <3>3
  <2> QED
    BY <2>2, <2>4, <2>5
<1>9. Search'
  <2>1. IF pc' = "link"
        THEN /\ top' # 0 /\ 4 * (top' - 1) + 2 <= EntryCount
             /\ \A c \in Clusters : c < top' => c \in Taken'
        ELSE \A c \in Clusters, d \in Taken' : c < d => c \in Taken'
    BY <1>1, <1>5, <1>6, <1>7, <1>8
  <2>2. pc' \in {"findForGrow", "link"} =>
           count' > 0 /\ Cardinality(Taken') + count' <= MaxUsed + MaxCount
    BY <1>1, <1>5, <1>6 DEF FInv, Search
  <2>3. ~Finding'
    BY <1>6 DEF Finding
  <2>4. ~(search' < EntryCount) /\ table'[1] # FREE
    BY <1>1, <1>3, <1>5 DEF FInv, Search
  <2> QED
    BY <1>1, <1>6, <2>1, <2>2, <2>3, <2>4 DEF Search
<1>10. ASSUME NEW r \in Seq(Clusters), Phase(r) PROVE Phase(r)'
  <2>1. CASE pc = "findForCreate"
    BY <1>1, <1>6, <1>10, <2>1 DEF Phase, AtRest
  <2>2. CASE pc = "findForGrow"
    BY <1>1, <1>6, <1>8, <1>10, <2>2 DEF Phase, Growing
  <2> QED
    BY <1>1, <2>1, <2>2 DEF Finding
<1> QED
  BY <1>1, <1>4, <1>5, <1>9, <1>10, ChainsStayKeeps

-----------------------------------------------------------------------------
(* The beginnings of the calls.                                            *)

(* With no call at work, the clusters in use are those of the chains.      *)
LEMMA UsedIsTaken ==
    ASSUME FInv, pc = "idle"
    PROVE  /\ Used = Taken /\ top = 0 /\ found = 0 /\ next = 0 /\ first = 0 /\ work = <<>>
           /\ Taken = Others
<1>1. top = 0 /\ found = 0 /\ next = 0 /\ first = 0 /\ work = <<>>
  BY DEF FInv, Phase, AtRest
<1>2. Used = Taken
  BY <1>1, ClustersIn DEF Used, Taken
<1>3. Taken = Others \cup Els(<<>>)
  BY <1>1 DEF FInv, MineOK, Phase, AtRest
<1>4. Els(<<>>) = {}
  BY DEF Els
<1> QED
  BY <1>1, <1>2, <1>3, <1>4

LEMMA CreateKeeps == ASSUME FInv, Create PROVE FInv'
<1>1. /\ pc = "idle" /\ Cardinality(Used) <= MaxUsed /\ search < EntryCount
      /\ pc' = "findForCreate" /\ cur' = search /\ left' = EntriesLeft(search) /\ found' = 0
      /\ UNCHANGED <<disk, buf, win, nsec, dirty, table>> /\ search' = search
      /\ top' = top /\ count' = count /\ next' = next /\ first' = first
      /\ chains' = chains /\ work' = work /\ torn' = torn
  BY DEF Create, StartFind, cacheVars, allocVars, freeVars, ghostVars
<1>2. search \in Nat /\ search \in 1 .. EntryCount /\ EntriesLeft(search) \in Nat /\ 0 \in Entries
  <2>1. search \in 1 .. EntryCount /\ search \in Nat
    BY Typing
  <2>2. 0 \in Entries
    BY Constants DEF Entries
  <2> QED
    BY <2>1, <2>2, EntriesLeftIs
<1>3. Used = Taken /\ found = 0 /\ Taken' = Taken
  BY <1>1, UsedIsTaken DEF Taken
<1>4. Window' /\ Locals'
  BY <1>1, <1>2, WindowStays DEF FInv, Locals
<1>5. Search'
  <2>1. \A e \in Entries : ~(search' <= e /\ e < cur')
    BY <1>1, <1>2, Constants DEF Entries
  <2>2. cur' >= search' /\ left' + cur' = EntriesLeft(search') + search'
    BY <1>1, <1>2
  <2> QED
    BY <1>1, <1>3, <2>1, <2>2 DEF FInv, Search
<1>6. ASSUME NEW r \in Seq(Clusters), Phase(r) PROVE Phase(r)'
  BY <1>1, <1>6 DEF Phase, AtRest
<1> QED
  BY <1>1, <1>4, <1>5, <1>6, ChainsStayKeeps

LEMMA CreateFailsKeeps == ASSUME FInv, CreateFails PROVE FInv'
<1>1. /\ pc = "create" /\ found = 0 /\ pc' = "idle"
      /\ UNCHANGED <<disk, buf, win, nsec, dirty, table>> /\ search' = search
      /\ cur' = cur /\ left' = left /\ found' = found
      /\ top' = top /\ count' = count /\ next' = next /\ first' = first
      /\ chains' = chains /\ work' = work /\ torn' = torn
  BY DEF CreateFails, cacheVars, findVars, allocVars, freeVars, ghostVars
<1>2. Window' /\ Locals' /\ Taken' = Taken
  BY <1>1, WindowStays DEF FInv, Locals, Taken
<1>3. Search'
  BY <1>1, <1>2 DEF FInv, Search, Finding
<1>4. ASSUME NEW r \in Seq(Clusters), Phase(r) PROVE Phase(r)'
  BY <1>1, <1>4 DEF Phase, AtRest
<1> QED
  BY <1>1, <1>2, <1>3, <1>4, ChainsStayKeeps

LEMMA EmptyPath ==
    /\ \A t : Path(t, <<>>)
    /\ Els(<<>>) = {} /\ <<>> \in Seq(Clusters)
<1>1. <<>> \in Seq(Clusters) /\ Len(<<>>) = 0 /\ 1 .. 0 = {} /\ 1 .. 0 - 1 = {}
  OBVIOUS
<1> QED
  BY <1>1 DEF Path, Els

LEMMA Marks == FREE # END /\ FREE = 0 /\ FREE \in Nat /\ END \in Nat
BY Constants, SMT DEF FREE, END

LEMMA GrowKeeps ==
    ASSUME FInv, NEW ch \in chains, NEW n \in 1 .. MaxCount, Grow(ch, n)
    PROVE  FInv'
<1>1. /\ pc = "idle" /\ Cardinality(Used) <= MaxUsed /\ search < EntryCount
      /\ top' = LastOf(ch) /\ count' = n
      /\ pc' = "findForGrow" /\ cur' = search /\ left' = EntriesLeft(search) /\ found' = 0
      /\ chains' = chains \ {ch} /\ work' = ch /\ torn' = torn
      /\ UNCHANGED <<disk, buf, win, nsec, dirty, table>> /\ search' = search
      /\ next' = next /\ first' = first
  BY DEF Grow, StartFind, cacheVars, freeVars, LastOf
<1>2. search \in Nat /\ search \in 1 .. EntryCount /\ EntriesLeft(search) \in Nat /\ 0 \in Entries
  <2>1. search \in 1 .. EntryCount /\ search \in Nat
    BY Typing
  <2>2. 0 \in Entries
    BY Constants DEF Entries
  <2> QED
    BY <2>1, <2>2, EntriesLeftIs
<1>3. /\ Used = Taken /\ found = 0 /\ top = 0 /\ next = 0 /\ first = 0 /\ Taken = Others
  BY <1>1, UsedIsTaken
<1>4. /\ OthersOK' /\ Path(table, ch) /\ ch # <<>> /\ table[LastOf(ch)] = END
      /\ Others = Others' \cup Els(ch) /\ Others' \cap Els(ch) = {}
  BY <1>1, OthersLose DEF FInv
<1>5. top' \in Clusters /\ top' \in Entries /\ top' # 0 /\ table[top'] # FREE
  <2>1. ch \in Seq(Clusters)
    BY <1>4 DEF Path
  <2> QED
    BY <1>1, <1>4, <2>1, ElsIn, ClustersIn, Marks
<1>6. Taken' = Taken
  <2>1. \A c \in Clusters : c # top
    BY <1>3, ClustersIn
  <2> QED
    BY <1>1, <1>5, <2>1 DEF Taken
<1>7. n \in Nat /\ n > 0 /\ n <= MaxCount /\ MaxCount \in Nat /\ MaxUsed \in Nat
      /\ Cardinality(Taken) \in Nat
  BY Constants, CountClusters
<1>8. Window' /\ Locals'
  BY <1>1, <1>2, <1>5, <1>7, WindowStays DEF FInv, Locals
<1>9. Search'
  <2>1. \A e \in Entries : ~(search' <= e /\ e < cur')
    BY <1>1, <1>2, Constants DEF Entries
  <2>2. cur' >= search' /\ left' + cur' = EntriesLeft(search') + search'
    BY <1>1, <1>2
  <2>3. count' > 0 /\ Cardinality(Taken') + count' <= MaxUsed + MaxCount
    BY <1>1, <1>3, <1>6, <1>7
  <2> QED
    BY <1>1, <1>3, <1>6, <2>1, <2>2, <2>3 DEF FInv, Search
<1>10. MineOK(<<>>)'
  BY <1>1, <1>3, <1>4, <1>6, EmptyPath DEF MineOK
<1>11. Phase(<<>>)'
  <2>1. Cardinality(Taken') <= MaxUsed /\ table'[top'] # FREE
    BY <1>1, <1>3, <1>5, <1>6
  <2> QED
    BY <1>1, <1>3, <1>4, <1>5, <2>1 DEF Phase, Growing
<1> QED
  BY <1>4, <1>8, <1>9, <1>10, <1>11, EmptyPath DEF FInv

LEMMA ShrinkKeeps ==
    ASSUME FInv, NEW ch \in chains, NEW k \in 1 .. Len(ch), Shrink(ch, k)
    PROVE  FInv'
<1> DEFINE r == SubSeq(ch, k + 1, Len(ch))
<1>1. /\ pc = "idle" /\ first' = ch[k] /\ pc' = "shrink"
      /\ chains' = chains \ {ch} /\ work' = SubSeq(ch, 1, k) /\ torn' = torn
      /\ UNCHANGED <<disk, buf, win, nsec, dirty, table>> /\ search' = search
      /\ cur' = cur /\ left' = left /\ found' = found /\ top' = top /\ count' = count
      /\ next' = next
  BY DEF Shrink, cacheVars, findVars, allocVars
<1>2. /\ found = 0 /\ top = 0 /\ next = 0 /\ Taken = Others
  BY <1>1, UsedIsTaken
<1>3. /\ OthersOK' /\ Path(table, ch) /\ ch # <<>> /\ table[LastOf(ch)] = END
      /\ Others = Others' \cup Els(ch) /\ Others' \cap Els(ch) = {}
  BY <1>1, OthersLose DEF FInv
<1>4. ch \in Seq(Clusters) /\ Len(ch) \in Nat /\ k \in 0 .. Len(ch) /\ k > 0 /\ k <= Len(ch)
  <2>1. ch \in Seq(Clusters) /\ Len(ch) \in Nat
    BY <1>3 DEF Path
  <2> QED
    BY <2>1
<1>5. /\ Path(table, work') /\ Path(table, r)
      /\ Els(ch) = Els(work') \cup Els(r) /\ Els(work') \cap Els(r) = {}
      /\ work' # <<>> /\ LastOf(work') = ch[k]
      /\ k < Len(ch) => r # <<>> /\ r[1] = ch[k + 1] /\ LastOf(r) = LastOf(ch)
      /\ k = Len(ch) => r = <<>>
  <2>1. Cut(table, ch, k, work', r)
    BY <1>1, <1>3, <1>4, PathCut
  <2> HIDE DEF r
  <2> QED
    BY <1>4, <2>1 DEF Cut
<1>6. r \in Seq(Clusters)
  BY <1>5 DEF Path
<1> HIDE DEF r
<1>7. Taken' = Taken
  BY <1>1 DEF Taken
<1>8. ch[k] \in Entries
  BY <1>4, ClustersIn
<1>9. Window' /\ Locals'
  BY <1>1, <1>8, WindowStays DEF FInv, Locals
<1>10. Search'
  BY <1>1, <1>7 DEF FInv, Search, Finding
<1>11. MineOK(r)'
  BY <1>1, <1>2, <1>3, <1>5, <1>7 DEF MineOK
<1>12. IF r = <<>> THEN table[ch[k]] = END ELSE table[ch[k]] = r[1] /\ table[LastOf(r)] = END
  <2>1. CASE k = Len(ch)
    BY <1>3, <1>5, <2>1 DEF LastOf
  <2>2. CASE k < Len(ch)
    <3>1. k \in 1 .. Len(ch) - 1
      BY <1>4, <2>2
    <3>2. table[ch[k]] = ch[k + 1]
      BY <1>3, <3>1 DEF Path
    <3> QED
      BY <1>3, <1>5, <2>2, <3>2
  <2> QED
    BY <1>4, <2>1, <2>2
<1>13. Phase(r)'
  BY <1>1, <1>2, <1>5, <1>12 DEF Phase, Freeing
<1> QED
  BY <1>3, <1>6, <1>9, <1>10, <1>11, <1>13 DEF FInv

-----------------------------------------------------------------------------
(* The steps that change the table.                                        *)

(* A new value in a path's last entry.                                     *)
LEMMA PathRelink ==
    ASSUME NEW t \in [Entries -> Nat], NEW x, Path(t, x), x # <<>>, NEW v,
           NEW u, u = [t EXCEPT ![LastOf(x)] = v]
    PROVE  Path(u, x) /\ u[LastOf(x)] = v
<1>1. /\ x \in Seq(Clusters) /\ Len(x) \in Nat
      /\ \A j, k \in 1 .. Len(x) : x[j] = x[k] => j = k
      /\ \A k \in 1 .. Len(x) - 1 : t[x[k]] = x[k + 1]
  BY DEF Path
<1>2. LastOf(x) \in Entries /\ Len(x) > 0
  BY <1>1, ElsIn, ClustersIn
<1>3. ASSUME NEW k \in 1 .. Len(x) - 1 PROVE u[x[k]] = x[k + 1]
  <2>1. k \in 1 .. Len(x) /\ Len(x) \in 1 .. Len(x) /\ k # Len(x)
    BY <1>1, <1>2
  <2>2. x[k] # LastOf(x)
    BY <1>1, <2>1 DEF LastOf
  <2>3. u[x[k]] = t[x[k]]
    BY <2>2
  <2> QED
    BY <1>1, <2>3
<1> QED
  BY <1>1, <1>2, <1>3 DEF Path

(* What has been found is free and nobody's.                               *)
LEMMA FoundIs ==
    ASSUME FInv, pc \in {"create", "link"}, found # 0
    PROVE  /\ found \in Clusters /\ found # 1 /\ found # top /\ found \notin Taken
           /\ table[found] = FREE /\ search = found + 1 /\ search < EntryCount
<1>1. /\ search = found + 1 /\ found # 1 /\ found # top /\ table[found] = FREE
      /\ search < EntryCount
  <2>1. search < EntryCount
    BY DEF FInv, Search
  <2> QED
    BY <2>1 DEF FInv, Search
<1>2. found \in Clusters
  <2>1. found \in 0 .. EntryCount - 1
    BY Typing DEF Entries
  <2>2. EntryCount \in Nat
    BY Constants
  <2> QED
    BY <1>1, <2>1, <2>2 DEF Clusters
<1> QED
  BY <1>1, <1>2 DEF Taken

LEMMA CreateEndKeeps == ASSUME Slotted, FInv, CreateEnd PROVE FInv'
<1>1. /\ pc = "create" /\ found # 0 /\ Served(found) /\ fatsetcluster(found, END)
      /\ pc' = "commit" /\ work' = <<found>>
      /\ cur' = cur /\ left' = left /\ found' = found /\ top' = top /\ count' = count
      /\ next' = next /\ first' = first /\ chains' = chains /\ torn' = torn
  BY DEF CreateEnd, findVars, allocVars, freeVars
<1>2. /\ found \in Clusters /\ found # 1 /\ found \notin Taken
      /\ search = found + 1 /\ search < EntryCount
  BY <1>1, FoundIs
<1>3. Window' /\ table' = [table EXCEPT ![found] = END] /\ search' = search
  BY <1>1, <1>2, Sets, ClustersIn, Marks DEF FInv
<1>4. top = 0 /\ next = 0 /\ first = 0 /\ work = <<>> /\ Taken = Others
  <2>1. top = 0 /\ next = 0 /\ first = 0 /\ work = <<>>
    BY <1>1 DEF FInv, Phase, AtRest
  <2>2. Taken = Others \cup Els(<<>>)
    BY <1>1 DEF FInv, MineOK, Phase, AtRest
  <2> QED
    BY <2>1, <2>2, EmptyPath
<1>5. \A c : c # found => table'[c] = table[c]
  BY <1>3, Typing
<1>6. OthersOK' /\ Others' = Others
  BY <1>1, <1>2, <1>4, <1>5, OthersStay DEF FInv
<1>7. table'[found] = END
  BY <1>2, <1>3, Typing, ClustersIn
<1>8. Taken' = Taken \cup {found}
  BY <1>1, <1>2, <1>5, <1>7, Marks DEF Taken
<1>9. Path(table', work') /\ Els(work') = {found} /\ work' # <<>> /\ LastOf(work') = found
  <2>1. work' = Append(work, found)
    BY <1>1, <1>4
  <2>2. Path(table', work) /\ Els(work) = {}
    BY <1>4, EmptyPath
  <2>3. Els(work') = Els(work) \cup {found} /\ Path(table', work') /\ work' # <<>> /\ LastOf(work') = found
    <3>1. found \in Clusters /\ found \notin Els(work) /\ (work # <<>> => table'[LastOf(work)] = found)
      BY <1>2, <1>4, <2>2
    <3> QED
      BY <2>1, <2>2, <3>1, PathAppend
  <2> QED
    BY <2>2, <2>3
<1>10. MineOK(<<>>)'
  BY <1>2, <1>4, <1>6, <1>8, <1>9, EmptyPath DEF MineOK
<1>11. Phase(<<>>)'
  BY <1>1, <1>4, <1>7, <1>9, Marks DEF Phase
<1>12. Search'
  <2>1. table'[1] # FREE
    BY <1>2, <1>5 DEF FInv, Search
  <2>2. \A c \in Clusters : c < search => c \in Taken' \cup {found}
    BY <1>2, <1>8 DEF FInv, Search
  <2> QED
    BY <1>1, <1>2, <1>3, <2>1, <2>2 DEF Search, Finding
<1>13. Locals'
  BY <1>1, <1>3 DEF FInv, Locals
<1> QED
  BY <1>3, <1>6, <1>10, <1>11, <1>12, <1>13, EmptyPath DEF FInv

(* A cluster that was found is linked behind top.                          *)
LEMMA LinkFoundKeeps == ASSUME Slotted, FInv, Link, found # 0 PROVE FInv'
<1>1. /\ pc = "link" /\ Served(top) /\ fatsetcluster(top, found)
      /\ top' = found /\ count' = count - 1 /\ work' = Append(work, found)
      /\ next' = next /\ first' = first /\ chains' = chains /\ torn' = torn
      /\ \/ /\ count > 1 /\ pc' = "findForGrow" /\ cur' = search'
            /\ left' = EntriesLeft(search') /\ found' = 0
         \/ /\ ~(count > 1) /\ pc' = "sealGrown" /\ cur' = cur /\ left' = left /\ found' = found
  BY DEF Link, Linked, findVars, freeVars
<1>2. /\ found \in Clusters /\ found # 1 /\ found # top /\ found \notin Taken
      /\ search = found + 1 /\ search < EntryCount
  BY <1>1, FoundIs
<1>3. top \in Entries /\ found \in Entries /\ found \in Nat /\ search \in Nat /\ search \in 1 .. EntryCount
  BY Typing
<1>4. Window' /\ table' = [table EXCEPT ![top] = found] /\ search' = search
  BY <1>1, <1>3, Sets, Marks DEF FInv
<1>5. PICK r \in Seq(Clusters) : MineOK(r) /\ Phase(r)
  BY DEF FInv
<1>6. /\ r = <<>> /\ next = 0 /\ first = 0
      /\ IF top = 0 THEN work # <<>> => table[LastOf(work)] = found
         ELSE work # <<>> /\ LastOf(work) = top
  BY <1>1, <1>5 DEF Phase, Growing
<1>7. /\ Path(table, work) /\ Others \cap Els(work) = {} /\ Taken = Others \cup Els(work)
      /\ work \in Seq(Clusters)
  BY <1>5, <1>6, EmptyPath DEF MineOK, Path
<1>8. \A c : c # top => table'[c] = table[c]
  BY <1>4, Typing
<1>9. table'[top] = found
  BY <1>3, <1>4, Typing
<1>10. top = 0 \/ top \in Clusters
  BY <1>6, <1>7, ElsIn
<1>11. /\ Path(table', work) /\ (work # <<>> => table'[LastOf(work)] = found)
       /\ \A c \in Others : table'[c] = table[c]
  <2>1. CASE top = 0
    <3>1. \A c \in Clusters : table'[c] = table[c]
      BY <1>8, <2>1, ClustersIn
    <3>2. Els(work) \subseteq Clusters /\ Others \subseteq Clusters
      BY <1>7, ElsIn, CountClusters
    <3> QED
      BY <1>6, <1>7, <2>1, <3>1, <3>2, PathStays
  <2>2. CASE top # 0
    <3>1. work # <<>> /\ LastOf(work) = top /\ top \in Els(work)
      BY <1>6, <1>7, <2>2, ElsIn
    <3>2. Path(table', work) /\ table'[LastOf(work)] = found
      BY <1>4, <1>7, <3>1, PathRelink, Typing
    <3> QED
      BY <1>7, <1>8, <3>1, <3>2
  <2> QED
    BY <2>1, <2>2
<1>12. /\ Path(table', work') /\ Els(work') = Els(work) \cup {found}
       /\ work' # <<>> /\ LastOf(work') = found
  <2>1. found \notin Els(work)
    BY <1>2, <1>7
  <2> QED
    BY <1>1, <1>2, <1>11, <2>1, PathAppend
<1>13. Taken' = Taken \cup {found}
  <2>1. ASSUME NEW c \in Clusters PROVE c \in Taken' <=> c \in Taken \cup {found}
    <3>1. CASE c = top
      BY <1>1, <1>2, <1>9, <3>1, Marks DEF Taken
    <3>2. CASE c # top
      BY <1>1, <1>8, <3>2 DEF Taken
    <3> QED
      BY <3>1, <3>2
  <2> QED
    BY <1>2, <2>1 DEF Taken
<1>14. OthersOK' /\ Others' = Others
  BY <1>1, <1>11, OthersStay DEF FInv
<1>15. MineOK(<<>>)'
  BY <1>2, <1>7, <1>12, <1>13, <1>14, EmptyPath DEF MineOK
<1>16. Phase(<<>>)'
  BY <1>1, <1>2, <1>4, <1>6, <1>12 DEF Phase, Growing
<1>17. EntriesLeft(search) \in Nat /\ count \in Nat /\ count > 0 /\ count - 1 \in Nat
       /\ Cardinality(Taken) + count <= MaxUsed + MaxCount
  <2>1. count \in Nat /\ count > 0 /\ Cardinality(Taken) + count <= MaxUsed + MaxCount
    BY <1>1, Typing DEF FInv, Search
  <2>2. EntriesLeft(search) \in Nat
    BY <1>3, EntriesLeftIs
  <2> QED
    BY <2>1, <2>2
<1>18. Locals'
  <2>1. cur' \in Nat /\ left' \in Nat /\ found' \in Entries
    <3>1. cur \in Nat /\ left \in Nat /\ 0 \in Entries
      BY Typing, Constants DEF Entries
    <3> QED
      BY <1>1, <1>3, <1>4, <1>17, <3>1
  <2> QED
    BY <1>1, <1>3, <1>4, <1>17, <2>1 DEF FInv, Locals
<1>19. Search'
  <2>1. table'[1] # FREE
    <3>1. top # 1
      BY <1>10, ClustersIn
    <3> QED
      BY <1>8, <3>1 DEF FInv, Search
  <2>2. \A c \in Clusters : c < search => c \in Taken'
    BY <1>2, <1>13 DEF FInv, Search
  <2>3. pc' = "findForGrow" => count' > 0 /\ Cardinality(Taken') + count' <= MaxUsed + MaxCount
    <3>1. Cardinality(Taken') = Cardinality(Taken) + 1 /\ Cardinality(Taken) \in Nat
      BY <1>2, <1>13, CountClusters, FS_AddElement
    <3>2. Cardinality(Taken') + count' = Cardinality(Taken) + count
      BY <1>1, <1>17, <3>1
    <3> QED
      BY <1>1, <1>17, <3>2
  <2>4. pc' = "findForGrow" => /\ cur' >= search' /\ left' + cur' = EntriesLeft(search') + search'
                               /\ \A e \in Entries : ~(search' <= e /\ e < cur')
    <3>1. \A e \in Entries : ~(search <= e /\ e < search)
      BY <1>3, Constants DEF Entries
    <3> QED
      BY <1>1, <1>3, <1>4, <3>1
  <2>5. Finding' => pc' = "findForGrow"
    BY <1>1 DEF Finding
  <2> QED
    BY <1>1, <1>2, <1>4, <2>1, <2>2, <2>3, <2>4, <2>5 DEF Search
<1> QED
  BY <1>4, <1>14, <1>15, <1>16, <1>18, <1>19, EmptyPath DEF FInv

(* A search has failed: top is freed, and the next search starts before it *)
(* and will find it.                                                       *)
LEMMA LinkFailedKeeps == ASSUME Slotted, FInv, Link, found = 0 PROVE FInv'
<1>1. /\ pc = "link" /\ Served(top) /\ fatsetcluster(top, FREE)
      /\ top' = 0 /\ count' = count - 1 /\ work' = SubSeq(work, 1, Len(work) - 1)
      /\ next' = next /\ first' = first /\ chains' = chains /\ torn' = torn /\ found' = 0
      /\ \/ /\ count > 1 /\ pc' = "findForGrow" /\ cur' = search'
            /\ left' = EntriesLeft(search')
         \/ /\ ~(count > 1) /\ pc' = "sealGrown" /\ cur' = cur /\ left' = left
  BY Marks DEF Link, Linked, findVars, freeVars
<1>2. /\ search = EntryCount /\ top # 0 /\ 4 * (top - 1) + 2 <= EntryCount
      /\ \A c \in Clusters : c < top => c \in Taken
  <2>1. search = EntryCount
    BY <1>1 DEF FInv, Search
  <2>2. ~(search < EntryCount)
    BY <2>1, Constants
  <2> QED
    BY <1>1, <2>1, <2>2 DEF FInv, Search
<1>3. PICK r \in Seq(Clusters) : MineOK(r) /\ Phase(r)
  BY DEF FInv
<1>4. r = <<>> /\ next = 0 /\ first = 0 /\ work # <<>> /\ LastOf(work) = top
  BY <1>1, <1>2, <1>3 DEF Phase, Growing
<1>5. /\ Path(table, work) /\ Others \cap Els(work) = {} /\ Taken = Others \cup Els(work)
      /\ work \in Seq(Clusters) /\ Len(work) \in Nat /\ Len(work) > 0
      /\ top \in Clusters /\ top \in Els(work)
  <2>1. Path(table, work) /\ Others \cap Els(work) = {} /\ Taken = Others \cup Els(work)
        /\ work \in Seq(Clusters)
    BY <1>3, <1>4, EmptyPath DEF MineOK, Path
  <2> QED
    BY <1>4, <2>1, ElsIn
<1>6. top \in Nat /\ top \in Entries /\ top >= 2 /\ top < EntryCount /\ EntryCount \in Nat
      /\ UINT \in Nat /\ UINT > 4 * EntryCount
  BY <1>5, ClustersIn, Constants
<1>7. Window' /\ table' = [table EXCEPT ![top] = FREE] /\ search' = top - 1
  <2>1. Window' /\ table' = [table EXCEPT ![top] = FREE]
        /\ search' = IF FREE = FREE /\ top < search THEN (top - 1) % UINT ELSE search
    BY <1>1, <1>6, Sets, Marks DEF FInv
  <2>2. (top - 1) % UINT = top - 1
    BY <1>6, Remainders
  <2> QED
    BY <1>2, <1>6, <2>1, <2>2
<1>8. table'[top] = FREE /\ \A c : c # top => table'[c] = table[c]
  BY <1>6, <1>7, Typing
<1>9. /\ Path(table', work') /\ Els(work') = Els(work) \ {top}
      /\ work' # <<>> => table'[LastOf(work')] = top
  <2> DEFINE n == Len(work) - 1
             b == SubSeq(work, n + 1, Len(work))
  <2>1. n \in 0 .. Len(work) /\ n \in Nat /\ n + 1 = Len(work) /\ n < Len(work)
    BY <1>5
  <2>2. Cut(table, work, n, work', b)
    BY <1>1, <1>5, <2>1, PathCut
  <2> HIDE DEF n, b
  <2>3. /\ Path(table, work') /\ Path(table, b) /\ Els(work) = Els(work') \cup Els(b)
        /\ Els(work') \cap Els(b) = {} /\ b # <<>> /\ LastOf(b) = top /\ Len(b) = 1
        /\ n > 0 => LastOf(work') = work[n]
    BY <1>4, <2>1, <2>2, <1>5 DEF Cut
  <2>4. Els(b) = {top}
    <3>1. b[1] = top /\ 1 .. 1 = {1}
      BY <2>3 DEF LastOf
    <3> QED
      BY <2>3, <3>1 DEF Els
  <2>5. \A c \in Els(work') : table'[c] = table[c]
    BY <1>8, <2>3, <2>4
  <2>6. work' # <<>> => n > 0
    BY <1>1, <1>5, <2>1
  <2>7. n > 0 => table[work[n]] = top
    <3>1. n > 0 => n \in 1 .. Len(work) - 1
      BY <2>1, <1>5
    <3>2. n > 0 => table[work[n]] = work[n + 1]
      BY <1>5, <3>1 DEF Path
    <3> QED
      BY <1>4, <2>1, <3>2 DEF LastOf
  <2>8. Path(table', work') /\ (work' # <<>> => table'[LastOf(work')] = table[LastOf(work')])
    BY <2>3, <2>5, PathStays
  <2> QED
    BY <2>3, <2>4, <2>6, <2>7, <2>8
<1>10. Taken' = Taken \ {top}
  <2>1. ASSUME NEW c \in Clusters PROVE c \in Taken' <=> c \in Taken \ {top}
    <3>1. CASE c = top
      BY <1>1, <1>6, <1>8, <3>1 DEF Taken
    <3>2. CASE c # top
      BY <1>1, <1>8, <3>2, ClustersIn DEF Taken
    <3> QED
      BY <3>1, <3>2
  <2> QED
    BY <2>1 DEF Taken
<1>11. OthersOK' /\ Others' = Others
  BY <1>1, <1>5, <1>8, OthersStay DEF FInv
<1>12. MineOK(<<>>)'
  BY <1>5, <1>9, <1>10, <1>11, EmptyPath DEF MineOK
<1>13. search' \in Nat /\ search' \in 1 .. EntryCount /\ search' < EntryCount /\ search' + 1 = top
       /\ search' # top /\ search' < top
  BY <1>6, <1>7
<1>14. Refind'
  <2>1. table'[search'] # FREE
    <3>1. search' = 1 \/ search' \in Clusters
      BY <1>6, <1>7 DEF Clusters
    <3>2. table[1] # FREE
      BY DEF FInv, Search
    <3>3. search' \in Clusters => table[search'] # FREE
      BY <1>2, <1>13 DEF Taken
    <3> QED
      BY <1>8, <1>13, <3>1, <3>2, <3>3
  <2>2. 4 * search' + 2 <= EntryCount
    BY <1>2, <1>6, <1>7
  <2> QED
    BY <1>5, <1>8, <1>9, <1>13, <2>1, <2>2 DEF Refind
<1>15. Phase(<<>>)'
  <2>1. work' # <<>> => table'[LastOf(work')] # END
    BY <1>5, <1>9, ClustersIn
  <2> QED
    BY <1>1, <1>4, <1>14, <2>1 DEF Phase, Growing
<1>16. EntriesLeft(search') \in Nat /\ count \in Nat /\ count > 0 /\ count - 1 \in Nat
       /\ Cardinality(Taken) + count <= MaxUsed + MaxCount
  <2>1. count \in Nat /\ count > 0 /\ Cardinality(Taken) + count <= MaxUsed + MaxCount
    BY <1>1, Typing DEF FInv, Search
  <2>2. EntriesLeft(search') \in Nat
    BY <1>13, EntriesLeftIs
  <2> QED
    BY <2>1, <2>2
<1>17. Locals'
  <2>1. cur' \in Nat /\ left' \in Nat /\ 0 \in Entries
    <3>1. cur \in Nat /\ left \in Nat /\ 0 \in Entries
      BY Typing, Constants DEF Entries
    <3> QED
      BY <1>1, <1>13, <1>16, <3>1
  <2> QED
    BY <1>1, <1>13, <1>16, <2>1 DEF FInv, Locals
<1>18. Search'
  <2>1. table'[1] # FREE
    BY <1>6, <1>8 DEF FInv, Search
  <2>2. \A c \in Clusters : c < search' => c \in Taken'
    <3>1. \A c \in Clusters : c < search' => c < top /\ c # top
      BY <1>6, <1>7, ClustersIn
    <3> QED
      BY <1>2, <1>10, <3>1
  <2>3. pc' = "findForGrow" => count' > 0 /\ Cardinality(Taken') + count' <= MaxUsed + MaxCount
    <3>1. top \in Taken
      BY <1>5
    <3>2. Cardinality(Taken') = Cardinality(Taken) - 1 /\ Cardinality(Taken) \in Nat
      BY <1>10, <3>1, CountClusters, FS_RemoveElement
    <3>3. MaxUsed + MaxCount \in Nat
      BY Constants
    <3> QED
      BY <1>1, <1>16, <3>2, <3>3
  <2>4. pc' = "findForGrow" => /\ cur' >= search' /\ left' + cur' = EntriesLeft(search') + search'
                               /\ \A e \in Entries : ~(search' <= e /\ e < cur')
    <3>1. \A e \in Entries : ~(search' <= e /\ e < search')
      BY <1>13, Constants DEF Entries
    <3> QED
      BY <1>1, <1>13, <3>1
  <2>5. Finding' => pc' = "findForGrow"
    BY <1>1 DEF Finding
  <2> QED
    BY <1>1, <1>13, <2>1, <2>2, <2>3, <2>4, <2>5 DEF Search
<1> QED
  BY <1>7, <1>11, <1>12, <1>15, <1>17, <1>18, EmptyPath DEF FInv

LEMMA LinkKeeps == ASSUME Slotted, FInv, Link PROVE FInv'
BY LinkFoundKeeps, LinkFailedKeeps

LEMMA SealGrownKeeps == ASSUME Slotted, FInv, SealGrown PROVE FInv'
<1>1. /\ pc = "sealGrown" /\ Served(top) /\ fatsetcluster(top, END) /\ pc' = "commit"
      /\ cur' = cur /\ left' = left /\ found' = found /\ top' = top /\ count' = count
      /\ next' = next /\ first' = first /\ chains' = chains /\ work' = work /\ torn' = torn
  BY DEF SealGrown, findVars, allocVars, freeVars, ghostVars
<1>2. Window' /\ table' = [table EXCEPT ![top] = END] /\ search' = search
  BY <1>1, Typing, Sets, Marks DEF FInv
<1>3. PICK r \in Seq(Clusters) : MineOK(r) /\ Phase(r)
  BY DEF FInv
<1>4. /\ r = <<>> /\ next = 0 /\ first = 0 /\ top = found
      /\ IF found = 0 THEN work # <<>> => table[LastOf(work)] # END
         ELSE work # <<>> /\ LastOf(work) = top
  BY <1>1, <1>3 DEF Phase, Growing
<1>5. /\ Path(table, work) /\ Others \cap Els(work) = {} /\ Taken = Others \cup Els(work)
      /\ work \in Seq(Clusters)
  BY <1>3, <1>4, EmptyPath DEF MineOK, Path
<1>6. table'[top] = END /\ \A c : c # top => table'[c] = table[c]
  BY <1>2, Typing
<1>7. (top = 0 \/ top \in Clusters) /\ Others \subseteq Clusters /\ Els(work) \subseteq Clusters
  BY <1>4, <1>5, ElsIn, CountClusters
<1>8. /\ Path(table', work) /\ \A c \in Others : table'[c] = table[c]
      /\ top # 0 => work # <<>> /\ table'[LastOf(work)] = END
      /\ top = 0 => (work # <<>> => table'[LastOf(work)] # END)
  <2>1. CASE top = 0
    <3>1. \A c \in Clusters : table'[c] = table[c]
      BY <1>6, <2>1, ClustersIn
    <3> QED
      BY <1>4, <1>5, <1>7, <2>1, <3>1, PathStays
  <2>2. CASE top # 0
    <3>1. work # <<>> /\ LastOf(work) = top /\ top \in Els(work)
      BY <1>4, <1>5, <2>2, ElsIn
    <3>2. Path(table', work) /\ table'[LastOf(work)] = END
      BY <1>2, <1>5, <3>1, PathRelink, Typing
    <3> QED
      BY <1>5, <1>6, <2>2, <3>1, <3>2
  <2> QED
    BY <2>1, <2>2
<1>9. Taken' = Taken
  BY <1>1, <1>6, Marks DEF Taken
<1>10. OthersOK' /\ Others' = Others
  BY <1>1, <1>8, OthersStay DEF FInv
<1>11. MineOK(<<>>)'
  BY <1>1, <1>5, <1>8, <1>9, <1>10, EmptyPath DEF MineOK
<1>12. Phase(<<>>)'
  BY <1>1, <1>4, <1>6, <1>8, Marks DEF Phase
<1>13. Locals'
  BY <1>1, <1>2 DEF FInv, Locals
<1>14. Search'
  <2>1. table'[1] # FREE
    <3>1. top # 1
      BY <1>7, ClustersIn
    <3> QED
      BY <1>6, <3>1 DEF FInv, Search
  <2> QED
    BY <1>1, <1>2, <1>9, <2>1 DEF FInv, Search, Finding
<1> QED
  BY <1>2, <1>10, <1>11, <1>12, <1>13, <1>14, EmptyPath DEF FInv

LEMMA ShrinkStartKeeps == ASSUME Slotted, FInv, ShrinkStart PROVE FInv'
<1>1. /\ pc = "shrink" /\ Served(first) /\ ShrinkFrom(fatclustervalue(first))
      /\ UNCHANGED <<disk, buf, win, nsec, dirty, table>> /\ search' = search
      /\ cur' = cur /\ left' = left /\ found' = found /\ top' = top /\ count' = count
      /\ first' = first /\ chains' = chains /\ work' = work /\ torn' = torn
  BY DEF ShrinkStart, cacheVars, findVars, allocVars, ghostVars
<1>2. fatclustervalue(first) = table[first]
  BY <1>1, Typing, Reads DEF FInv
<1>3. IF IsEnd(table[first]) THEN pc' = "sealShrunk" /\ next' = next
                             ELSE pc' = "freeing" /\ next' = table[first]
  BY <1>1, <1>2 DEF ShrinkFrom
<1>4. PICK r \in Seq(Clusters) : MineOK(r) /\ Phase(r)
  BY DEF FInv
<1>5. /\ Freeing /\ next = 0
      /\ IF r = <<>> THEN table[first] = END ELSE table[first] = r[1] /\ table[LastOf(r)] = END
  BY <1>1, <1>4 DEF Phase
<1>6. r # <<>> => r[1] \in Clusters
  BY <1>4
<1>7. IsEnd(table[first]) <=> r = <<>>
  BY <1>5, <1>6, ClustersIn, Constants DEF IsEnd
<1>8. /\ Freeing' /\ pc' = (IF r = <<>> THEN "sealShrunk" ELSE "freeing")
      /\ next' = (IF r = <<>> THEN next ELSE r[1])
  BY <1>1, <1>3, <1>5, <1>7 DEF Freeing
<1>9. Window' /\ Locals'
  <2>1. next' \in Entries
    BY <1>6, <1>8, ClustersIn, Typing
  <2> QED
    BY <1>1, <2>1, WindowStays DEF FInv, Locals
<1>10. Taken' = Taken /\ Others' = Others /\ table' = table
  BY <1>1 DEF Taken, Others
<1>11. Search'
  BY <1>1, <1>8, <1>10 DEF FInv, Search, Finding
<1>12. OthersOK'
  BY <1>1 DEF FInv, OthersOK
<1>13. MineOK(r)'
  BY <1>1, <1>4, <1>10 DEF MineOK
<1>14. Phase(r)'
  BY <1>5, <1>8, <1>10 DEF Phase
<1> QED
  BY <1>9, <1>11, <1>12, <1>13, <1>14 DEF FInv

LEMMA SealShrunkKeeps == ASSUME Slotted, FInv, SealShrunk PROVE FInv'
<1>1. /\ pc = "sealShrunk" /\ Served(first) /\ fatsetcluster(first, END) /\ pc' = "commit"
      /\ cur' = cur /\ left' = left /\ found' = found /\ top' = top /\ count' = count
      /\ next' = next /\ first' = first /\ chains' = chains /\ work' = work /\ torn' = torn
  BY DEF SealShrunk, findVars, allocVars, freeVars, ghostVars
<1>2. Window' /\ table' = [table EXCEPT ![first] = END] /\ search' = search
  BY <1>1, Typing, Sets, Marks DEF FInv
<1>3. PICK r \in Seq(Clusters) : MineOK(r) /\ Phase(r)
  BY DEF FInv
<1>4. r = <<>> /\ work # <<>> /\ first = LastOf(work) /\ top = 0 /\ found = 0
  BY <1>1, <1>3 DEF Phase, Freeing
<1>5. /\ Path(table, work) /\ Others \cap Els(work) = {} /\ Taken = Others \cup Els(work)
      /\ work \in Seq(Clusters)
  BY <1>3, <1>4, EmptyPath DEF MineOK, Path
<1>6. first \in Clusters /\ first \in Els(work) /\ first \in Taken /\ first # 0 /\ first # 1
  BY <1>4, <1>5, ElsIn, ClustersIn
<1>7. table'[first] = END /\ \A c : c # first => table'[c] = table[c]
  BY <1>2, Typing
<1>8. Path(table', work) /\ table'[LastOf(work)] = END
  BY <1>2, <1>4, <1>5, PathRelink, Typing
<1>9. Taken' = Taken
  BY <1>1, <1>6, <1>7, Marks DEF Taken
<1>10. OthersOK' /\ Others' = Others
  BY <1>1, <1>5, <1>6, <1>7, OthersStay DEF FInv
<1>11. MineOK(<<>>)'
  BY <1>1, <1>5, <1>8, <1>9, <1>10, EmptyPath DEF MineOK
<1>12. Phase(<<>>)'
  BY <1>1, <1>4, <1>6, <1>8 DEF Phase
<1>13. Locals'
  BY <1>1, <1>2 DEF FInv, Locals
<1>14. Search'
  <2>1. table'[1] # FREE
    BY <1>6, <1>7 DEF FInv, Search
  <2> QED
    BY <1>1, <1>2, <1>9, <2>1 DEF FInv, Search, Finding
<1> QED
  BY <1>2, <1>10, <1>11, <1>12, <1>13, <1>14, EmptyPath DEF FInv

LEMMA CommitKeeps == ASSUME FInv, Commit PROVE FInv'
<1>1. /\ pc = "commit" /\ fatcommit /\ pc' = "idle"
      /\ work' = <<>> /\ found' = 0 /\ top' = 0 /\ next' = 0 /\ first' = 0
      /\ cur' = cur /\ left' = left /\ count' = count
      /\ \/ first = 0 /\ found = 0 /\ torn' = torn \cup {work} /\ chains' = chains
         \/ ~(first = 0 /\ found = 0) /\ chains' = chains \cup {work} /\ torn' = torn
  BY DEF Commit
<1>2. Window' /\ table' = table /\ search' = search
  BY <1>1, Commits DEF FInv
<1>3. PICK r \in Seq(Clusters) : MineOK(r) /\ Phase(r)
  BY DEF FInv
<1>4. /\ r = <<>> /\ top \in {0, found} /\ (found # 0 => table[found] # FREE)
      /\ IF first = 0 /\ found = 0 THEN work # <<>> => table[LastOf(work)] # END
         ELSE work # <<>> /\ table[LastOf(work)] = END
  BY <1>1, <1>3 DEF Phase
<1>5. Path(table, work) /\ Els(work) \cap Others = {} /\ Taken = Others \cup Els(work)
  BY <1>3, <1>4, EmptyPath DEF MineOK
<1>6. OthersOK' /\ Others' = Others \cup Els(work)
  BY <1>1, <1>2, <1>4, <1>5, OthersGain DEF FInv
<1>7. Taken' = Taken
  <2>1. ASSUME NEW c \in Clusters PROVE c \in Taken' <=> c \in Taken
    <3>1. c # 0
      BY ClustersIn
    <3> QED
      BY <1>1, <1>2, <1>4, <3>1 DEF Taken
  <2> QED
    BY <2>1 DEF Taken
<1>8. MineOK(<<>>)'
  BY <1>1, <1>5, <1>6, <1>7, EmptyPath DEF MineOK
<1>9. Phase(<<>>)'
  BY <1>1 DEF Phase, AtRest
<1>10. Locals'
  BY <1>1, <1>2, Constants DEF FInv, Locals, Entries
<1>11. Search'
  <2>1. search < EntryCount => \A c \in Clusters : c < search => c \in Taken'
    <3>1. \A c \in Clusters : c = found => c \in Taken
      BY <1>4, ClustersIn DEF Taken
    <3> QED
      BY <1>7, <3>1 DEF FInv, Search
  <2>2. ~(search < EntryCount) => \A c \in Clusters, d \in Taken' : c < d => c \in Taken'
    BY <1>1, <1>7 DEF FInv, Search
  <2> QED
    BY <1>1, <1>2, <2>1, <2>2 DEF FInv, Search, Finding
<1> QED
  BY <1>2, <1>6, <1>8, <1>9, <1>10, <1>11, EmptyPath DEF FInv

(* The cluster that has just been freed is not read again; its entry was   *)
(* read before it was set.                                                 *)
LEMMA FreeStepKeeps == ASSUME Slotted, FInv, FreeStep PROVE FInv'
<1>1. /\ pc = "freeing" /\ Served(next) /\ fatsetcluster(next, FREE)
      /\ ShrinkFrom(fatclustervalue(next))
      /\ cur' = cur /\ left' = left /\ found' = found /\ top' = top /\ count' = count
      /\ first' = first /\ chains' = chains /\ work' = work /\ torn' = torn
  BY DEF FreeStep, findVars, allocVars, ghostVars
<1>2. fatclustervalue(next) = table[next]
  BY <1>1, Typing, Reads DEF FInv
<1>3. PICK r \in Seq(Clusters) : MineOK(r) /\ Phase(r)
  BY DEF FInv
<1>4. /\ work # <<>> /\ first = LastOf(work) /\ top = 0 /\ found = 0
      /\ r # <<>> /\ next = r[1] /\ table[LastOf(r)] = END
  BY <1>1, <1>3 DEF Phase, Freeing
<1>5. /\ Path(table, work) /\ Path(table, r) /\ Els(work) \cap Els(r) = {}
      /\ Others \cap (Els(work) \cup Els(r)) = {} /\ Taken = Others \cup Els(work) \cup Els(r)
      /\ Len(r) \in Nat /\ Len(r) > 0
  BY <1>3, <1>4, ElsIn DEF MineOK
<1>5a. 1 = Len(r) \/ 1 < Len(r)
  <2>1. \A n \in Nat : n > 0 => 1 = n \/ 1 < n
    OBVIOUS
  <2>2. Len(r) \in Nat /\ Len(r) > 0
    BY <1>5
  <2> QED
    BY <2>1, <2>2
<1> DEFINE a == SubSeq(r, 1, 1)
           b == SubSeq(r, 1 + 1, Len(r))
<1>6. Cut(table, r, 1, a, b) /\ Len(a) = 1
  <2>1. 1 \in 0 .. Len(r)
    BY <1>5
  <2>2. Cut(table, r, 1, a, b)
    BY <1>5, <2>1, PathCut
  <2>3. Len(a) = 1
    BY <1>3, <1>5
  <2> QED
    BY <2>2, <2>3
<1> HIDE DEF a, b
<1>7. /\ Path(table, b) /\ b \in Seq(Clusters)
      /\ Els(r) = Els(a) \cup Els(b) /\ Els(a) \cap Els(b) = {} /\ LastOf(a) = r[1]
      /\ 1 < Len(r) => b # <<>> /\ b[1] = r[2] /\ LastOf(b) = LastOf(r)
      /\ 1 = Len(r) => b = <<>>
  BY <1>6 DEF Cut, Path
<1>8. Els(a) = {next}
  <2>1. a[1] = next /\ 1 .. 1 = {1}
    BY <1>4, <1>6, <1>7 DEF LastOf
  <2> QED
    BY <1>6, <2>1 DEF Els
<1>9. next \in Clusters /\ next \in Entries /\ next \in Nat /\ next >= 2 /\ next < EntryCount
  BY <1>3, <1>4, <1>5, ClustersIn
<1>10. Window' /\ table' = [table EXCEPT ![next] = FREE]
       /\ search' = IF next < search THEN next - 1 ELSE search
  <2>1. Window' /\ table' = [table EXCEPT ![next] = FREE]
        /\ search' = IF FREE = FREE /\ next < search THEN (next - 1) % UINT ELSE search
    BY <1>1, <1>9, Sets, Marks DEF FInv
  <2>2. (next - 1) % UINT = next - 1
    BY <1>9, Remainders, Constants
  <2> QED
    BY <2>1, <2>2
<1>11. table'[next] = FREE /\ \A c : c # next => table'[c] = table[c]
  BY <1>9, <1>10, Typing
<1>12. IF b = <<>> THEN table[next] = END ELSE table[next] = b[1]
  <2>1. CASE 1 = Len(r)
    BY <1>4, <1>7, <2>1 DEF LastOf
  <2>2. CASE 1 < Len(r)
    <3>1. 1 \in 1 .. Len(r) - 1
      BY <1>5, <2>2
    <3>2. table[r[1]] = r[1 + 1]
      BY <1>5, <3>1 DEF Path
    <3> QED
      BY <1>4, <1>7, <2>2, <3>2
  <2> QED
    BY <1>5a, <2>1, <2>2
<1>13. IsEnd(table[next]) <=> b = <<>>
  <2>1. b # <<>> => b[1] \in Clusters
    BY <1>7
  <2> QED
    BY <1>12, <2>1, ClustersIn, Constants DEF IsEnd
<1>14. /\ pc' = (IF b = <<>> THEN "sealShrunk" ELSE "freeing")
       /\ next' = (IF b = <<>> THEN next ELSE b[1])
  BY <1>1, <1>2, <1>12, <1>13 DEF ShrinkFrom
<1>15. Path(table', work) /\ Path(table', b) /\ (b # <<>> => table'[LastOf(b)] = END)
  <2>1. \A c \in Els(work) \cup Els(b) : table'[c] = table[c]
    BY <1>5, <1>7, <1>8, <1>11
  <2>2. b # <<>> => table[LastOf(b)] = END
    BY <1>4, <1>7, <1>5a
  <2> QED
    BY <1>5, <1>7, <2>1, <2>2, PathStays
<1>16. Taken' = Taken \ {next}
  BY <1>1, <1>4, <1>9, <1>11 DEF Taken
<1>17. OthersOK' /\ Others' = Others
  BY <1>1, <1>5, <1>7, <1>8, <1>11, OthersStay DEF FInv
<1>18. MineOK(b)'
  BY <1>1, <1>5, <1>7, <1>8, <1>15, <1>16, <1>17 DEF MineOK
<1>19. Phase(b)'
  BY <1>1, <1>4, <1>14, <1>15 DEF Phase, Freeing
<1>20. next' \in Entries /\ search' \in 1 .. EntryCount /\ search' < EntryCount
  <2>1. b # <<>> => b[1] \in Entries
    BY <1>7, ClustersIn
  <2>2. search' \in 1 .. EntryCount /\ search' < EntryCount
    <3>1. search \in Nat /\ search >= 1 /\ search <= EntryCount /\ EntryCount \in Nat
      BY Typing, Constants
    <3> QED
      BY <1>9, <1>10, <3>1
  <2> QED
    BY <1>9, <1>14, <2>1, <2>2
<1>21. Locals'
  BY <1>1, <1>20 DEF FInv, Locals
<1>22. Search'
  <2>1. table'[1] # FREE
    BY <1>9, <1>11 DEF FInv, Search
  <2>2. ASSUME NEW c \in Clusters, c < search' PROVE c \in Taken'
    <3>1. c \in Nat /\ c # 0 /\ search \in Nat /\ c < search
      BY <1>9, <1>10, <2>2, ClustersIn, Typing
    <3>2. c # next
      BY <1>9, <1>10, <2>2, <3>1
    <3>3. CASE search < EntryCount
      BY <1>4, <1>16, <3>1, <3>2, <3>3 DEF FInv, Search
    <3>4. CASE ~(search < EntryCount)
      <4>1. c < next /\ next \in Taken
        BY <1>5, <1>7, <1>8, <1>9, <1>10, <2>2, <3>1, <3>4, Typing, Constants
      <4>2. c \in Taken
        BY <1>1, <3>4, <4>1 DEF FInv, Search
      <4> QED
        BY <1>16, <3>2, <4>2
    <3> QED
      BY <3>3, <3>4
  <2>3. ~Finding' /\ pc' \notin {"create", "link", "findForCreate", "findForGrow"}
    BY <1>14 DEF Finding
  <2> QED
    BY <1>20, <2>1, <2>2, <2>3 DEF Search
<1> QED
  BY <1>7, <1>10, <1>17, <1>18, <1>19, <1>21, <1>22 DEF FInv

-----------------------------------------------------------------------------
(* The invariant holds at first and is kept.                               *)

LEMMA InitHolds == ASSUME Init PROVE FInv
<1>1. /\ disk = [k \in Copies |-> EmptyTable] /\ win = 0 /\ nsec = SectorsFrom(0)
      /\ buf = WindowAt(disk, 0) /\ dirty = FALSE /\ search = 2 /\ pc = "idle"
      /\ cur = 0 /\ left = 0 /\ found = 0 /\ top = 0 /\ count = 0 /\ next = 0 /\ first = 0
      /\ table = EmptyTable /\ chains = {<<ROOT>>} /\ work = <<>> /\ torn = {}
  BY DEF Init
<1>2. EmptyTable \in [Entries -> Nat] /\ ROOT = 2 /\ 0 \in Entries /\ 2 \in 1 .. EntryCount
      /\ 2 < EntryCount /\ 0 \in 0 .. FATSIZE - 1 /\ 1 \in Copies
  BY Constants, Marks DEF EmptyTable, Entries, ROOT, Copies
<1>3. \A e \in Entries : EmptyTable[e] = IF e \in 0 .. 2 THEN END ELSE FREE
  BY <1>2 DEF EmptyTable
<1>4. /\ SectorsFrom(0) \in Nat /\ EPS * SectorsFrom(0) \in Nat
      /\ EPS * SectorsFrom(0) <= EntryCount
  BY <1>2, WindowFits, Constants
<1>5. buf = [j \in 0 .. EPS * nsec - 1 |-> EmptyTable[j]]
  <2>1. \A j \in Nat : 0 * EPS + j = j
    BY Constants
  <2>2. disk[1] = EmptyTable
    BY <1>1, <1>2
  <2>3. buf = [j \in 0 .. EPS * nsec - 1 |-> disk[1][0 * EPS + j]]
    BY <1>1 DEF WindowAt
  <2> QED
    BY <1>1, <1>4, <2>1, <2>2, <2>3
<1>6. Window
  <2>1. buf \in [0 .. EPS * nsec - 1 -> Nat]
    <3>1. \A j \in 0 .. EPS * nsec - 1 : j \in Entries
      BY <1>1, <1>4, Constants DEF Entries
    <3> QED
      BY <1>2, <1>5, <3>1
  <2>2. FirstEntry = 0
    BY <1>1, Constants DEF FirstEntry
  <2>3. ASSUME NEW e \in Entries, Held(e) PROVE buf[e - FirstEntry] = table[e]
    <3>1. e \in 0 .. EPS * nsec - 1 /\ e - FirstEntry = e
      BY <1>1, <1>4, <2>2, <2>3, Constants DEF Held, Entries
    <3> QED
      BY <1>1, <1>5, <3>1
  <2>4. nsec = SectorsFrom(win) /\ disk \in [Copies -> [Entries -> Nat]]
        /\ \A k \in Copies : disk[k] = table
    BY <1>1, <1>2
  <2> QED
    BY <1>1, <1>2, <2>1, <2>3, <2>4 DEF Window
<1>7. Locals
  BY <1>1, <1>2 DEF Locals
<1>8. table[2] = END /\ 2 \in Clusters /\ \A c \in Clusters : c # 2 => table[c] = FREE
  BY <1>1, <1>2, <1>3, ClustersIn, Constants DEF Clusters
<1>9. Path(table, <<2>>) /\ Els(<<2>>) = {2} /\ LastOf(<<2>>) = 2 /\ <<2>> # <<>>
  <2>1. <<2>> \in Seq(Clusters) /\ Len(<<2>>) = 1 /\ 1 .. 1 = {1} /\ 1 .. 1 - 1 = {}
        /\ <<2>>[1] = 2
    BY <1>8
  <2> QED
    BY <2>1 DEF Path, Els, LastOf
<1>10. OthersOK /\ Others = {2}
  BY <1>1, <1>2, <1>8, <1>9 DEF OthersOK, Others
<1>11. Taken = {2}
  BY <1>1, <1>8, Marks, ClustersIn DEF Taken
<1>12. Search
  <2>1. table[1] # FREE
    BY <1>1, <1>2, <1>3, Marks, Constants DEF Entries
  <2>2. \A c \in Clusters : ~(c < search)
    BY <1>1, ClustersIn
  <2> QED
    BY <1>1, <1>2, <2>1, <2>2 DEF Search, Finding
<1>13. MineOK(<<>>) /\ Phase(<<>>)
  BY <1>1, <1>10, <1>11, EmptyPath DEF MineOK, Phase, AtRest
<1> QED
  BY <1>6, <1>7, <1>10, <1>12, <1>13, EmptyPath DEF FInv

LEMMA NextKeeps == ASSUME Slotted, Roomy, FInv, [Next]_vars PROVE FInv'
<1>1. CASE Call
  BY <1>1, CreateKeeps, GrowKeeps, ShrinkKeeps DEF Call
<1>2. CASE Step
  BY <1>2, MoveWindowKeeps, FindStepKeeps, FindFailKeeps, CreateEndKeeps, CreateFailsKeeps,
     LinkKeeps, SealGrownKeeps, ShrinkStartKeeps, FreeStepKeeps, SealShrunkKeeps, CommitKeeps
     DEF Step
<1>3. CASE vars' = vars
  <2>1. UNCHANGED <<disk, buf, win, nsec, dirty, table>>
        /\ UNCHANGED <<table, search, findVars, allocVars, freeVars, ghostVars, pc>>
    BY <1>3 DEF vars, cacheVars
  <2> QED
    BY <2>1, WindowStays, WindowOnlyKeeps DEF FInv
<1> QED
  BY <1>1, <1>2, <1>3 DEF Next

-----------------------------------------------------------------------------
(* What the invariant says of the properties.                              *)

LEMMA CoherentHolds == ASSUME Slotted, FInv PROVE Coherent
<1>1. ASSUME NEW e \in Entries
      PROVE  table[e] = IF Held(e) THEN fatclustervalue(e) ELSE disk[1][e]
  <2>1. CASE Held(e)
    <3>1. fatclustervalue(e) = table[e]
      BY <2>1, Reads DEF Served, FInv
    <3> QED
      BY <2>1, <3>1
  <2>2. CASE ~Held(e)
    <3>1. 1 \in Copies
      BY Constants DEF Copies
    <3> QED
      BY <2>2, <3>1 DEF FInv, Window
  <2> QED
    BY <2>1, <2>2
<1>2. ~dirty => \A k \in Copies : disk[k] = table
  BY DEF FInv, Window
<1> QED
  BY <1>1, <1>2 DEF Coherent

LEMMA NothingFreeBehindHolds == ASSUME FInv PROVE NothingFreeBehind
<1>1. PICK r \in Seq(Clusters) : Phase(r)
  BY DEF FInv
<1>2. SUFFICES ASSUME search < EntryCount, NEW c \in Clusters, c < search, table[c] = FREE
               PROVE  c \in Promised
  BY DEF NothingFreeBehind
<1>3. c = top \/ c = found
  BY <1>2 DEF FInv, Search, Taken
<1>4. c # 0
  BY ClustersIn
<1>5. CASE pc \in {"create", "link"}
  BY <1>3, <1>5 DEF Promised
<1>6. CASE pc = "findForGrow"
  BY <1>1, <1>3, <1>4, <1>6 DEF Promised, Phase
<1>7. CASE pc = "sealGrown"
  BY <1>1, <1>3, <1>7 DEF Promised, Phase
<1>8. CASE pc = "commit"
  BY <1>1, <1>2, <1>3, <1>4, <1>8 DEF Phase
<1>9. CASE pc \in {"idle", "findForCreate"}
  BY <1>1, <1>3, <1>4, <1>9 DEF Phase, AtRest
<1>10. CASE pc \in {"shrink", "freeing", "sealShrunk"}
  BY <1>1, <1>3, <1>4, <1>10 DEF Phase, Freeing
<1>11. pc \in {"idle", "findForCreate", "findForGrow", "create", "link", "sealGrown",
               "shrink", "freeing", "sealShrunk", "commit"}
  BY <1>1 DEF Phase
<1> QED
  BY <1>5, <1>6, <1>7, <1>8, <1>9, <1>10, <1>11

LEMMA TypeOKHolds == ASSUME FInv PROVE TypeOK
<1>1. pc \in {"idle", "findForCreate", "findForGrow", "create", "link", "sealGrown",
               "shrink", "freeing", "sealShrunk", "commit"}
  BY DEF FInv, Phase
<1>2. {found, top, next, first} \subseteq Entries /\ {cur, left, count} \subseteq Nat
      /\ search \in 1 .. EntryCount
  BY DEF FInv, Locals
<1> QED
  BY <1>1, <1>2 DEF FInv, Window, TypeOK

(* A path is no longer than there are clusters.                            *)
LEMMA PathLength == ASSUME NEW t, NEW x, Path(t, x) PROVE Len(x) <= EntryCount
<1>1. /\ x \in Seq(Clusters) /\ Len(x) \in Nat
      /\ \A j, k \in 1 .. Len(x) : x[j] = x[k] => j = k
  BY DEF Path
<1>2. x \in Injection(1 .. Len(x), Clusters)
  <2>1. x \in [1 .. Len(x) -> Clusters]
    BY <1>1
  <2> QED
    BY <1>1, <2>1 DEF Injection, IsInjective
<1>3. Cardinality(1 .. Len(x)) <= EntryCount - 2
  BY <1>2, CountClusters, FS_Injection
<1>4. Cardinality(1 .. Len(x)) = IF 1 > Len(x) THEN 0 ELSE Len(x) - 1 + 1
  BY <1>1, FS_Interval
<1> QED
  BY <1>1, <1>3, <1>4, Constants

(* Between calls, a cluster in use is at one place of one chain.           *)
LEMMA EncodesHolds == ASSUME FInv, pc = "idle" PROVE Encodes(table, chains, torn)
<1>1. /\ \A x \in chains \cup torn : Path(table, x)
      /\ \A x, y \in chains \cup torn : x # y => Els(x) \cap Els(y) = {}
      /\ \A x \in chains : table[LastOf(x)] = END
  BY DEF FInv, OthersOK
<1>2. \A x \in chains \cup torn : \A k \in 1 .. Len(x) - 1 : table[x[k]] = x[k + 1]
  BY <1>1 DEF Path
<1>3. \A x \in chains : table[x[Len(x)]] = END
  BY <1>1 DEF LastOf
<1>4. ASSUME NEW c \in Clusters
      PROVE  Cardinality({p \in (chains \cup torn) \X (1 .. EntryCount) :
                             p[2] <= Len(p[1]) /\ p[1][p[2]] = c})
                = IF table[c] = FREE THEN 0 ELSE 1
  <2> DEFINE S == {p \in (chains \cup torn) \X (1 .. EntryCount) :
                      p[2] <= Len(p[1]) /\ p[1][p[2]] = c}
  <2>1. c \in Taken <=> table[c] # FREE
    BY <1>4, UsedIsTaken DEF Used
  <2>2. Taken = Others
    BY UsedIsTaken
  <2>3. ASSUME NEW p \in S
        PROVE  /\ p = <<p[1], p[2]>> /\ p[1] \in chains \cup torn
               /\ p[2] \in 1 .. Len(p[1]) /\ p[1][p[2]] = c /\ c \in Els(p[1])
    <3>1. /\ p \in (chains \cup torn) \X (1 .. EntryCount)
          /\ p[2] <= Len(p[1]) /\ p[1][p[2]] = c
      BY <2>3
    <3>2. p = <<p[1], p[2]>> /\ p[1] \in chains \cup torn /\ p[2] \in 1 .. EntryCount
      BY <3>1
    <3>3. Len(p[1]) \in Nat
      BY <1>1, <3>2 DEF Path
    <3>4. p[2] \in 1 .. Len(p[1])
      BY <3>1, <3>2, <3>3, Constants
    <3> QED
      BY <3>1, <3>2, <3>4 DEF Els
  <2>4. CASE table[c] = FREE
    <3>1. S = {}
      <4>1. SUFFICES ASSUME NEW p \in S PROVE FALSE
        OBVIOUS
      <4>2. c \in Others
        BY <2>3 DEF Others
      <4> QED
        BY <2>1, <2>2, <2>4, <4>2
    <3> QED
      BY <2>4, <3>1, FS_EmptySet
  <2>5. CASE table[c] # FREE
    <3>1. PICK x \in chains \cup torn : c \in Els(x)
      BY <2>1, <2>2, <2>5 DEF Others
    <3>2. PICK k \in 1 .. Len(x) : x[k] = c
      BY <3>1 DEF Els
    <3>3. Path(table, x) /\ Len(x) \in Nat /\ Len(x) <= EntryCount
      BY <1>1, PathLength DEF Path
    <3>4. <<x, k>> \in S
      <4>1. k \in 1 .. EntryCount /\ k <= Len(x)
        BY <3>3, Constants
      <4> QED
        BY <3>2, <4>1
    <3>5. ASSUME NEW p \in S PROVE p = <<x, k>>
      <4>1. p[1] = x
        BY <1>1, <2>3, <3>1
      <4>2. p[2] = k
        BY <2>3, <3>2, <3>3, <4>1 DEF Path
      <4> QED
        BY <2>3, <4>1, <4>2
    <3>6. S = {<<x, k>>}
      BY <3>4, <3>5
    <3>7. Cardinality(S) = 1
      BY <3>6, FS_Singleton
    <3> QED
      BY <2>5, <3>7
  <2> QED
    BY <2>4, <2>5
<1> QED
  BY <1>2, <1>3, <1>4 DEF Encodes

-----------------------------------------------------------------------------
(* The theorems.                                                           *)

(* Whatever is created, grown and shrunk, the window is a faithful part of *)
(* the table, the chains are disjoint paths in it, and every search starts *)
(* where nothing free is behind it, unless the last one has failed         *)
(* (fat.c:64-191).                                                         *)
THEOREM FatInvariant == ASSUME Slotted, Roomy PROVE Spec => []FInv
<1>1. Init => FInv
  BY InitHolds
<1>2. FInv /\ [Next]_vars => FInv'
  BY NextKeeps
<1> QED
  BY <1>1, <1>2, PTL DEF Spec

(* Every entry reads as the value last given to fatsetcluster, and after   *)
(* fatcommit every copy on the disk is the table (fat.c:64-128).           *)
THEOREM FatCoherent == ASSUME Slotted, Roomy PROVE Spec => []Coherent
<1>1. FInv => Coherent
  BY CoherentHolds
<1> QED
  BY <1>1, FatInvariant, PTL

(* Between calls every chain ends, no cluster is in two places, and none   *)
(* is lost, though a search that fails costs a chain its last cluster      *)
(* (fat.c:152-191).                                                        *)
THEOREM FatChainsIntact == ASSUME Slotted, Roomy PROVE Spec => []ChainsIntact
<1>1. FInv => ChainsIntact
  BY TypeOKHolds, EncodesHolds DEF ChainsIntact
<1> QED
  BY <1>1, FatInvariant, PTL

(* "start where we are certain there is nothing open behind" (fat.c:130).  *)
THEOREM FatNothingFreeBehind == ASSUME Slotted, Roomy PROVE Spec => []NothingFreeBehind
<1>1. FInv => NothingFreeBehind
  BY NothingFreeBehindHolds
<1> QED
  BY <1>1, FatInvariant, PTL

(* fatdeallocclusters leaves the cluster it was given as the end of its    *)
(* chain (fat.h:39) if the window is read where it is written.             *)
THEOREM FatDeallocEndsChain == ASSUME Slotted, Roomy PROVE Spec => DeallocEndsChain
<1>1. ASSUME FInv, [Next]_vars PROVE [pc = "commit" /\ first # 0 => disk'[1][first] = END]_vars
  <2>1. SUFFICES ASSUME Next, pc = "commit", first # 0 PROVE disk'[1][first] = END
    BY <1>1
  <2>2. Commit
    <3>1. Wanted = {}
      BY <2>1 DEF Wanted
    <3> QED
      BY <2>1, <3>1 DEF Next, Call, Step, Create, Grow, Shrink, MoveWindow, FindStep, FindFail,
         Finding, CreateEnd, CreateFails, Link, SealGrown, ShrinkStart, FreeStep, SealShrunk
  <2>3. disk' = Committed
    BY <2>2 DEF Commit, fatcommit
  <2>4. Committed[1] = table
    BY <1>1, CommittedIs, Constants DEF FInv, Copies
  <2>5. table[first] = END
    BY <1>1, <2>1 DEF FInv, Phase
  <2> QED
    BY <2>3, <2>4, <2>5
<1> QED
  BY <1>1, FatInvariant, PTL DEF Spec, DeallocEndsChain
=============================================================================
