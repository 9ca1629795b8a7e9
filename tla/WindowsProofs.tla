---------------------------- MODULE WindowsProofs ----------------------------
(***************************************************************************)
(* Proofs about Windows, for every value of its constants: every window is *)
(* found by its number, the one on the screen alone counts as visible,     *)
(* each has the input line its option says, of the width of the screen,    *)
(* the status window shows a room as long as there is a connection, and    *)
(* going through the windows reaches every one that is not to be skipped.  *)
(*                                                                         *)
(* The operators of the module are given the list and the windows, so that *)
(* the lemmas are about any list r and any windows w.                      *)
(***************************************************************************)
EXTENDS Windows, ListLemmas, FiniteSetTheorems

\* The list is in the order of the numbers of its windows, each one once.
Numbered(r, w) ==
    /\ \A k \in 1 .. Len(r) : w[r[k]].ref \in Nat
    /\ \A j, k \in 1 .. Len(r) : j < k => w[r[j]].ref < w[r[k]].ref

\* What a window is.
WinType ==
    [ref : Nat, type : {"status", "query"}, owner : {"null", "acct"},
     target : Targets \cup {""}, skip : BOOLEAN, visible : BOOLEAN, cols : Widths,
     priv : BOOLEAN, input : {0} \cup Widths, data : 0 .. MaxRooms]

\* Its columns and its input line.
Fits(x, co) ==
    /\ x.cols = co
    /\ x.priv = (x.input # 0)
    /\ x.input # 0 => x.input = co

\* A list r and windows w of a screen that is co wide: the list holds exactly
\* the windows there are, in order, and the status window is one of them.
ListInv(r, w, co) ==
    /\ r \in Seq(Nodes) /\ w \in [Nodes -> WinType \cup {None}]
    /\ Numbered(r, w)
    /\ \A id \in Nodes : w[id] # None <=> id \in ToSet(r)
    /\ w[Status].type = "status"
    /\ \A id \in ToSet(r) : Fits(w[id], co)

\* The window c alone is visible.
VisibleInv(r, w, c) == c \in ToSet(r) /\ \A id \in ToSet(r) : w[id].visible = (id = c)

\* The room of the status window; once the account is gone the list of rooms
\* does not matter.
RoomInv ==
    /\ acct \in {"none", "offline", "online", "freed"}
    /\ acct = "freed" => win[Status].data = 0
    /\ acct # "freed" =>
         /\ rooms \in Seq(Nat)
         /\ win[Status].data # 0 => rooms # <<>> /\ win[Status].data = Head(rooms)
         /\ acct = "online" => win[Status].data # 0

IInv ==
    /\ ListInv(ring, win, cols)
    /\ cur \in Nodes /\ cols \in Widths /\ shared \in Widths
    /\ private \in BOOLEAN /\ ok \in BOOLEAN
    /\ ok => VisibleInv(ring, win, cur)
    /\ RoomInv

-----------------------------------------------------------------------------
(***************************************************************************)
(* The list                                                                *)
(***************************************************************************)

\* What is in a list of nodes.
LEMMA RingType ==
    ASSUME NEW r \in Seq(Nodes)
    PROVE  /\ Len(r) \in Nat /\ DOMAIN r = 1 .. Len(r)
           /\ \A k \in 1 .. Len(r) : r[k] \in Nodes /\ r[k] \in ToSet(r)
           /\ \A x \in ToSet(r) : x \in Nodes /\ \E k \in 1 .. Len(r) : r[k] = x
<1>1. Len(r) \in Nat /\ DOMAIN r = 1 .. Len(r)
  OBVIOUS
<1>2. \A k \in 1 .. Len(r) : r[k] \in Nodes
  BY ElementOfSeq
<1>. QED  BY <1>1, <1>2 DEF ToSet

\* screen_find_refnum returns a window with that number, or nothing.
LEMMA PlaceRange ==
    ASSUME NEW r \in Seq(Nodes), NEW w, NEW n
    PROVE  /\ Place(r, w, n) \in 0 .. Len(r)
           /\ Place(r, w, n) # 0 => w[r[Place(r, w, n)]].ref = n
<1> DEFINE I == {i \in 1 .. Len(r) : w[r[i]].ref >= n}
<1>1. Len(r) \in Nat /\ I \in SUBSET Nat /\ I \in SUBSET (1 .. Len(r))
  OBVIOUS
<1>2. SelectInSeq(r, LAMBDA id : w[id].ref >= n) = IF I # {} THEN Min(I) ELSE 0
  BY DEF SelectInSeq
<1>. HIDE DEF I
<1>3. I # {} => Min(I) \in 1 .. Len(r)
  BY <1>1, MinOf
<1> DEFINE upTo == SelectInSeq(r, LAMBDA id : w[id].ref >= n)
<1>4. Place(r, w, n) = IF upTo # 0 /\ w[r[upTo]].ref = n THEN upTo ELSE 0
  BY DEF Place
<1>5. upTo \in 0 .. Len(r)
  BY <1>1, <1>2, <1>3
<1>. HIDE DEF upTo
<1>. QED  BY <1>1, <1>4, <1>5

\* In a list in order it returns the window that has the number, if one has.
LEMMA PlaceFinds ==
    ASSUME NEW r \in Seq(Nodes), NEW w, Numbered(r, w), NEW k \in 1 .. Len(r)
    PROVE  Place(r, w, w[r[k]].ref) = k
<1> DEFINE n == w[r[k]].ref
           I == {i \in 1 .. Len(r) : w[r[i]].ref >= n}
<1>1. Len(r) \in Nat /\ I \in SUBSET Nat /\ I \in SUBSET (1 .. Len(r))
  OBVIOUS
<1>2. SelectInSeq(r, LAMBDA id : w[id].ref >= n) = IF I # {} THEN Min(I) ELSE 0
  BY DEF SelectInSeq
<1>3. k \in I /\ \A i \in I : k <= i
  BY <1>1 DEF Numbered
<1>. HIDE DEF I
<1>4. Min(I) = k
  <2>1. Min(I) \in I /\ Min(I) <= k
    BY <1>1, <1>3, MinOf
  <2>2. Min(I) \in 1 .. Len(r) /\ k <= Min(I)
    BY <2>1, <1>1, <1>3
  <2>. QED  BY <2>1, <2>2
<1>. QED  BY <1>1, <1>2, <1>3, <1>4 DEF Place

\* A number that is not found is no window's.
LEMMA PlaceMisses ==
    ASSUME NEW r \in Seq(Nodes), NEW w, Numbered(r, w), NEW n, Place(r, w, n) = 0
    PROVE  \A k \in 1 .. Len(r) : w[r[k]].ref # n
<1>1. ASSUME NEW k \in 1 .. Len(r), w[r[k]].ref = n PROVE FALSE
  <2>1. Place(r, w, n) = k
    BY <1>1, PlaceFinds
  <2>. QED  BY <2>1
<1>. QED  BY <1>1

\* No two places hold the same window.
LEMMA NumberedOnce ==
    ASSUME NEW r \in Seq(Nodes), NEW w, Numbered(r, w),
           NEW j \in 1 .. Len(r), NEW k \in 1 .. Len(r), w[r[j]].ref = w[r[k]].ref
    PROVE  j = k
  BY DEF Numbered

\* Only the numbers count.
LEMMA NumberedSame ==
    ASSUME NEW r \in Seq(Nodes), NEW w, NEW v, Numbered(r, w),
           \A x \in ToSet(r) : v[x].ref = w[x].ref
    PROVE  Numbered(r, v)
<1>1. \A k \in 1 .. Len(r) : v[r[k]].ref = w[r[k]].ref
  BY RingType
<1>. QED  BY <1>1 DEF Numbered

\* screen_window_list_add puts a window with a number of its own in its place.
LEMMA AddedNumbered ==
    ASSUME NEW r \in Seq(Nodes), NEW w, Numbered(r, w), NEW id \in Nodes, w[id].ref \in Nat,
           \A k \in 1 .. Len(r) : w[r[k]].ref # w[id].ref
    PROVE  /\ Added(r, w, id) \in Seq(Nodes) /\ Numbered(Added(r, w, id), w)
           /\ ToSet(Added(r, w, id)) = ToSet(r) \cup {id}
<1> DEFINE I == {i \in 1 .. Len(r) : w[id].ref < w[r[i]].ref}
           a == Added(r, w, id)
<1>1. Len(r) \in Nat /\ I \in SUBSET Nat /\ I \in SUBSET (1 .. Len(r)) /\ DOMAIN r = 1 .. Len(r)
  OBVIOUS
<1>2. SelectInSeq(r, LAMBDA o : w[id].ref < w[o].ref) = IF I # {} THEN Min(I) ELSE 0
  BY DEF SelectInSeq
<1>3. \A k \in 1 .. Len(r) : w[r[k]].ref \in Nat
  BY DEF Numbered
<1>4. PICK i \in 1 .. Len(r) + 1 :
         /\ \A k \in 1 .. i - 1 : w[r[k]].ref < w[id].ref
         /\ \A k \in i .. Len(r) : w[id].ref < w[r[k]].ref
         /\ a \in Seq(Nodes) /\ Len(a) = Len(r) + 1
         /\ \A j \in 1 .. Len(r) + 1 : a[j] = IF j < i THEN r[j] ELSE IF j = i THEN id ELSE r[j - 1]
  <2>1. CASE I = {}
    <3>1. a = Append(r, id)
      BY <1>2, <2>1 DEF Added
    <3>2. \A k \in 1 .. Len(r) : w[r[k]].ref < w[id].ref
      BY <1>1, <1>3, <2>1
    <3>. HIDE DEF a, I
    <3>. QED  BY <1>1, <3>1, <3>2
  <2>2. CASE I # {}
    <3> DEFINE m == Min(I)
    <3>. HIDE DEF I
    <3>1. m \in I /\ \A y \in I : m <= y
      BY <1>1, <2>2, MinOf
    <3>2. m \in 1 .. Len(r) /\ m # 0
      <4>. HIDE DEF m
      <4>1. m \in 1 .. Len(r)
        BY <1>1, <3>1
      <4>. QED  BY <4>1
    <3>3. a = InsertAt(r, m, id)
      BY <1>2, <2>2, <3>2 DEF Added
    <3>. HIDE DEF a, m
    <3>4. \A k \in 1 .. m - 1 : w[r[k]].ref < w[id].ref
      <4>1. \A k \in 1 .. m - 1 : k \in 1 .. Len(r) /\ k \notin I
        BY <1>1, <3>1, <3>2
      <4>. QED  BY <4>1, <1>3 DEF I
    <3>5. \A k \in m .. Len(r) : w[id].ref < w[r[k]].ref
      <4>1. w[id].ref < w[r[m]].ref
        BY <3>1 DEF I
      <4>. QED  BY <4>1, <1>1, <1>3, <3>2 DEF Numbered
    <3>6. /\ a \in Seq(Nodes) /\ Len(a) = Len(r) + 1
          /\ \A j \in 1 .. Len(r) + 1 : a[j] = IF j < m THEN r[j] ELSE IF j = m THEN id ELSE r[j - 1]
      <4>1. /\ InsertAt(r, m, id) \in Seq(Nodes) /\ Len(InsertAt(r, m, id)) = Len(r) + 1
            /\ \A j \in 1 .. Len(r) + 1 :
                  InsertAt(r, m, id)[j] = IF j < m THEN r[j] ELSE IF j = m THEN id ELSE r[j - 1]
        BY <3>2, InsertAtSeq, SMTT(30)
      <4>. QED  BY <3>3, <4>1, Zenon
    <3>7. m \in 1 .. Len(r) + 1
      BY <1>1, <3>2
    <3>. QED  BY <3>4, <3>5, <3>6, <3>7, ZenonT(30)
  <2>. QED  BY <2>1, <2>2
<1>. HIDE DEF a, I
<1>5. Numbered(a, w)
  <2>1. ASSUME NEW j \in 1 .. Len(a) PROVE w[a[j]].ref \in Nat
    BY <1>1, <1>3, <1>4
  <2>2. ASSUME NEW j \in 1 .. Len(a), NEW k \in 1 .. Len(a), j < k
        PROVE  w[a[j]].ref < w[a[k]].ref
    <3>1. CASE k < i
      <4>1. a[j] = r[j] /\ a[k] = r[k] /\ j \in 1 .. Len(r) /\ k \in 1 .. Len(r)
        BY <3>1, <2>2, <1>1, <1>4
      <4>. QED  BY <4>1, <2>2 DEF Numbered
    <3>2. CASE k = i
      <4>1. a[j] = r[j] /\ a[k] = id /\ j \in 1 .. i - 1
        BY <3>2, <2>2, <1>1, <1>4
      <4>. QED  BY <4>1, <1>4
    <3>3. CASE k > i /\ j = i
      <4>1. a[j] = id /\ a[k] = r[k - 1] /\ k - 1 \in i .. Len(r)
        BY <3>3, <2>2, <1>1, <1>4, SMTT(30)
      <4>. QED  BY <4>1, <1>4
    <3>4. CASE k > i /\ j < i
      <4>1. a[j] = r[j] /\ a[k] = r[k - 1] /\ j \in 1 .. Len(r) /\ k - 1 \in 1 .. Len(r) /\ j < k - 1
        BY <3>4, <2>2, <1>1, <1>4
      <4>. QED  BY <4>1 DEF Numbered
    <3>5. CASE k > i /\ j > i
      <4>1. /\ a[j] = r[j - 1] /\ a[k] = r[k - 1] /\ j - 1 < k - 1
            /\ j - 1 \in 1 .. Len(r) /\ k - 1 \in 1 .. Len(r)
        BY <3>5, <2>2, <1>1, <1>4
      <4>. QED  BY <4>1 DEF Numbered
    <3>. QED  BY <3>1, <3>2, <3>3, <3>4, <3>5, <2>2, <1>1, <1>4, SMTT(30)
  <2>. QED  BY <2>1, <2>2 DEF Numbered
<1>6. ToSet(a) = ToSet(r) \cup {id}
  <2>1. ASSUME NEW x \in ToSet(a) PROVE x \in ToSet(r) \cup {id}
    <3>1. PICK j \in 1 .. Len(r) + 1 : a[j] = x
      BY SMTT(30), <1>4, RingType
    <3>2. x = id \/ \E k \in 1 .. Len(r) : x = r[k]
      BY SMTT(30), <3>1, <1>1, <1>4
    <3>. QED  BY <3>2, <1>1 DEF ToSet
  <2>2. ASSUME NEW x \in ToSet(r) PROVE x \in ToSet(a)
    <3>1. PICK k \in 1 .. Len(r) : r[k] = x
      BY RingType
    <3>2. a[k] = x \/ a[k + 1] = x
      BY <3>1, <1>1, <1>4
    <3>3. k \in 1 .. Len(a) /\ k + 1 \in 1 .. Len(a)
      BY <1>1, <1>4
    <3>. QED  BY <3>2, <3>3, <1>4, RingType
  <2>3. id \in ToSet(a)
    <3>1. i \in 1 .. Len(a) /\ a[i] = id
      BY <1>1, <1>4
    <3>. QED  BY <3>1, <1>4, RingType
  <2>. QED  BY <2>1, <2>2, <2>3
<1>. QED  BY <1>4, <1>5, <1>6 DEF a

\* screen_window_list_remove takes that window out and no other.
LEMMA RemovedNumbered ==
    ASSUME NEW r \in Seq(Nodes), NEW w, Numbered(r, w), NEW id \in ToSet(r)
    PROVE  /\ Removed(r, id) \in Seq(Nodes) /\ Numbered(Removed(r, id), w)
           /\ ToSet(Removed(r, id)) = ToSet(r) \ {id}
<1> DEFINE I == {i \in 1 .. Len(r) : r[i] = id}
           a == Removed(r, id)
           m == Min(I)
<1>1. /\ Len(r) \in Nat /\ I \in SUBSET Nat /\ I \in SUBSET (1 .. Len(r)) /\ DOMAIN r = 1 .. Len(r)
      /\ I # {}
  BY RingType
<1>2. SelectInSeq(r, LAMBDA o : o = id) = m /\ \E i \in 1 .. Len(r) : r[i] = id
  BY <1>1 DEF SelectInSeq
<1>3. m \in 1 .. Len(r) /\ r[m] = id
  <2>1. m \in I
    <3>. HIDE DEF I
    <3>. QED  BY <1>1, MinOf
  <2>. QED  BY <2>1
<1>4. a = RemoveAt(r, m)
  BY <1>2 DEF Removed, RemoveFirst
<1>. HIDE DEF a, m, I
<1>5. /\ a \in Seq(Nodes) /\ Len(a) = Len(r) - 1
      /\ \A j \in 1 .. Len(r) - 1 : a[j] = IF j < m THEN r[j] ELSE r[j + 1]
  BY <1>3, <1>4, RemoveAtSeq
<1>6. \A k \in 1 .. Len(r) : r[k] = id => k = m
  BY <1>1, <1>3, NumberedOnce
<1>7. \A j \in 1 .. Len(a) : \E k \in 1 .. Len(r) : a[j] = r[k] /\ k # m /\ (IF j < m THEN k = j ELSE k = j + 1)
  BY <1>1, <1>3, <1>5
<1>8. Numbered(a, w)
  <2>1. ASSUME NEW j \in 1 .. Len(a) PROVE w[a[j]].ref \in Nat
    BY <1>7 DEF Numbered
  <2>2. ASSUME NEW j \in 1 .. Len(a), NEW k \in 1 .. Len(a), j < k
        PROVE  w[a[j]].ref < w[a[k]].ref
    <3>1. PICK j1 \in 1 .. Len(r) : a[j] = r[j1] /\ (IF j < m THEN j1 = j ELSE j1 = j + 1)
      BY <1>7
    <3>2. PICK k1 \in 1 .. Len(r) : a[k] = r[k1] /\ (IF k < m THEN k1 = k ELSE k1 = k + 1)
      BY <1>7
    <3>3. j1 < k1
      BY <3>1, <3>2, <2>2, <1>1, <1>3, <1>5
    <3>. QED  BY <3>1, <3>2, <3>3 DEF Numbered
  <2>. QED  BY <2>1, <2>2 DEF Numbered
<1>9. ToSet(a) = ToSet(r) \ {id}
  <2>1. ASSUME NEW x \in ToSet(a) PROVE x \in ToSet(r) \ {id}
    <3>1. PICK j \in 1 .. Len(a) : a[j] = x
      BY <1>5, RingType
    <3>2. PICK k \in 1 .. Len(r) : x = r[k] /\ k # m
      BY <3>1, <1>7
    <3>. QED  BY <3>2, <1>6, RingType
  <2>2. ASSUME NEW x \in ToSet(r), x # id PROVE x \in ToSet(a)
    <3>1. PICK k \in 1 .. Len(r) : r[k] = x
      BY RingType
    <3>2. k # m
      BY <3>1, <2>2, <1>3
    <3>3. \E j \in 1 .. Len(a) : a[j] = x
      <4>1. CASE k < m
        <5>1. k \in 1 .. Len(r) - 1 /\ a[k] = r[k]
          BY <4>1, <1>1, <1>3, <1>5
        <5>. QED  BY <5>1, <3>1, <1>5
      <4>2. CASE k > m
        <5>1. k - 1 \in 1 .. Len(r) - 1 /\ a[k - 1] = r[k - 1 + 1] /\ k - 1 + 1 = k
          BY <4>2, <1>1, <1>3, <1>5
        <5>. QED  BY <5>1, <3>1, <1>5
      <4>. QED  BY <4>1, <4>2, <3>2, <1>1, <1>3
    <3>. QED  BY <3>3, <1>5, RingType
  <2>. QED  BY <2>1, <2>2
<1>. QED  BY <1>5, <1>8, <1>9 DEF a

\* screen_get_new_refnum finds a number that is no window's: there are more
\* numbers to try than windows.
LEMMA NewRefnumFree ==
    ASSUME ring \in Seq(Nodes), Numbered(ring, win)
    PROVE  NewRefnum \in Nat /\ \A k \in 1 .. Len(ring) : win[ring[k]].ref # NewRefnum
<1> DEFINE S == 1 .. MaxWindows + 1
           F == {n \in S : Place(ring, win, n) = 0}
           f == [n \in S |-> ring[Place(ring, win, n)]]
<1>1. MaxWindows \in Nat /\ F \in SUBSET Nat
  BY WindowsAssumption
<1>2. F # {}
  <2>. SUFFICES ASSUME F = {} PROVE FALSE
    OBVIOUS
  <2>1. ASSUME NEW n \in S
        PROVE  Place(ring, win, n) \in 1 .. Len(ring) /\ win[ring[Place(ring, win, n)]].ref = n
    <3>1. Place(ring, win, n) # 0
      OBVIOUS
    <3>2. Place(ring, win, n) \in 0 .. Len(ring)
      BY PlaceRange
    <3>3. win[ring[Place(ring, win, n)]].ref = n
      BY <3>1, PlaceRange
    <3>. QED  BY <3>1, <3>2, <3>3, RingType
  <2>2. f \in [S -> Nodes]
    BY <2>1, RingType
  <2>3. \A n \in S : win[f[n]].ref = n
    BY <2>1
  <2>4. /\ IsFiniteSet(S) /\ Cardinality(S) = MaxWindows + 1
        /\ IsFiniteSet(Nodes) /\ Cardinality(Nodes) = MaxWindows
    BY <1>1, FS_Interval DEF Nodes
  <2>. HIDE DEF f, S
  <2>5. \E x, y \in S : x # y /\ f[x] = f[y]
    BY <1>1, <2>2, <2>4, FS_PigeonHole
  <2>. QED  BY <2>3, <2>5
<1>3. \E n \in S : Place(ring, win, n) = 0 /\ \A m \in 1 .. n - 1 : Place(ring, win, m) # 0
  <2> DEFINE n == Min(F)
  <2>1. n \in F /\ \A y \in F : n <= y
    <3>. HIDE DEF F
    <3>. QED  BY <1>1, <1>2, MinOf
  <2>2. n \in S /\ Place(ring, win, n) = 0
    BY <2>1
  <2>3. \A m \in 1 .. n - 1 : m \in S /\ m \notin F
    <3>. HIDE DEF n
    <3>1. \A m \in 1 .. n - 1 : m \in S /\ ~(n <= m)
      BY <1>1, <2>2
    <3>. QED  BY <2>1, <3>1
  <2>4. \A m \in 1 .. n - 1 : Place(ring, win, m) # 0
    BY <2>3
  <2>. HIDE DEF n
  <2>. QED  BY <2>2, <2>4
<1>4. NewRefnum \in S /\ Place(ring, win, NewRefnum) = 0
  BY <1>3 DEF NewRefnum
<1>. HIDE DEF F, f
<1>. QED  BY <1>1, <1>4, PlaceMisses

\* screen_cycle_fwd and screen_cycle_bak end at a window of the list.
LEMMA StepFromListed ==
    ASSUME NEW r \in Seq(Nodes), NEW w, NEW at \in 1 .. Len(r), NEW d \in {1, -1}
    PROVE  StepFrom(r, w, at, d) \in ToSet(r)
<1> DEFINE n == Len(r)
           to(k) == r[((at - 1 + d * k) % n) + 1]
           P(k) == /\ ~w[to(k)].skip \/ k = n
                   /\ \A j \in 1 .. k - 1 : w[to(j)].skip
           K == {k \in 1 .. n : ~w[to(k)].skip \/ k = n}
<1>1. n \in Nat /\ n > 0 /\ K \in SUBSET Nat /\ n \in K
  OBVIOUS
<1>2. \E k \in 1 .. n : P(k)
  <2> DEFINE m == Min(K)
  <2>1. m \in K /\ \A y \in K : m <= y
    <3>. HIDE DEF K
    <3>. QED  BY SMTT(30), <1>1, MinOf
  <2>2. m \in 1 .. n /\ (~w[to(m)].skip \/ m = n)
    BY <2>1
  <2>3. \A j \in 1 .. m - 1 : j \in 1 .. n /\ j \notin K
    <3>. HIDE DEF m, K
    <3>. QED  BY <1>1, <2>1, <2>2
  <2>4. \A j \in 1 .. m - 1 : w[to(j)].skip
    BY <2>3
  <2>. HIDE DEF m, to
  <2>. QED  BY <2>2, <2>4
<1>3. ASSUME NEW k \in 1 .. n PROVE to(k) \in ToSet(r)
  <2>1. (at - 1 + d * k) \in Int
    BY <1>1
  <2>. HIDE DEF n
  <2>2. \A x \in Int : (x % n) + 1 \in 1 .. n
    BY <1>1
  <2>3. ((at - 1 + d * k) % n) + 1 \in 1 .. n
    BY <2>1, <2>2
  <2>. QED  BY <2>3, RingType DEF n
<1>4. StepFrom(r, w, at, d) = to(CHOOSE k \in 1 .. n : P(k))
  BY DEF StepFrom
<1>. HIDE DEF P, to
<1>5. (CHOOSE k \in 1 .. n : P(k)) \in 1 .. n
  BY <1>2
<1>. QED  BY <1>3, <1>4, <1>5

\* /win next and /win prev therefore do.
LEMMA CycledListed ==
    ASSUME ring \in Seq(Nodes), cur \in ToSet(ring), NEW d \in {1, -1}
    PROVE  Cycled(d) \in ToSet(ring)
<1> DEFINE I == {i \in 1 .. Len(ring) : ring[i] = cur}
<1>1. I \in SUBSET Nat /\ I \in SUBSET (1 .. Len(ring)) /\ I # {}
  BY RingType
<1>2. SelectInSeq(ring, LAMBDA id : id = cur) = Min(I)
  BY <1>1 DEF SelectInSeq
<1>. HIDE DEF I
<1>3. Min(I) \in 1 .. Len(ring)
  BY <1>1, MinOf
<1>. QED  BY <1>2, <1>3, StepFromListed DEF Cycled

-----------------------------------------------------------------------------
(***************************************************************************)
(* The windows                                                             *)
(***************************************************************************)

\* A node holds a window or nothing.
LEMMA WindowThere ==
    ASSUME NEW w \in [Nodes -> WinType \cup {None}]
    PROVE  \A id \in Nodes : w[id] # None <=> w[id] \in WinType
  BY DEF WinType, None

LEMMA WindowIsThere == \A y \in WinType : y # None
<1>1. \A y \in WinType : y.type # "none"
  BY DEF WinType
<1>. QED  BY <1>1 DEF None

LEMMA StatusNode == Status \in Nodes
  BY WindowsAssumption DEF Status, Nodes

\* The windows of a list, and the status window among them.
LEMMA ListedWindows ==
    ASSUME NEW r, NEW w, NEW co, ListInv(r, w, co)
    PROVE  /\ \A id \in ToSet(r) : id \in Nodes /\ w[id] \in WinType /\ w[id] # None
           /\ Status \in ToSet(r)
<1>1. \A id \in ToSet(r) : id \in Nodes
  BY RingType DEF ListInv
<1>2. w[Status] # None
  BY DEF ListInv, None
<1>. QED  BY <1>1, <1>2, WindowThere, StatusNode DEF ListInv

\* Windows that change in place keep the list right if each keeps its number
\* and its kind and fits the screen.
LEMMA ChangedInPlace ==
    ASSUME NEW r, NEW w, NEW co, ListInv(r, w, co), NEW v, NEW co2,
           v \in [Nodes -> WinType \cup {None}],
           \A id \in Nodes : v[id] # None <=> w[id] # None,
           \A id \in ToSet(r) : /\ v[id].ref = w[id].ref /\ v[id].type = w[id].type
                                 /\ Fits(v[id], co2)
    PROVE  ListInv(r, v, co2)
<1>1. Status \in ToSet(r)
  BY ListedWindows
<1>2. Numbered(r, v)
  BY NumberedSame DEF ListInv
<1>. QED  BY <1>1, <1>2 DEF ListInv

\* A window that becomes visible or is left keeps the rest.
SetVisible(y, b) == [y EXCEPT !.visible = b]
LEMMA VisibleSet ==
    ASSUME NEW y \in WinType, NEW co, Fits(y, co), NEW b \in BOOLEAN
    PROVE  /\ SetVisible(y, b) \in WinType /\ SetVisible(y, b).visible = b
           /\ SetVisible(y, b).ref = y.ref /\ SetVisible(y, b).type = y.type
           /\ SetVisible(y, b).data = y.data /\ Fits(SetVisible(y, b), co)
<1> DEFINE z == SetVisible(y, b)
<1>1. /\ z \in WinType /\ z.visible = b /\ z.ref = y.ref /\ z.type = y.type
      /\ z.data = y.data /\ z.cols = y.cols /\ z.priv = y.priv /\ z.input = y.input
  BY DEF WinType, SetVisible
<1>. HIDE DEF z
<1>2. Fits(z, co)
  BY <1>1 DEF Fits
<1>. QED  BY <1>1, <1>2 DEF z

\* screen_window_swap leaves the window it goes to as the visible one.
LEMMA ShownInv ==
    ASSUME NEW r, NEW w, NEW co, ListInv(r, w, co), NEW c, VisibleInv(r, w, c), NEW x \in ToSet(r)
    PROVE  /\ ListInv(r, Shown(w, c, x), co) /\ VisibleInv(r, Shown(w, c, x), x)
           /\ Shown(w, c, x)[Status].data = w[Status].data
<1> DEFINE v == Shown(w, c, x)
<1>1. c \in ToSet(r)
  BY DEF VisibleInv
<1>2. \A id \in ToSet(r) : id \in Nodes /\ w[id] \in WinType /\ w[id] # None
  BY ListedWindows
<1>3. \A id \in ToSet(r) : w[id].visible = (id = c) /\ Fits(w[id], co)
  BY DEF VisibleInv, ListInv
<1>4. \A id \in Nodes : v[id] = CASE id = x -> [w[id] EXCEPT !.visible = TRUE]
                                  [] id = c /\ id # x -> [w[id] EXCEPT !.visible = FALSE]
                                  [] OTHER -> w[id]
  BY DEF Shown
<1>5. DOMAIN v = Nodes /\ v = [id \in Nodes |-> v[id]]
  BY DEF Shown
<1>. HIDE DEF v
<1>7. ASSUME NEW id \in ToSet(r)
      PROVE  /\ v[id] \in WinType /\ v[id].visible = (id = x)
             /\ v[id].ref = w[id].ref /\ v[id].type = w[id].type /\ v[id].data = w[id].data
             /\ Fits(v[id], co)
  <2>0. w[id] \in WinType /\ Fits(w[id], co) /\ id \in Nodes
    BY <1>2, <1>3
  <2>1. CASE id = x
    <3>1. v[id] = SetVisible(w[id], TRUE)
      BY <2>0, <2>1, <1>4 DEF SetVisible
    <3>2. /\ v[id] \in WinType /\ v[id].visible = TRUE
          /\ v[id].ref = w[id].ref /\ v[id].type = w[id].type /\ v[id].data = w[id].data
          /\ Fits(v[id], co)
      BY <2>0, <3>1, VisibleSet
    <3>. QED  BY <2>1, <3>2
  <2>2. CASE id # x /\ id = c
    <3>1. v[id] = SetVisible(w[id], FALSE)
      BY <2>0, <2>2, <1>4 DEF SetVisible
    <3>2. /\ v[id] \in WinType /\ v[id].visible = FALSE
          /\ v[id].ref = w[id].ref /\ v[id].type = w[id].type /\ v[id].data = w[id].data
          /\ Fits(v[id], co)
      BY <2>0, <3>1, VisibleSet
    <3>. QED  BY <2>2, <3>2
  <2>3. CASE id # x /\ id # c
    BY <2>3, <1>2, <1>3, <1>4
  <2>. QED  BY <2>1, <2>2, <2>3
<1>8. \A id \in Nodes : id \notin ToSet(r) => v[id] = w[id]
  BY <1>1, <1>4
<1>9. w \in [Nodes -> WinType \cup {None}] /\ \A id \in Nodes : w[id] # None <=> id \in ToSet(r)
  BY DEF ListInv
<1>10. \A id \in Nodes : v[id] \in WinType \cup {None}
  BY <1>7, <1>8, <1>9
<1>11. \A id \in Nodes : v[id] # None <=> w[id] # None
  <2>1. \A y \in WinType : y # None
    BY WindowIsThere
  <2>. QED  BY <2>1, <1>2, <1>7, <1>8, <1>9
<1>12. v \in [Nodes -> WinType \cup {None}]
  BY <1>5, <1>10
<1>13. ListInv(r, v, co)
  BY <1>7, <1>11, <1>12, ChangedInPlace
<1>14. VisibleInv(r, v, x)
  BY <1>7 DEF VisibleInv
<1>15. v[Status].data = w[Status].data
  BY <1>7, ListedWindows
<1>. QED  BY <1>13, <1>14, <1>15 DEF v

\* screen_goto_window likewise, whatever number it is given.
LEMMA GotoInv ==
    ASSUME NEW r, NEW w, NEW co, ListInv(r, w, co), VisibleInv(r, w, cur), NEW n, Goto(r, w, n)
    PROVE  /\ ListInv(r, win', co) /\ VisibleInv(r, win', cur')
           /\ win'[Status].data = w[Status].data
<1> DEFINE k == Place(r, w, n)
<1>1. r \in Seq(Nodes)
  BY DEF ListInv
<1>2. k \in 0 .. Len(r)
  BY <1>1, PlaceRange
<1>3. CASE k = 0
  BY <1>3 DEF Goto
<1>4. CASE k # 0
  <2>1. cur' = r[k] /\ win' = Shown(w, cur, r[k])
    BY <1>4 DEF Goto
  <2>. HIDE DEF k
  <2>2. r[k] \in ToSet(r)
    BY <1>1, <1>2, <1>4, RingType
  <2>. QED  BY <2>1, <2>2, ShownInv
<1>. QED  BY <1>3, <1>4
-----------------------------------------------------------------------------
(***************************************************************************)
(* What a command or an event changes in a window, one operator each       *)
(***************************************************************************)

\* A window z like y, but for what the numbers, the rooms and the screen do
\* not depend on.
Alike(z, y, co) ==
    /\ z \in WinType /\ Fits(z, co)
    /\ z.ref = y.ref /\ z.type = y.type /\ z.visible = y.visible /\ z.data = y.data

\* 0 stands for no room.
LEMMA NoRoom == 0 \in 0 .. MaxRooms
  BY WindowsAssumption

\* imwindow_new: a window fits the screen from the start.
Fresh(x, ref, type, co) ==
    /\ x \in WinType /\ Fits(x, co)
    /\ x.ref = ref /\ x.type = type /\ x.visible = FALSE /\ x.data = 0
LEMMA WindowNew ==
    ASSUME NEW ref \in Nat, NEW type \in {"status", "query"}, NEW owner \in {"null", "acct"},
           NEW target \in Targets \cup {""}, NEW co \in Widths, NEW priv \in BOOLEAN
    PROVE  Fresh(NewWindow(ref, type, owner, target, co, priv), ref, type, co)
<1> DEFINE x == NewWindow(ref, type, owner, target, co, priv)
           i == IF priv THEN co ELSE 0
<1>1. x = [ref |-> ref, type |-> type, owner |-> owner, target |-> target, skip |-> FALSE,
           visible |-> FALSE, cols |-> co, priv |-> priv, input |-> i, data |-> 0]
  BY DEF NewWindow
<1>2. co # 0 /\ 0 \in 0 .. MaxRooms
  BY NoRoom, WindowsAssumption
<1>3. i \in {0} \cup Widths /\ priv = (i # 0) /\ (i # 0 => i = co)
  <2>1. CASE priv = TRUE
    BY <1>2, <2>1
  <2>2. CASE priv = FALSE
    BY <1>2, <2>2
  <2>. QED  BY <2>1, <2>2
<1>. HIDE DEF x, i
<1>4. /\ x \in WinType /\ x.cols = co /\ x.priv = priv /\ x.input = i /\ x.ref = ref
      /\ x.type = type /\ x.visible = FALSE /\ x.data = 0
  BY <1>1, <1>2, <1>3 DEF WinType
<1>5. Fits(x, co)
  BY <1>3, <1>4 DEF Fits
<1>. QED  BY <1>4, <1>5 DEF x, Fresh

\* /win skip.
SetSkipOf(y, b) == [y EXCEPT !.skip = b]
LEMMA SkipSet ==
    ASSUME NEW y \in WinType, NEW co, Fits(y, co), NEW b \in BOOLEAN
    PROVE  Alike(SetSkipOf(y, b), y, co)
<1> DEFINE z == SetSkipOf(y, b)
<1>1. /\ z \in WinType /\ z.visible = y.visible /\ z.ref = y.ref /\ z.type = y.type
      /\ z.data = y.data /\ z.cols = y.cols /\ z.priv = y.priv /\ z.input = y.input
  BY DEF WinType, SetSkipOf
<1>. HIDE DEF z
<1>2. Fits(z, co)
  BY <1>1 DEF Fits
<1>. QED  BY <1>1, <1>2 DEF z, Alike

\* The account it is bound to.
SetOwner(y, o) == [y EXCEPT !.owner = o]
LEMMA OwnerSet ==
    ASSUME NEW y \in WinType, NEW co, Fits(y, co), NEW o \in {"null", "acct"}
    PROVE  Alike(SetOwner(y, o), y, co)
<1> DEFINE z == SetOwner(y, o)
<1>1. /\ z \in WinType /\ z.visible = y.visible /\ z.ref = y.ref /\ z.type = y.type
      /\ z.data = y.data /\ z.cols = y.cols /\ z.priv = y.priv /\ z.input = y.input
  BY DEF WinType, SetOwner
<1>. HIDE DEF z
<1>2. Fits(z, co)
  BY <1>1 DEF Fits
<1>. QED  BY <1>1, <1>2 DEF z, Alike

\* imwindow_set_priv_input leaves a window with the line its option says,
\* whatever line it had.
LEMMA InputSet ==
    ASSUME NEW y \in WinType, NEW co \in Widths, Fits(y, co), NEW b \in BOOLEAN
    PROVE  Alike(WithInput(y, b), y, co)
<1> DEFINE z == WithInput(y, b)
           p == [y EXCEPT !.priv = b]
           i == IF b = (y.input # 0) THEN y.input ELSE IF b THEN co ELSE 0
<1>1. /\ p \in WinType /\ p.visible = y.visible /\ p.ref = y.ref /\ p.type = y.type
      /\ p.data = y.data /\ p.cols = y.cols /\ p.priv = b /\ p.input = y.input
  BY DEF WinType
<1>2. y.cols = co /\ y.priv = (y.input # 0) /\ (y.input # 0 => y.input = co)
  BY DEF Fits
<1>3. co # 0
  BY WindowsAssumption
<1>4. z = [p EXCEPT !.input = IF p.priv = (p.input # 0) THEN p.input ELSE IF p.priv THEN p.cols ELSE 0]
  BY <1>1 DEF WithInput, PrivInput, WinType
<1>. HIDE DEF p
<1>5. z = [p EXCEPT !.input = i]
  BY <1>1, <1>2, <1>4
<1>6. /\ i \in {0} \cup Widths /\ b = (i # 0) /\ (i # 0 => i = co)
  <2>1. CASE b = TRUE
    BY <2>1, <1>2, <1>3
  <2>2. CASE b = FALSE
    BY <2>2, <1>2, <1>3
  <2>. QED  BY <2>1, <2>2
<1>. HIDE DEF i, z
<1>7. /\ z \in WinType /\ z.visible = p.visible /\ z.ref = p.ref /\ z.type = p.type
      /\ z.data = p.data /\ z.cols = p.cols /\ z.priv = p.priv /\ z.input = i
  BY <1>1, <1>5, <1>6 DEF WinType
<1>8. Fits(z, co)
  BY <1>1, <1>2, <1>6, <1>7 DEF Fits
<1>. QED  BY <1>1, <1>7, <1>8 DEF z, Alike

\* screen_resize.
SetCols(y, n) == [y EXCEPT !.cols = n, !.input = IF @ = 0 THEN 0 ELSE n]
LEMMA ColsSet ==
    ASSUME NEW y \in WinType, NEW co, Fits(y, co), NEW n \in Widths
    PROVE  Alike(SetCols(y, n), y, n)
<1> DEFINE z == SetCols(y, n)
           i == IF y.input = 0 THEN 0 ELSE n
<1>1. n # 0 /\ i \in {0} \cup Widths /\ (i = 0 <=> y.input = 0) /\ (i # 0 => i = n)
  BY WindowsAssumption
<1>2. z = [y EXCEPT !.cols = n, !.input = i]
  BY DEF SetCols, WinType
<1>. HIDE DEF i, z
<1>3. /\ z \in WinType /\ z.visible = y.visible /\ z.ref = y.ref /\ z.type = y.type
      /\ z.data = y.data /\ z.cols = n /\ z.priv = y.priv /\ z.input = i
  BY <1>1, <1>2 DEF WinType
<1>4. Fits(z, n)
  BY <1>1, <1>3 DEF Fits
<1>. QED  BY <1>3, <1>4 DEF z, Alike

\* A number and a room of its own.
SetRef(y, n) == [y EXCEPT !.ref = n]
LEMMA RefSet ==
    ASSUME NEW y \in WinType, NEW co, Fits(y, co), NEW n \in Nat
    PROVE  /\ SetRef(y, n) \in WinType /\ Fits(SetRef(y, n), co) /\ SetRef(y, n).ref = n
           /\ SetRef(y, n).type = y.type /\ SetRef(y, n).visible = y.visible
           /\ SetRef(y, n).data = y.data
<1> DEFINE z == SetRef(y, n)
<1>1. /\ z \in WinType /\ z.visible = y.visible /\ z.ref = n /\ z.type = y.type
      /\ z.data = y.data /\ z.cols = y.cols /\ z.priv = y.priv /\ z.input = y.input
  BY DEF WinType, SetRef
<1>. HIDE DEF z
<1>2. Fits(z, co)
  BY <1>1 DEF Fits
<1>. QED  BY <1>1, <1>2 DEF z

SetData(y, d) == [y EXCEPT !.data = d]
LEMMA DataSet ==
    ASSUME NEW y \in WinType, NEW co, Fits(y, co), NEW d \in 0 .. MaxRooms
    PROVE  /\ SetData(y, d) \in WinType /\ Fits(SetData(y, d), co) /\ SetData(y, d).data = d
           /\ SetData(y, d).ref = y.ref
           /\ SetData(y, d).type = y.type /\ SetData(y, d).visible = y.visible
<1> DEFINE z == SetData(y, d)
<1>1. /\ z \in WinType /\ z.visible = y.visible /\ z.ref = y.ref /\ z.type = y.type
      /\ z.data = d /\ z.cols = y.cols /\ z.priv = y.priv /\ z.input = y.input
  BY DEF WinType, SetData
<1>. HIDE DEF z
<1>2. Fits(z, co)
  BY <1>1 DEF Fits
<1>. QED  BY <1>1, <1>2 DEF z

\* Windows that stay alike keep the list, the visible window and the room.
LEMMA AlikeInv ==
    ASSUME NEW r, NEW w, NEW co, ListInv(r, w, co), NEW v, NEW co2,
           v = [id \in Nodes |-> v[id]],
           \A id \in Nodes : id \notin ToSet(r) => v[id] = None,
           \A id \in ToSet(r) : Alike(v[id], w[id], co2)
    PROVE  /\ ListInv(r, v, co2) /\ v[Status].data = w[Status].data
           /\ \A c : VisibleInv(r, w, c) => VisibleInv(r, v, c)
<1>1. \A id \in ToSet(r) : /\ v[id] \in WinType /\ Fits(v[id], co2) /\ v[id].ref = w[id].ref
                           /\ v[id].type = w[id].type /\ v[id].visible = w[id].visible
                           /\ v[id].data = w[id].data
  BY DEF Alike
<1>2. \A id \in Nodes : v[id] # None <=> id \in ToSet(r)
  BY <1>1, WindowIsThere
<1>3. v \in [Nodes -> WinType \cup {None}]
  <2>1. \A id \in Nodes : v[id] \in WinType \cup {None}
    BY <1>1
  <2>. QED  BY <2>1
<1>4. \A id \in Nodes : v[id] # None <=> w[id] # None
  BY <1>2 DEF ListInv
<1>5. ListInv(r, v, co2)
  BY <1>1, <1>3, <1>4, ChangedInPlace
<1>6. v[Status].data = w[Status].data
  BY <1>1, ListedWindows
<1>7. \A c : VisibleInv(r, w, c) => VisibleInv(r, v, c)
  BY <1>1 DEF VisibleInv
<1>. QED  BY <1>5, <1>6, <1>7

\* One window that changes, alike.
Put(w, c, y) == [w EXCEPT ![c] = y]
LEMMA OneAlikeInv ==
    ASSUME NEW r, NEW w, NEW co, ListInv(r, w, co), NEW c \in ToSet(r), NEW y, Alike(y, w[c], co),
           NEW v, v = Put(w, c, y)
    PROVE  /\ ListInv(r, v, co) /\ v[Status].data = w[Status].data
           /\ \A x : VisibleInv(r, w, x) => VisibleInv(r, v, x)
<1>1. w \in [Nodes -> WinType \cup {None}] /\ \A id \in Nodes : w[id] # None <=> id \in ToSet(r)
  BY DEF ListInv
<1>2. \A id \in ToSet(r) : id \in Nodes /\ w[id] \in WinType /\ Fits(w[id], co)
  BY ListedWindows DEF ListInv
<1>3. \A id \in Nodes : v[id] = IF id = c THEN y ELSE w[id]
  BY <1>1, <1>2 DEF Put
<1>4. v = [id \in Nodes |-> v[id]]
  BY <1>1, <1>2 DEF Put
<1>5. \A id \in ToSet(r) : Alike(w[id], w[id], co)
  BY <1>2 DEF Alike
<1>6. \A id \in ToSet(r) : Alike(v[id], w[id], co)
  BY <1>2, <1>3, <1>5
<1>7. \A id \in Nodes : id \notin ToSet(r) => v[id] = None
  BY <1>1, <1>3
<1>. QED  BY <1>4, <1>6, <1>7, AlikeInv

\* The room of the status window changes and nothing else.
PutData(w, d) == [w EXCEPT ![Status].data = d]
LEMMA DataInv ==
    ASSUME NEW r, NEW w, NEW co, ListInv(r, w, co), NEW d \in 0 .. MaxRooms,
           NEW v, v = PutData(w, d)
    PROVE  /\ ListInv(r, v, co) /\ v[Status].data = d
           /\ \A x : VisibleInv(r, w, x) => VisibleInv(r, v, x)
<1>1. w \in [Nodes -> WinType \cup {None}] /\ \A id \in Nodes : w[id] # None <=> id \in ToSet(r)
  BY DEF ListInv
<1>2. \A id \in ToSet(r) : id \in Nodes /\ w[id] \in WinType /\ Fits(w[id], co)
  BY ListedWindows DEF ListInv
<1>3. Status \in Nodes /\ Status \in ToSet(r)
  BY ListedWindows, StatusNode
<1>4. v = [w EXCEPT ![Status] = SetData(w[Status], d)]
  BY DEF SetData, PutData
<1>5. \A id \in Nodes : v[id] = IF id = Status THEN SetData(w[Status], d) ELSE w[id]
  BY <1>1, <1>3, <1>4
<1>6. v = [id \in Nodes |-> v[id]]
  BY <1>1, <1>4
<1>7. /\ v[Status] \in WinType /\ Fits(v[Status], co) /\ v[Status].data = d
      /\ v[Status].ref = w[Status].ref /\ v[Status].type = w[Status].type
      /\ v[Status].visible = w[Status].visible
  <2>1. w[Status] \in WinType /\ Fits(w[Status], co) /\ v[Status] = SetData(w[Status], d)
    BY <1>2, <1>3, <1>5
  <2>. QED  BY <2>1, DataSet
<1>8. \A id \in ToSet(r) : /\ v[id] \in WinType /\ Fits(v[id], co) /\ v[id].ref = w[id].ref
                           /\ v[id].type = w[id].type /\ v[id].visible = w[id].visible
  BY <1>2, <1>5, <1>7
<1>9. \A id \in Nodes : v[id] # None <=> w[id] # None
  <2>1. \A id \in Nodes : id \notin ToSet(r) => v[id] = w[id]
    BY <1>3, <1>5
  <2>. QED  BY <1>1, <1>8, <2>1, WindowIsThere
<1>10. v \in [Nodes -> WinType \cup {None}]
  <2>1. \A id \in Nodes : v[id] \in WinType \cup {None}
    BY <1>1, <1>3, <1>5, <1>7
  <2>. QED  BY <1>6, <2>1
<1>11. ListInv(r, v, co)
  BY <1>8, <1>9, <1>10, ChangedInPlace
<1>12. \A x : VisibleInv(r, w, x) => VisibleInv(r, v, x)
  BY <1>8 DEF VisibleInv
<1>. QED  BY <1>7, <1>11, <1>12

-----------------------------------------------------------------------------
(***************************************************************************)
(* The initial state and the steps                                         *)
(***************************************************************************)

LEMMA InitInv == Init => IInv
<1>. SUFFICES ASSUME Init PROVE IInv
  OBVIOUS
<1> DEFINE y == [NewWindow(1, "status", "null", "", cols, FALSE) EXCEPT !.visible = TRUE]
<1>1. /\ y \in WinType /\ y.type = "status" /\ y.ref = 1 /\ y.visible = TRUE /\ y.data = 0
      /\ Fits(y, cols)
  <2> DEFINE x == NewWindow(1, "status", "null", "", cols, FALSE)
  <2>1. /\ cols \in Widths /\ 1 \in Nat /\ FALSE \in BOOLEAN /\ "" \in Targets \cup {""}
        /\ "status" \in {"status", "query"} /\ "null" \in {"null", "acct"}
    BY DEF Init
  <2>2. Fresh(x, 1, "status", cols)
    BY <2>1, WindowNew
  <2>3. y = SetVisible(x, TRUE)
    BY DEF SetVisible
  <2>. HIDE DEF x, y
  <2>. QED  BY <2>2, <2>3, VisibleSet DEF Fresh
<1>2. win = [n \in Nodes |-> IF n = Status THEN y ELSE None] /\ ring = <<Status>> /\ cur = Status
  BY DEF Init
<1>. HIDE DEF y
<1>3. win[Status] = y /\ \A id \in Nodes : id # Status => win[id] = None
  BY <1>2, StatusNode
<1>4. /\ ring \in Seq(Nodes) /\ Len(ring) = 1 /\ ring[1] = Status /\ ToSet(ring) = {Status}
  BY <1>2, StatusNode DEF ToSet
<1>5. Numbered(ring, win)
  BY <1>1, <1>3, <1>4 DEF Numbered
<1>6. win \in [Nodes -> WinType \cup {None}]
  BY <1>1, <1>2
<1>7. \A id \in Nodes : win[id] # None <=> id \in ToSet(ring)
  BY <1>1, <1>3, <1>4, WindowIsThere
<1>8. ListInv(ring, win, cols)
  BY <1>1, <1>3, <1>4, <1>5, <1>6, <1>7 DEF ListInv
<1>9. VisibleInv(ring, win, cur)
  BY <1>1, <1>2, <1>3, <1>4 DEF VisibleInv
<1>10. RoomInv
  <2>1. acct = "none" /\ rooms = <<>> /\ win[Status].data = 0
    BY <1>1, <1>3 DEF Init
  <2>. QED  BY <2>1 DEF RoomInv
<1>. QED  BY <1>2, <1>8, <1>9, <1>10, StatusNode DEF IInv, Init

\* /win next and /win prev.
LEMMA CycleInv == ASSUME IInv, NEW d \in {1, -1}, Cycle(d) PROVE IInv'
<1>1. ok /\ ListInv(ring, win, cols) /\ VisibleInv(ring, win, cur)
  BY DEF IInv, Cycle, Running
<1>2. Cycled(d) \in ToSet(ring)
  BY <1>1, CycledListed DEF ListInv, VisibleInv
<1>3. /\ ListInv(ring, win', cols) /\ VisibleInv(ring, win', cur')
      /\ win'[Status].data = win[Status].data
  BY <1>1, <1>2, ShownInv DEF Cycle
<1>4. cur' \in Nodes
  BY <1>2, <1>1, ListedWindows DEF Cycle
<1>. QED  BY <1>3, <1>4 DEF IInv, RoomInv, Cycle

\* Going to a window, in the list as it is.
LEMMA GotoStep ==
    ASSUME IInv, ok, NEW n, Goto(ring, win, n),
           UNCHANGED <<ring, cols, shared, acct, rooms, private, ok>>
    PROVE  IInv'
<1>1. ListInv(ring, win, cols) /\ VisibleInv(ring, win, cur)
  BY DEF IInv
<1>2. /\ ListInv(ring, win', cols) /\ VisibleInv(ring, win', cur')
      /\ win'[Status].data = win[Status].data
  BY <1>1, GotoInv
<1>3. cur' \in Nodes
  BY <1>2, ListedWindows DEF VisibleInv
<1>. QED  BY <1>2, <1>3 DEF IInv, RoomInv

\* /win skip and /win unskip.
LEMMA SkipInv == ASSUME IInv, NEW b \in BOOLEAN, SetSkip(b) PROVE IInv'
<1>1. ok /\ ListInv(ring, win, cols) /\ VisibleInv(ring, win, cur)
  BY DEF IInv, SetSkip, Running
<1>2. PICK n : win' = [id \in Nodes |-> IF id \in FindRefnum(n)
                                       THEN [win[id] EXCEPT !.skip = b] ELSE win[id]]
  BY DEF SetSkip
<1>3. UNCHANGED <<ring, cur, cols, shared, acct, rooms, private, ok>>
  BY DEF SetSkip
<1> DEFINE v == win'
<1>4. v = [id \in Nodes |-> v[id]]
      /\ \A id \in Nodes : v[id] = IF id \in FindRefnum(n) THEN SetSkipOf(win[id], b) ELSE win[id]
  BY <1>2 DEF SetSkipOf
<1>. HIDE DEF v
<1>5. \A id \in ToSet(ring) : id \in Nodes /\ win[id] \in WinType /\ Fits(win[id], cols)
  BY <1>1, ListedWindows DEF ListInv
<1>6. \A id \in Nodes : id \notin ToSet(ring) => v[id] = None
  BY <1>1, <1>4 DEF FindRefnum, ListInv
<1>7. ASSUME NEW id \in ToSet(ring) PROVE Alike(v[id], win[id], cols)
  <2>1. win[id] \in WinType /\ Fits(win[id], cols) /\ id \in Nodes
    BY <1>5
  <2>2. Alike(SetSkipOf(win[id], b), win[id], cols)
    BY <2>1, SkipSet
  <2>3. Alike(win[id], win[id], cols)
    BY <2>1 DEF Alike
  <2>. QED  BY <1>4, <2>1, <2>2, <2>3
<1>8. /\ ListInv(ring, v, cols) /\ VisibleInv(ring, v, cur) /\ v[Status].data = win[Status].data
  BY <1>1, <1>4, <1>6, <1>7, AlikeInv
<1>. QED  BY <1>3, <1>8 DEF IInv, RoomInv, v

\* A list of the same windows, in order of their numbers as they are now.
LEMMA RenumberedInv ==
    ASSUME NEW r, NEW w, NEW co, ListInv(r, w, co), NEW s, NEW v,
           s \in Seq(Nodes), Numbered(s, v), ToSet(s) = ToSet(r),
           v \in [Nodes -> WinType \cup {None}],
           \A id \in Nodes : id \notin ToSet(r) => v[id] = w[id],
           \A id \in ToSet(r) : /\ v[id] \in WinType /\ v[id].type = w[id].type
                                /\ v[id].visible = w[id].visible /\ v[id].data = w[id].data
                                /\ Fits(v[id], co)
    PROVE  /\ ListInv(s, v, co) /\ v[Status].data = w[Status].data
           /\ \A c : VisibleInv(r, w, c) => VisibleInv(s, v, c)
<1>1. Status \in ToSet(r)
  BY ListedWindows
<1>2. \A id \in Nodes : v[id] # None <=> id \in ToSet(r)
  BY WindowIsThere DEF ListInv
<1>3. ListInv(s, v, co)
  BY <1>1, <1>2 DEF ListInv
<1>. QED  BY <1>1, <1>3 DEF VisibleInv

\* The elements of a list have numbers of their own.
LEMMA OwnNumbers ==
    ASSUME NEW r \in Seq(Nodes), NEW w, Numbered(r, w)
    PROVE  \A x, y \in ToSet(r) : w[x].ref = w[y].ref => x = y
<1>1. ASSUME NEW x \in ToSet(r), NEW y \in ToSet(r), w[x].ref = w[y].ref PROVE x = y
  <2>1. PICK j \in 1 .. Len(r) : r[j] = x
    BY RingType
  <2>2. PICK k \in 1 .. Len(r) : r[k] = y
    BY RingType
  <2>. QED  BY <1>1, <2>1, <2>2, NumberedOnce
<1>. QED  BY <1>1

\* screen_renumber: the window has the number it is given, the one that had it
\* the old one, and the list is in order.
LEMMA RenumberInv == ASSUME IInv, CmdWinRenumber PROVE IInv'
<1>1. ok /\ ListInv(ring, win, cols) /\ VisibleInv(ring, win, cur)
  BY DEF IInv, CmdWinRenumber, Running
<1>2. PICK n \in Refnums : ring' = Renumbered(n).r /\ win' = Renumbered(n).w
  BY DEF CmdWinRenumber
<1>3. n \in Nat /\ UNCHANGED <<cur, cols, shared, acct, rooms, private, ok>>
  BY WindowsAssumption DEF CmdWinRenumber
<1>4. /\ ring \in Seq(Nodes) /\ Numbered(ring, win) /\ cur \in ToSet(ring) /\ cur \in Nodes
      /\ win \in [Nodes -> WinType \cup {None}]
  BY <1>1, ListedWindows DEF ListInv, VisibleInv
<1>5. \A id \in ToSet(ring) : id \in Nodes /\ win[id] \in WinType /\ Fits(win[id], cols)
  BY <1>1, ListedWindows DEF ListInv
<1> DEFINE old   == win[cur].ref
           rest  == Removed(ring, cur)
           w     == [win EXCEPT ![cur].ref = n]
           taken == IF rest = <<>> THEN 0 ELSE Place(rest, w, n)
           other == rest[taken]
           w2    == [w EXCEPT ![other].ref = old]
<1>6. IF taken = 0 THEN ring' = Added(rest, w, cur) /\ win' = w
      ELSE ring' = Added(Added(Removed(rest, other), w2, other), w2, cur) /\ win' = w2
  BY <1>2 DEF Renumbered
<1>7. rest \in Seq(Nodes) /\ Numbered(rest, win) /\ ToSet(rest) = ToSet(ring) \ {cur}
  BY <1>4, RemovedNumbered
<1>8. old \in Nat
  BY <1>4, <1>5 DEF WinType
<1>9. /\ DOMAIN w = Nodes /\ w[cur] = SetRef(win[cur], n)
      /\ \A id \in Nodes : id # cur => w[id] = win[id]
  BY <1>4 DEF SetRef
<1>10. /\ w[cur] \in WinType /\ Fits(w[cur], cols) /\ w[cur].ref = n
       /\ w[cur].type = win[cur].type /\ w[cur].visible = win[cur].visible
       /\ w[cur].data = win[cur].data
  <2>1. win[cur] \in WinType /\ Fits(win[cur], cols)
    BY <1>4, <1>5
  <2>. HIDE DEF w
  <2>. QED  BY <2>1, <1>3, <1>9, RefSet
<1>11. \A id \in ToSet(ring) : id # cur => w[id] = win[id]
  BY <1>5, <1>9
<1>. HIDE DEF w, rest
<1>12. \A x \in ToSet(rest) : x \in ToSet(ring) /\ x # cur /\ w[x].ref = win[x].ref /\ win[x].ref # old
  <2>1. \A x \in ToSet(rest) : x \in ToSet(ring) /\ x # cur
    BY <1>7
  <2>2. \A x \in ToSet(rest) : win[x].ref # old
    BY <2>1, <1>4, OwnNumbers
  <2>. QED  BY <2>1, <2>2, <1>11
<1>13. Numbered(rest, w)
  BY <1>7, <1>12, NumberedSame
<1>14. /\ ring' \in Seq(Nodes) /\ Numbered(ring', win') /\ ToSet(ring') = ToSet(ring)
       /\ win' \in [Nodes -> WinType \cup {None}]
       /\ \A id \in Nodes : id \notin ToSet(ring) => win'[id] = win[id]
       /\ \A id \in ToSet(ring) :
             /\ win'[id] \in WinType /\ win'[id].type = win[id].type
             /\ win'[id].visible = win[id].visible /\ win'[id].data = win[id].data
             /\ Fits(win'[id], cols)
  <2>1. CASE taken = 0
    <3>1. ring' = Added(rest, w, cur) /\ win' = w
      BY <1>6, <2>1
    <3>2. \A k \in 1 .. Len(rest) : w[rest[k]].ref # w[cur].ref
      <4>1. CASE rest = <<>>
        BY <4>1
      <4>2. CASE rest # <<>>
        BY <4>2, <2>1, <1>7, <1>10, <1>13, PlaceMisses
      <4>. QED  BY <4>1, <4>2
    <3>3. /\ ring' \in Seq(Nodes) /\ Numbered(ring', w) /\ ToSet(ring') = ToSet(rest) \cup {cur}
      BY <3>1, <3>2, <1>3, <1>4, <1>7, <1>10, <1>13, AddedNumbered
    <3>4. ToSet(ring') = ToSet(ring)
      BY <3>3, <1>4, <1>7
    <3>5. \A id \in ToSet(ring) :
             /\ w[id] \in WinType /\ w[id].type = win[id].type
             /\ w[id].visible = win[id].visible /\ w[id].data = win[id].data
             /\ Fits(w[id], cols)
      BY <1>5, <1>10, <1>11
    <3>6. \A id \in Nodes : id \notin ToSet(ring) => w[id] = win[id]
      BY <1>4, <1>9
    <3>7. w \in [Nodes -> WinType \cup {None}]
      <4>1. \A id \in Nodes : w[id] \in WinType \cup {None}
        BY <1>4, <3>5, <3>6
      <4>2. w = [id \in Nodes |-> w[id]]
        BY <1>4 DEF w
      <4>. QED  BY <4>1, <4>2
    <3>. QED  BY <3>1, <3>3, <3>4, <3>5, <3>6, <3>7
  <2>2. CASE taken # 0
    <3>1. ring' = Added(Added(Removed(rest, other), w2, other), w2, cur) /\ win' = w2
      BY <1>6, <2>2
    <3>2. other \in ToSet(rest) /\ w[other].ref = n
      <4>1. taken = Place(rest, w, n)
        BY <2>2
      <4>2. taken \in 1 .. Len(rest) /\ w[rest[taken]].ref = n
        BY <4>1, <2>2, <1>7, PlaceRange
      <4>. QED  BY <4>2, <1>7, RingType
    <3>. HIDE DEF taken
    <3>3. /\ DOMAIN w2 = Nodes /\ w2[other] = SetRef(w[other], old)
          /\ \A id \in Nodes : id # other => w2[id] = w[id]
      BY <3>2, <1>5, <1>9, <1>12 DEF SetRef
    <3>. HIDE DEF w2, other
    <3>4. other \in ToSet(ring) /\ other # cur /\ other \in Nodes /\ win[other].ref = n /\ n # old
      BY <3>2, <1>5, <1>12
    <3>5. /\ w2[other] \in WinType /\ Fits(w2[other], cols) /\ w2[other].ref = old
          /\ w2[other].type = win[other].type /\ w2[other].visible = win[other].visible
          /\ w2[other].data = win[other].data
      <4>1. win[other] \in WinType /\ Fits(win[other], cols) /\ w[other] = win[other]
        BY <3>4, <1>5, <1>11
      <4>. QED  BY <4>1, <3>3, <1>8, RefSet
    <3>6. w2[cur] = w[cur]
      BY <3>3, <3>4, <1>4
    <3> DEFINE rest2 == Removed(rest, other)
               a2 == Added(rest2, w2, other)
    <3>7. rest2 \in Seq(Nodes) /\ Numbered(rest2, w) /\ ToSet(rest2) = ToSet(rest) \ {other}
      BY <3>2, <1>7, <1>13, RemovedNumbered
    <3>. HIDE DEF rest2
    <3>8. \A x \in ToSet(rest2) : x \in Nodes /\ w2[x] = w[x] /\ w2[x].ref = win[x].ref
      BY <3>3, <3>7, <1>5, <1>12
    <3>9. Numbered(rest2, w2)
      BY <3>7, <3>8, NumberedSame
    <3>10. \A x \in ToSet(rest2) : w2[x].ref # old /\ w2[x].ref # n
      <4>1. \A x \in ToSet(rest2) : w2[x].ref # old
        BY <3>7, <3>8, <1>12
      <4>2. \A x \in ToSet(rest2) : win[x].ref # n
        BY <3>4, <3>7, <1>4, <1>12, OwnNumbers
      <4>. QED  BY <4>1, <4>2, <3>8
    <3>11. \A k \in 1 .. Len(rest2) : w2[rest2[k]].ref # w2[other].ref
      BY <3>5, <3>7, <3>10, RingType
    <3>12. a2 \in Seq(Nodes) /\ Numbered(a2, w2) /\ ToSet(a2) = ToSet(rest2) \cup {other}
      BY <3>4, <3>5, <3>7, <3>9, <3>11, <1>8, AddedNumbered
    <3>. HIDE DEF a2
    <3>13. \A x \in ToSet(a2) : w2[x].ref # n
      BY <3>4, <3>5, <3>10, <3>12
    <3>14. \A k \in 1 .. Len(a2) : w2[a2[k]].ref # w2[cur].ref
      BY <3>6, <3>12, <3>13, <1>10, RingType
    <3>15. ring' \in Seq(Nodes) /\ Numbered(ring', w2) /\ ToSet(ring') = ToSet(a2) \cup {cur}
      <4>1. ring' = Added(a2, w2, cur) /\ w2[cur].ref \in Nat
        BY <3>1, <3>6, <1>3, <1>10 DEF a2, rest2
      <4>. QED  BY <4>1, <3>12, <3>14, <1>4, AddedNumbered
    <3>16. ToSet(ring') = ToSet(ring)
      BY <3>4, <3>7, <3>12, <3>15, <1>4, <1>7
    <3>17. \A id \in ToSet(ring) :
             /\ w2[id] \in WinType /\ w2[id].type = win[id].type
             /\ w2[id].visible = win[id].visible /\ w2[id].data = win[id].data
             /\ Fits(w2[id], cols)
      <4>1. \A id \in ToSet(ring) : id # other /\ id # cur => w2[id] = win[id]
        BY <3>3, <1>5, <1>11
      <4>. QED  BY <4>1, <3>5, <3>6, <1>5, <1>10
    <3>18. \A id \in Nodes : id \notin ToSet(ring) => w2[id] = win[id]
      BY <3>3, <3>4, <1>4, <1>9
    <3>19. w2 \in [Nodes -> WinType \cup {None}]
      <4>1. \A id \in Nodes : w2[id] \in WinType \cup {None}
        BY <1>4, <3>17, <3>18
      <4>2. w2 = [id \in Nodes |-> w2[id]]
        <5>1. w = [id \in Nodes |-> w[id]]
          BY <1>4 DEF w
        <5>. QED  BY <5>1, <3>4 DEF w2
      <4>. QED  BY <4>1, <4>2
    <3>. QED  BY <3>1, <3>15, <3>16, <3>17, <3>18, <3>19
  <2>. QED  BY <2>1, <2>2
<1>. HIDE DEF taken, other, w2
<1>15. /\ ListInv(ring', win', cols) /\ VisibleInv(ring', win', cur)
       /\ win'[Status].data = win[Status].data
  BY <1>1, <1>14, RenumberedInv
<1>. QED  BY <1>3, <1>15 DEF IInv, RoomInv

\* screen_new_window, and the way to it.
LEMMA OpenInv ==
    ASSUME IInv, ok, NEW t \in Targets, OpenWindow(t),
           UNCHANGED <<cols, shared, acct, rooms, private, ok>>
    PROVE  IInv'
<1>1. /\ ListInv(ring, win, cols) /\ VisibleInv(ring, win, cur) /\ cols \in Widths
      /\ private \in BOOLEAN
  BY DEF IInv
<1>2. /\ ring \in Seq(Nodes) /\ Numbered(ring, win) /\ cur \in ToSet(ring)
      /\ win \in [Nodes -> WinType \cup {None}]
      /\ \A id \in Nodes : win[id] # None <=> id \in ToSet(ring)
  BY <1>1 DEF ListInv, VisibleInv
<1>3. \A id \in ToSet(ring) : id \in Nodes /\ win[id] \in WinType /\ Fits(win[id], cols)
  BY <1>1, ListedWindows DEF ListInv
<1> DEFINE id  == CHOOSE n \in Nodes : win[n] = None
           new == NewWindow(NewRefnum, "query", win[cur].owner, t, cols, private)
           w   == [win EXCEPT ![id] = new]
           a   == Added(ring, w, id)
<1>4. (\E n \in Nodes : win[n] = None) /\ ring' = a /\ Goto(a, w, new.ref)
  BY DEF OpenWindow
<1>5. id \in Nodes /\ win[id] = None
  BY <1>4
<1>6. NewRefnum \in Nat /\ \A k \in 1 .. Len(ring) : win[ring[k]].ref # NewRefnum
  BY <1>2, NewRefnumFree
<1>7. Fresh(new, NewRefnum, "query", cols)
  <2>1. win[cur].owner \in {"null", "acct"}
    BY <1>2, <1>3 DEF WinType
  <2>2. t \in Targets \cup {""} /\ "query" \in {"status", "query"}
    OBVIOUS
  <2>. QED  BY <2>1, <2>2, <1>1, <1>6, WindowNew
<1>. HIDE DEF id, new
<1>8. DOMAIN w = Nodes /\ w[id] = new /\ \A x \in Nodes : x # id => w[x] = win[x]
  BY <1>2, <1>5
<1>9. id \notin ToSet(ring) /\ \A x \in ToSet(ring) : x # id /\ w[x] = win[x]
  BY <1>2, <1>3, <1>5, <1>8
<1>10. w = [x \in Nodes |-> w[x]]
  BY <1>2
<1>. HIDE DEF w
<1>11. Numbered(ring, w)
  BY <1>2, <1>9, NumberedSame
<1>12. w[id].ref = NewRefnum /\ \A k \in 1 .. Len(ring) : w[ring[k]].ref # w[id].ref
  BY <1>2, <1>6, <1>7, <1>8, <1>9, RingType DEF Fresh
<1>13. a \in Seq(Nodes) /\ Numbered(a, w) /\ ToSet(a) = ToSet(ring) \cup {id}
  BY <1>2, <1>5, <1>6, <1>11, <1>12, AddedNumbered
<1>. HIDE DEF a
<1>14. new \in WinType /\ Fits(new, cols) /\ new.visible = FALSE /\ new # None
  BY <1>7, WindowIsThere DEF Fresh
<1>15. w \in [Nodes -> WinType \cup {None}]
  <2>1. \A x \in Nodes : w[x] \in WinType \cup {None}
    BY <1>2, <1>8, <1>14
  <2>. QED  BY <2>1, <1>10
<1>16. \A x \in Nodes : w[x] # None <=> x \in ToSet(a)
  BY <1>2, <1>8, <1>13, <1>14
<1>17. \A x \in ToSet(a) : Fits(w[x], cols)
  BY <1>3, <1>8, <1>9, <1>13, <1>14
<1>18. w[Status] = win[Status] /\ win[Status].type = "status"
  BY <1>1, <1>9, ListedWindows DEF ListInv
<1>19. ListInv(a, w, cols)
  BY <1>13, <1>15, <1>16, <1>17, <1>18 DEF ListInv
<1>20. VisibleInv(a, w, cur)
  <2>1. cur # id /\ \A x \in ToSet(ring) : w[x].visible = (x = cur)
    BY <1>1, <1>2, <1>9 DEF VisibleInv
  <2>2. w[id].visible = (id = cur)
    <3>1. w[id].visible = FALSE
      BY <1>8, <1>14
    <3>. QED  BY <2>1, <3>1
  <2>. QED  BY <2>1, <2>2, <1>2, <1>13 DEF VisibleInv
<1>21. /\ ListInv(ring', win', cols) /\ VisibleInv(ring', win', cur')
       /\ win'[Status].data = win[Status].data
  BY <1>4, <1>18, <1>19, <1>20, GotoInv
<1>22. cur' \in Nodes
  BY <1>21, ListedWindows DEF VisibleInv
<1>. QED  BY <1>1, <1>21, <1>22 DEF IInv, RoomInv

\* /query with a name.
LEMMA QueryInv == ASSUME IInv, CmdQuery PROVE IInv'
<1>1. PICK t \in Targets : MakeQueryWindow(t)
  BY DEF CmdQuery
<1>2. ok /\ UNCHANGED <<cols, shared, acct, rooms, private, ok>>
  BY DEF CmdQuery, Running
<1>3. CASE OpenWindow(t)
  BY <1>2, <1>3, OpenInv
<1>4. CASE UNCHANGED ring /\ Goto(ring, win, win[Head(Conversations(t))].ref)
  BY <1>2, <1>4, GotoStep
<1>. QED  BY <1>1, <1>3, <1>4 DEF MakeQueryWindow

\* /msg and /send.
LEMMA MsgInv == ASSUME IInv, CmdMsg PROVE IInv'
<1>1. PICK t \in Targets : OpenWindow(t)
  BY DEF CmdMsg
<1>2. ok /\ UNCHANGED <<cols, shared, acct, rooms, private, ok>>
  BY DEF CmdMsg, Running
<1>. QED  BY <1>1, <1>2, OpenInv

\* screen_close_window: the window goes, and what is shown is the next one; if
\* that is the window itself nothing is right any more.
LEMMA CloseInv == ASSUME IInv, CmdWinClose PROVE IInv'
<1> DEFINE next == Cycled(1)
           v    == Shown(win, cur, next)
<1>1. ok /\ ListInv(ring, win, cols) /\ VisibleInv(ring, win, cur)
  BY DEF IInv, CmdWinClose, Running
<1>2. next \in ToSet(ring) /\ cur \in ToSet(ring)
  BY <1>1, CycledListed DEF ListInv, VisibleInv
<1>3. /\ win[cur].type # "status" /\ ring' = Removed(ring, cur) /\ win' = [v EXCEPT ![cur] = None]
      /\ cur' = next /\ ok' = (next # cur) /\ UNCHANGED <<cols, shared, acct, rooms, private>>
  BY DEF CmdWinClose
<1>. HIDE DEF next
<1>4. ListInv(ring, v, cols) /\ VisibleInv(ring, v, next) /\ v[Status].data = win[Status].data
  BY <1>1, <1>2, ShownInv
<1>. HIDE DEF v
<1>5. /\ ring \in Seq(Nodes) /\ Numbered(ring, v) /\ v \in [Nodes -> WinType \cup {None}]
      /\ v[Status].type = "status"
      /\ \A id \in Nodes : v[id] # None <=> id \in ToSet(ring)
      /\ \A id \in ToSet(ring) : id \in Nodes /\ Fits(v[id], cols)
  BY <1>4, ListedWindows DEF ListInv
<1>6. cur # Status /\ Status \in Nodes
  BY <1>1, <1>3, StatusNode DEF ListInv
<1>7. /\ ring' \in Seq(Nodes) /\ Numbered(ring', v) /\ ToSet(ring') = ToSet(ring) \ {cur}
  BY <1>2, <1>3, <1>5, RemovedNumbered
<1>8. /\ win' \in [Nodes -> WinType \cup {None}]
      /\ \A id \in Nodes : win'[id] = IF id = cur THEN None ELSE v[id]
  BY <1>3, <1>5
<1>9. \A id \in ToSet(ring') : id \in Nodes /\ win'[id] = v[id] /\ id # cur
  BY <1>5, <1>7, <1>8
<1>10. Numbered(ring', win')
  BY <1>7, <1>9, NumberedSame
<1>11. \A id \in Nodes : win'[id] # None <=> id \in ToSet(ring')
  BY <1>5, <1>7, <1>8
<1>12. win'[Status] = v[Status]
  BY <1>6, <1>8
<1>13. ListInv(ring', win', cols)
  BY <1>5, <1>7, <1>8, <1>9, <1>10, <1>11, <1>12 DEF ListInv
<1>14. ok' => VisibleInv(ring', win', cur')
  <2>. SUFFICES ASSUME next # cur PROVE VisibleInv(ring', win', next)
    BY <1>3
  <2>1. next \in ToSet(ring')
    BY <1>2, <1>7
  <2>2. \A id \in ToSet(ring') : id \in ToSet(ring) /\ win'[id] = v[id]
    BY <1>7, <1>9
  <2>3. \A id \in ToSet(ring') : win'[id].visible = (id = next)
    BY <2>2, <1>4 DEF VisibleInv
  <2>. QED  BY <2>1, <2>3 DEF VisibleInv
<1>15. cur' \in Nodes /\ ok' \in BOOLEAN
  BY <1>2, <1>3, <1>5
<1>. QED  BY <1>3, <1>4, <1>12, <1>13, <1>14, <1>15 DEF IInv, RoomInv

\* /win set PRIVATE_INPUT.
LEMMA SetPrivateInv == ASSUME IInv, CmdWinSetPrivate PROVE IInv'
<1>1. /\ ok /\ ListInv(ring, win, cols) /\ VisibleInv(ring, win, cur) /\ cols \in Widths
  BY DEF IInv, CmdWinSetPrivate, Running
<1>2. PICK b \in BOOLEAN : win' = [win EXCEPT ![cur] = WithInput(@, b)]
  BY DEF CmdWinSetPrivate
<1>3. UNCHANGED <<ring, cur, cols, shared, acct, rooms, private, ok>>
  BY DEF CmdWinSetPrivate
<1>4. cur \in ToSet(ring) /\ win[cur] \in WinType /\ Fits(win[cur], cols)
  BY <1>1, ListedWindows DEF ListInv, VisibleInv
<1> DEFINE y == WithInput(win[cur], b)
<1>5. Alike(y, win[cur], cols)
  BY <1>1, <1>4, InputSet
<1>6. win' = Put(win, cur, y)
  BY <1>2 DEF Put
<1>. HIDE DEF y
<1>7. /\ ListInv(ring, win', cols) /\ win'[Status].data = win[Status].data
      /\ VisibleInv(ring, win', cur)
  BY <1>1, <1>4, <1>5, <1>6, OneAlikeInv
<1>. QED  BY <1>3, <1>7 DEF IInv, RoomInv

\* SIGWINCH: every window becomes as wide as the screen.
LEMMA ResizeInv == ASSUME IInv, Resize PROVE IInv'
<1>1. /\ ok /\ ListInv(ring, win, cols) /\ VisibleInv(ring, win, cur) /\ shared \in Widths
  BY DEF IInv, Resize, Running
<1>2. PICK n \in Widths :
         /\ cols' = n /\ win' = Resized(n)
         /\ shared' = IF \E id \in ToSet(ring) : win[id].input = 0 THEN n ELSE shared
         /\ UNCHANGED <<ring, cur, acct, rooms, private, ok>>
  BY DEF Resize
<1> DEFINE v == win'
<1>3. v = [id \in Nodes |-> v[id]]
      /\ \A id \in Nodes : v[id] = IF win[id] = None THEN None ELSE SetCols(win[id], n)
  BY <1>2 DEF Resized, SetCols
<1>. HIDE DEF v
<1>4. \A id \in ToSet(ring) : id \in Nodes /\ win[id] \in WinType /\ Fits(win[id], cols) /\ win[id] # None
  BY <1>1, ListedWindows DEF ListInv
<1>5. \A id \in Nodes : id \notin ToSet(ring) => v[id] = None
  BY <1>1, <1>3 DEF ListInv
<1>6. ASSUME NEW id \in ToSet(ring) PROVE Alike(v[id], win[id], n)
  <2>1. win[id] \in WinType /\ Fits(win[id], cols) /\ v[id] = SetCols(win[id], n)
    BY <1>3, <1>4
  <2>. QED  BY <2>1, ColsSet
<1>7. /\ ListInv(ring, v, n) /\ VisibleInv(ring, v, cur) /\ v[Status].data = win[Status].data
  BY <1>1, <1>3, <1>5, <1>6, AlikeInv
<1>8. shared' \in Widths
  BY <1>1, <1>2
<1>. QED  BY <1>2, <1>7, <1>8 DEF IInv, RoomInv, v

\* The windows of one owner get another one.
Owned(w, from, to) ==
    [id \in Nodes |-> IF w[id] # None /\ w[id].owner = from THEN SetOwner(w[id], to) ELSE w[id]]
LEMMA OwnedInv ==
    ASSUME NEW r, NEW w, NEW co, ListInv(r, w, co), NEW from, NEW to \in {"null", "acct"},
           NEW v, v = Owned(w, from, to)
    PROVE  /\ ListInv(r, v, co) /\ v[Status].data = w[Status].data
           /\ \A c : VisibleInv(r, w, c) => VisibleInv(r, v, c)
<1>1. v = [id \in Nodes |-> v[id]]
      /\ \A id \in Nodes : v[id] = IF w[id] # None /\ w[id].owner = from
                                   THEN SetOwner(w[id], to) ELSE w[id]
  BY DEF Owned
<1>2. \A id \in ToSet(r) : id \in Nodes /\ w[id] \in WinType /\ Fits(w[id], co) /\ w[id] # None
  BY ListedWindows DEF ListInv
<1>3. \A id \in Nodes : id \notin ToSet(r) => v[id] = None
  BY <1>1 DEF ListInv
<1>4. ASSUME NEW id \in ToSet(r) PROVE Alike(v[id], w[id], co)
  <2>1. w[id] \in WinType /\ Fits(w[id], co) /\ id \in Nodes
    BY <1>2
  <2>2. Alike(SetOwner(w[id], to), w[id], co)
    BY <2>1, OwnerSet
  <2>3. Alike(w[id], w[id], co)
    BY <2>1 DEF Alike
  <2>. QED  BY <1>1, <2>1, <2>2, <2>3
<1>. QED  BY <1>1, <1>3, <1>4, AlikeInv

\* pork_acct_connect.
LEMMA ConnectInv == ASSUME IInv, Connect PROVE IInv'
<1>1. ok /\ ListInv(ring, win, cols) /\ VisibleInv(ring, win, cur)
  BY DEF IInv, Connect, Running
<1>2. /\ acct = "none" /\ acct' = "offline" /\ UNCHANGED <<ring, cur, cols, shared, rooms, private, ok>>
      /\ win' = Owned(win, "null", "acct")
  BY DEF Connect, Owned, SetOwner
<1>3. /\ ListInv(ring, win', cols) /\ win'[Status].data = win[Status].data
      /\ VisibleInv(ring, win', cur)
  BY <1>1, <1>2, OwnedInv
<1>. QED  BY <1>2, <1>3 DEF IInv, RoomInv

\* A room is opened: it is the first of the list, and the one that is shown.
LEMMA WelcomeInv == ASSUME IInv, ServerWelcome PROVE IInv'
<1>1. ok /\ ListInv(ring, win, cols) /\ VisibleInv(ring, win, cur)
  BY DEF IInv, ServerWelcome, Running
<1> DEFINE d == Len(rooms) + 1
<1>2. /\ acct \in {"offline", "online"} /\ Len(rooms) < MaxRooms /\ acct' = "online"
      /\ rooms' = <<d>> \o rooms /\ win' = PutData(win, d)
      /\ UNCHANGED <<ring, cur, cols, shared, private, ok>>
  BY DEF ServerWelcome, PutData
<1>3. rooms \in Seq(Nat)
  BY <1>2 DEF IInv, RoomInv
<1>4. Len(rooms) \in Nat /\ MaxRooms \in Nat
  BY <1>3, WindowsAssumption
<1>5. d \in 0 .. MaxRooms /\ d # 0 /\ d \in Nat
  BY <1>2, <1>4
<1>. HIDE DEF d
<1>6. rooms' \in Seq(Nat) /\ Len(rooms') = Len(rooms) + 1 /\ rooms'[1] = d
  BY <1>2, <1>3, <1>5, PrependSeq
<1>7. rooms' # <<>> /\ Head(rooms') = d
  BY <1>4, <1>6
<1>8. ListInv(ring, win', cols) /\ win'[Status].data = d /\ VisibleInv(ring, win', cur)
  BY <1>1, <1>2, <1>5, DataInv
<1>9. RoomInv'
  BY <1>2, <1>5, <1>6, <1>7, <1>8 DEF RoomInv
<1>. QED  BY <1>2, <1>8, <1>9 DEF IInv

\* The connection is lost.
LEMMA LostInv == ASSUME IInv, Lost PROVE IInv'
  BY DEF IInv, Lost, RoomInv

\* pork_acct_del: the status window shows no room any more.
LEMMA DelInv == ASSUME IInv, AcctDel PROVE IInv'
<1>1. ok /\ ListInv(ring, win, cols) /\ VisibleInv(ring, win, cur) /\ RoomInv
  BY DEF IInv, AcctDel, Running
<1>2. /\ acct \in {"offline", "online"} /\ acct' = "freed"
      /\ UNCHANGED <<ring, cur, cols, shared, private, ok>>
  BY DEF AcctDel
<1> DEFINE w == Left(win)
<1>3. win' = Owned(w, "acct", "null")
  BY DEF AcctDel, Owned, SetOwner
<1>4. ListInv(ring, w, cols) /\ VisibleInv(ring, w, cur) /\ w[Status].data = 0
  <2>1. CASE rooms = <<>>
    BY <2>1, <1>1, <1>2 DEF Left, RoomInv
  <2>2. CASE rooms # <<>>
    <3>1. w = PutData(win, 0)
      BY <2>2 DEF Left, PutData
    <3>. HIDE DEF w
    <3>. QED  BY <3>1, <1>1, NoRoom, DataInv
  <2>. QED  BY <2>1, <2>2
<1>. HIDE DEF w
<1>5. /\ ListInv(ring, win', cols) /\ win'[Status].data = 0 /\ VisibleInv(ring, win', cur)
  BY <1>3, <1>4, OwnedInv
<1>. QED  BY <1>2, <1>5 DEF IInv, RoomInv

\* /win bind and /win bind_next; after the account is freed nothing is right.
LEMMA BindInv == ASSUME IInv, BindAcct PROVE IInv'
<1>1. ok /\ ListInv(ring, win, cols) /\ VisibleInv(ring, win, cur)
  BY DEF IInv, BindAcct, Running
<1>2. UNCHANGED <<ring, cur, cols, shared, acct, rooms, private>>
  BY DEF BindAcct
<1>3. CASE acct = "freed"
  <2>1. ok' = FALSE /\ UNCHANGED win
    BY <1>3 DEF BindAcct
  <2>. QED  BY <1>1, <1>2, <2>1 DEF IInv, RoomInv
<1>4. CASE acct # "freed"
  <2> DEFINE y == SetOwner(win[cur], "acct")
  <2>1. ok' = ok /\ win' = Put(win, cur, y)
    BY <1>4 DEF BindAcct, SetOwner, Put
  <2>2. cur \in ToSet(ring) /\ win[cur] \in WinType /\ Fits(win[cur], cols)
    BY <1>1, ListedWindows DEF ListInv, VisibleInv
  <2>3. Alike(y, win[cur], cols)
    BY <2>2, OwnerSet
  <2>. HIDE DEF y
  <2>4. /\ ListInv(ring, win', cols) /\ win'[Status].data = win[Status].data
        /\ VisibleInv(ring, win', cur)
    BY <1>1, <2>1, <2>2, <2>3, OneAlikeInv
  <2>. QED  BY <1>2, <2>1, <2>4 DEF IInv, RoomInv
<1>. QED  BY <1>3, <1>4

LEMMA NextInv == IInv /\ [Next]_vars => IInv'
<1>. SUFFICES ASSUME IInv, [Next]_vars PROVE IInv'
  OBVIOUS
<1>1. CASE CmdWinNext
  BY <1>1, CycleInv DEF CmdWinNext
<1>2. CASE CmdWinPrev
  BY <1>2, CycleInv DEF CmdWinPrev
<1>3. CASE CmdWinSwap
  <2>1. \E n \in Refnums : Goto(ring, win, n)
    BY <1>3 DEF CmdWinSwap
  <2>2. ok /\ UNCHANGED <<ring, cols, shared, acct, rooms, private, ok>>
    BY <1>3 DEF CmdWinSwap, Running
  <2>. QED  BY <2>1, <2>2, GotoStep
<1>4. CASE CmdWinRenumber
  BY <1>4, RenumberInv
<1>5. CASE CmdWinSkip
  BY <1>5, SkipInv DEF CmdWinSkip
<1>6. CASE CmdWinUnskip
  BY <1>6, SkipInv DEF CmdWinUnskip
<1>7. CASE CmdQuery
  BY <1>7, QueryInv
<1>8. CASE CmdMsg
  BY <1>8, MsgInv
<1>9. CASE CmdWinClose
  BY <1>9, CloseInv
<1>10. CASE CmdWinSetPrivate
  BY <1>10, SetPrivateInv
<1>11. CASE CmdSetPrivate
  BY <1>11 DEF CmdSetPrivate, IInv, RoomInv
<1>12. CASE Resize
  BY <1>12, ResizeInv
<1>13. CASE Connect
  BY <1>13, ConnectInv
<1>14. CASE ServerWelcome
  BY <1>14, WelcomeInv
<1>15. CASE Lost
  BY <1>15, LostInv
<1>16. CASE AcctDel
  BY <1>16, DelInv
<1>17. CASE CmdWinBind \/ CmdWinBindNext
  BY <1>17, BindInv DEF CmdWinBind, CmdWinBindNext
<1>18. CASE UNCHANGED vars
  BY <1>18 DEF vars, IInv, RoomInv
<1>. QED
  BY <1>1, <1>2, <1>3, <1>4, <1>5, <1>6, <1>7, <1>8, <1>9, <1>10, <1>11, <1>12, <1>13, <1>14,
     <1>15, <1>16, <1>17, <1>18 DEF Next, Stopped

-----------------------------------------------------------------------------
(***************************************************************************)
(* The properties                                                          *)
(***************************************************************************)

\* IInv holds of every reachable state, for every set of numbers and widths,
\* any number of windows and of rooms.
THEOREM Invariance == Spec => []IInv
  BY InitInv, NextInv, PTL DEF Spec

\* What a node of the list holds.
THEOREM TypeCorrect == Spec => []TypeOK
<1>1. IInv => TypeOK
  <2>. SUFFICES ASSUME IInv PROVE TypeOK
    OBVIOUS
  <2>1. ListInv(ring, win, cols) /\ RoomInv /\ cur \in Nodes /\ cols \in Widths /\ shared \in Widths
        /\ private \in BOOLEAN /\ ok \in BOOLEAN
    BY DEF IInv
  <2>2. \A id \in ToSet(ring) : win[id] \in WinType
    BY <2>1, ListedWindows
  <2>3. \A id \in Listed :
          /\ win[id].type \in {"status", "query"} /\ win[id].owner \in {"null", "acct"}
          /\ win[id].input \in {0} \cup Widths /\ win[id].data \in 0 .. MaxRooms
    BY <2>2 DEF Listed, WinType
  <2>. QED  BY <2>1, <2>3 DEF TypeOK, ListInv, RoomInv
<1>. QED  BY <1>1, Invariance, PTL

\* Whatever is opened, closed, renumbered and gone to, the list stays in order:
\* screen_find_refnum, which looks no further than the first larger number,
\* finds every window that there is by its number, and that window only.
THEOREM AllAreFound == Spec => []EveryWindowIsFound
<1>1. IInv => EveryWindowIsFound
  <2>. SUFFICES ASSUME IInv PROVE EveryWindowIsFound
    OBVIOUS
  <2>1. ListInv(ring, win, cols)
    BY DEF IInv
  <2>2. \A k \in 1 .. Len(ring) : Place(ring, win, win[ring[k]].ref) = k
    BY <2>1, PlaceFinds DEF ListInv
  <2>3. {id \in Nodes : win[id] # None} = Listed
    <3>1. \A id \in Listed : id \in Nodes
      BY <2>1, ListedWindows DEF Listed
    <3>. QED  BY <2>1, <3>1 DEF ListInv, Listed
  <2>. QED  BY <2>2, <2>3 DEF EveryWindowIsFound
<1>. QED  BY <1>1, Invariance, PTL

\* As long as no freed memory was used, the window on the screen is one of the
\* list and no other one counts as visible.
THEOREM OneIsVisible == Spec => []OnlyCurrentIsVisible
<1>1. IInv => OnlyCurrentIsVisible
  BY DEF IInv, VisibleInv, OnlyCurrentIsVisible, Listed
<1>. QED  BY <1>1, Invariance, PTL

\* Every window is as wide as the screen.  It has an input line of its own exactly
\* if its option says so, and that line is as wide.  Nothing is said of the line
\* that the others share: screen_resize may leave it as it was.
THEOREM AllFit == Spec => []InputsFit
<1>1. IInv => InputsFit
  BY DEF IInv, ListInv, Fits, InputsFit, Listed
<1>. QED  BY <1>1, Invariance, PTL

\* There is a room to type to while the account is online, and never one that
\* was left.
THEOREM ARoomIsShown == Spec => []StatusShowsARoom
<1>1. IInv => StatusShowsARoom
  BY DEF IInv, RoomInv, StatusShowsARoom
<1>. QED  BY <1>1, Invariance, PTL

-----------------------------------------------------------------------------
(***************************************************************************)
(* Going through the windows                                               *)
(*                                                                         *)
(* A window that is m places after the current one is reached in m turns   *)
(* or less, by induction on m: the last one before it that is not to be    *)
(* skipped was, and the next turn from there ends at this one.             *)
(***************************************************************************)

\* The place that is k places after p, or before it, in a list of n.
After(p, k, n) == IF p + k <= n THEN p + k ELSE p + k - n
Before(p, k, n) == IF k < p THEN p - k ELSE p - k + n

\* What a number is, modulo a larger one, or one that is not twice as large.
LEMMA ModuloOf ==
    ASSUME NEW n \in Nat, n > 0, NEW x \in Int
    PROVE  /\ x \in 0 .. n - 1 => x % n = x
           /\ x \in n .. 2 * n - 1 => x % n = x - n
           /\ x \in -n .. -1 => x % n = x + n
<1>1. x \in 0 .. n - 1 => x % n = x
  OBVIOUS
<1>2. x \in n .. 2 * n - 1 => x % n = x - n
  OBVIOUS
<1>3. x \in -n .. -1 => x % n = x + n
  OBVIOUS
<1>. QED  BY <1>1, <1>2, <1>3

\* Places are counted around the list.
LEMMA PlacesAround ==
    ASSUME NEW n \in Nat, NEW p \in 1 .. n, NEW k \in 0 .. n
    PROVE  /\ ((p - 1 + 1 * k) % n) + 1 = After(p, k, n) /\ After(p, k, n) \in 1 .. n
           /\ ((p - 1 + -1 * k) % n) + 1 = Before(p, k, n) /\ Before(p, k, n) \in 1 .. n
<1>1. n > 0 /\ p - 1 + k \in Int /\ p - 1 - k \in Int
  OBVIOUS
<1>2. After(p, k, n) \in 1 .. n /\ Before(p, k, n) \in 1 .. n
  BY DEF After, Before
<1>3. (p - 1 + k) % n = After(p, k, n) - 1
  <2>1. CASE p + k <= n
    BY <2>1, <1>1, ModuloOf DEF After
  <2>2. CASE p + k > n
    BY <2>2, <1>1, ModuloOf DEF After
  <2>. QED  BY <2>1, <2>2
<1>4. (p - 1 - k) % n = Before(p, k, n) - 1
  <2>1. CASE k < p
    BY <2>1, <1>1, ModuloOf DEF Before
  <2>2. CASE k >= p
    BY <2>2, <1>1, ModuloOf DEF Before
  <2>. QED  BY <2>1, <2>2
<1>5. p - 1 + 1 * k = p - 1 + k /\ p - 1 + -1 * k = p - 1 - k
  OBVIOUS
<1>. QED  BY <1>2, <1>3, <1>4, <1>5

\* The place that a search from p looks at in turn k.
Looked(p, d, k, n) == IF d = 1 THEN After(p, k, n) ELSE Before(p, k, n)

\* A search ends at the first place it may end at.
LEMMA StepFromIs ==
    ASSUME NEW r \in Seq(Nodes), NEW w, NEW at \in 1 .. Len(r), NEW d \in {1, -1},
           NEW s \in 1 .. Len(r), ~w[r[Looked(at, d, s, Len(r))]].skip \/ s = Len(r),
           \A j \in 1 .. s - 1 : w[r[Looked(at, d, j, Len(r))]].skip
    PROVE  StepFrom(r, w, at, d) = r[Looked(at, d, s, Len(r))]
<1> DEFINE n == Len(r)
           to(k) == r[((at - 1 + d * k) % n) + 1]
           P(k) == /\ ~w[to(k)].skip \/ k = n
                   /\ \A j \in 1 .. k - 1 : w[to(j)].skip
           c == CHOOSE k \in 1 .. n : P(k)
<1>1. n \in Nat /\ s \in 1 .. n /\ s - 1 <= n
  OBVIOUS
<1>2. \A k \in 1 .. n : to(k) = r[Looked(at, d, k, n)]
  <2>1. ASSUME NEW k \in 1 .. n PROVE ((at - 1 + d * k) % n) + 1 = Looked(at, d, k, n)
    <3>. HIDE DEF n
    <3>0. n \in Nat /\ at \in 1 .. n /\ k \in 0 .. n
      BY <1>1 DEF n
    <3>1. CASE d = 1
      BY <3>0, <3>1, PlacesAround DEF Looked
    <3>2. CASE d = -1
      <4>1. d # 1
        BY <3>2
      <4>. QED  BY <3>0, <3>2, <4>1, PlacesAround DEF Looked
    <3>. QED  BY <3>1, <3>2
  <2>. QED  BY <2>1
<1>3. StepFrom(r, w, at, d) = to(c)
  BY DEF StepFrom
<1>. HIDE DEF n, to
<1>4. P(s)
  <2>1. \A j \in 1 .. s - 1 : j \in 1 .. n
    BY <1>1
  <2>. QED  BY <1>1, <1>2, <2>1 DEF n
<1>5. ASSUME NEW k \in 1 .. n, P(k) PROVE k = s
  <2>1. ~(k < s)
    <3>1. ASSUME k < s PROVE FALSE
      <4>1. k \in 1 .. s - 1 /\ k # n
        BY <1>1, <3>1
      <4>. QED  BY <4>1, <1>4, <1>5
    <3>. QED  BY <3>1
  <2>2. ~(s < k)
    <3>1. ASSUME s < k PROVE FALSE
      <4>1. s \in 1 .. k - 1 /\ s # n
        BY <1>1, <3>1
      <4>. QED  BY <4>1, <1>4, <1>5
    <3>. QED  BY <3>1
  <2>. QED  BY <1>1, <2>1, <2>2
<1>6. c = s
  <2>. HIDE DEF P
  <2>. QED  BY <1>1, <1>4, <1>5
<1>. HIDE DEF c
<1>7. to(s) = r[Looked(at, d, s, Len(r))]
  BY <1>1, <1>2 DEF n
<1>. QED  BY <1>3, <1>6, <1>7

\* Forwards it ends at the first window after p that is not to be skipped.
LEMMA StepsForward ==
    ASSUME NEW r \in Seq(Nodes), NEW w, NEW p \in 1 .. Len(r),
           NEW s \in 1 .. Len(r), ~w[r[After(p, s, Len(r))]].skip \/ s = Len(r),
           \A j \in 1 .. s - 1 : w[r[After(p, j, Len(r))]].skip
    PROVE  StepFrom(r, w, p, 1) = r[After(p, s, Len(r))]
<1>1. \A k : Looked(p, 1, k, Len(r)) = After(p, k, Len(r))
  BY DEF Looked
<1>2. 1 \in {1, -1}
  OBVIOUS
<1>. QED  BY <1>1, <1>2, StepFromIs

\* Backwards, at the first one before p.
LEMMA StepsBackward ==
    ASSUME NEW r \in Seq(Nodes), NEW w, NEW p \in 1 .. Len(r),
           NEW s \in 1 .. Len(r), ~w[r[Before(p, s, Len(r))]].skip \/ s = Len(r),
           \A j \in 1 .. s - 1 : w[r[Before(p, j, Len(r))]].skip
    PROVE  StepFrom(r, w, p, -1) = r[Before(p, s, Len(r))]
<1>1. -1 # 1 /\ -1 \in {1, -1}
  OBVIOUS
<1>2. \A k : Looked(p, -1, k, Len(r)) = Before(p, k, Len(r))
  BY <1>1 DEF Looked
<1>. QED  BY <1>1, <1>2, StepFromIs

\* There is a place to end at.
LEMMA StopExists ==
    ASSUME NEW n \in Nat, n > 0, NEW Skip
    PROVE  \E s \in 1 .. n : (s \notin Skip \/ s = n) /\ \A j \in 1 .. s - 1 : j \in Skip
<1> DEFINE K == {k \in 1 .. n : k \notin Skip \/ k = n}
           m == Min(K)
<1>1. K \in SUBSET Nat /\ n \in K
  OBVIOUS
<1>2. m \in K /\ \A y \in K : m <= y
  <2>. HIDE DEF K
  <2>. QED  BY <1>1, MinOf
<1>3. m \in 1 .. n /\ (m \notin Skip \/ m = n)
  BY <1>2
<1>4. \A j \in 1 .. m - 1 : j \in 1 .. n /\ j \notin K
  <2>. HIDE DEF m, K
  <2>. QED  BY <1>2, <1>3
<1>5. \A j \in 1 .. m - 1 : j \in Skip
  BY <1>4
<1>. HIDE DEF m
<1>. QED  BY <1>3, <1>5

\* A window is where it is looked for.
LEMMA PlaceOfIs ==
    ASSUME ring \in Seq(Nodes), Numbered(ring, win), NEW k \in 1 .. Len(ring)
    PROVE  PlaceOf(ring[k]) = k
<1> DEFINE I == {i \in 1 .. Len(ring) : ring[i] = ring[k]}
<1>1. k \in I /\ I \in SUBSET Nat
  OBVIOUS
<1>2. \A i \in I : i = k
  BY NumberedOnce
<1>3. I = {k}
  BY <1>1, <1>2
<1>4. PlaceOf(ring[k]) = Min(I)
  BY <1>1 DEF PlaceOf, SelectInSeq
<1>. HIDE DEF I
<1>5. Min(I) = k
  BY <1>1, <1>3, MinOf
<1>. QED  BY <1>4, <1>5

\* /win next comes back with /win prev, to a window that is not to be skipped.
LEMMA ThereAndBack ==
    ASSUME ring \in Seq(Nodes), Numbered(ring, win), cur \in ToSet(ring), ~win[cur].skip
    PROVE  StepFrom(ring, win, PlaceOf(Cycled(1)), -1) = cur
<1> DEFINE n == Len(ring)
<1>1. PICK p \in 1 .. n : ring[p] = cur
  BY RingType
<1>2. n \in Nat /\ n > 0 /\ PlaceOf(cur) = p
  BY <1>1, PlaceOfIs
<1> DEFINE Skip == {k \in 1 .. n : win[ring[After(p, k, n)]].skip}
<1>3. PICK s \in 1 .. n : (s \notin Skip \/ s = n) /\ \A j \in 1 .. s - 1 : j \in Skip
  <2>. HIDE DEF Skip, n
  <2>. QED  BY <1>2, StopExists
<1> DEFINE q == After(p, s, n)
<1>4. Cycled(1) = ring[q]
  <2>1. Cycled(1) = StepFrom(ring, win, p, 1)
    BY <1>2 DEF Cycled, PlaceOf
  <2>2. (~win[ring[q]].skip \/ s = n) /\ \A j \in 1 .. s - 1 : win[ring[After(p, j, n)]].skip
    BY <1>3
  <2>3. StepFrom(ring, win, p, 1) = ring[q]
    BY <2>2, StepsForward
  <2>. QED  BY <2>1, <2>3
<1>5. q \in 1 .. n /\ PlaceOf(ring[q]) = q
  <2>1. s \in 0 .. n
    BY <1>2
  <2>2. q \in 1 .. n
    BY <1>2, <2>1, PlacesAround
  <2>. QED  BY <2>2, PlaceOfIs
<1>6. Before(q, s, n) = p /\ \A j \in 1 .. s - 1 : s - j \in 1 .. s - 1 /\ Before(q, j, n) = After(p, s - j, n)
  <2>. HIDE DEF n
  <2>. QED  BY <1>2, <1>5 DEF After, Before
<1>7. \A j \in 1 .. s - 1 : win[ring[Before(q, j, n)]].skip
  <2>1. ASSUME NEW j \in 1 .. s - 1 PROVE win[ring[Before(q, j, n)]].skip
    <3>1. s - j \in Skip /\ Before(q, j, n) = After(p, s - j, n)
      BY <1>3, <1>6
    <3>. QED  BY <3>1
  <2>. QED  BY <2>1
<1>8. StepFrom(ring, win, q, -1) = ring[p]
  <2>. HIDE DEF q
  <2>1. ~win[ring[Before(q, s, n)]].skip
    BY <1>1, <1>6
  <2>. QED  BY <1>5, <1>6, <1>7, <2>1, StepsBackward
<1>. QED  BY <1>1, <1>4, <1>5, <1>8

\* Going round, turn after turn.
LEMMA AroundTurns ==
    ASSUME ring \in Seq(Nodes), Numbered(ring, win), cur \in ToSet(ring)
    PROVE  /\ Around[0] = cur
           /\ \A k \in 1 .. Len(ring) : Around[k] = StepFrom(ring, win, PlaceOf(Around[k - 1]), 1)
           /\ \A k \in 0 .. Len(ring) : Around[k] \in ToSet(ring)
<1> DEFINE n == Len(ring)
           X == ToSet(ring)
           G(x) == StepFrom(ring, win, PlaceOf(x), 1)
           Turns(f) == f = [k \in 0 .. n |-> IF k = 0 THEN cur ELSE G(f[k - 1])]
           g == [k \in 1 .. n |-> [x \in X |-> G(x)]]
           h == Around
<1>1. n \in Nat
  OBVIOUS
<1>2. h = CHOOSE f : Turns(f)
  BY DEF Around
<1>. HIDE DEF h
<1>3. \A x \in X : G(x) \in X
  <2>1. ASSUME NEW x \in X PROVE G(x) \in X
    <3>1. PICK k \in 1 .. n : ring[k] = x
      BY RingType
    <3>2. PlaceOf(x) = k
      BY <3>1, PlaceOfIs
    <3>. QED  BY <3>2, StepFromListed
  <2>. QED  BY <2>1
<1>. HIDE DEF G, n, X
<1>4. PICK s : s \in [0 .. n -> X] /\ IsLoop(s, cur, g, n)
  <2>1. TurnsIn(X, g, n)
    BY <1>3 DEF TurnsIn
  <2>2. cur \in X
    BY DEF X
  <2>. HIDE DEF g
  <2>. QED  BY <1>1, <2>1, <2>2, LoopExists
<1>5. s[0] = cur /\ \A k \in 1 .. n : s[k] = G(s[k - 1])
  <2>1. ASSUME NEW k \in 1 .. n PROVE s[k] = G(s[k - 1])
    <3>1. s[k] = g[k][s[k - 1]] /\ s[k - 1] \in X
      <4>. HIDE DEF g
      <4>. QED  BY <1>1, <1>4 DEF IsLoop
    <3>. QED  BY <3>1
  <2>. QED  BY <1>4, <2>1 DEF IsLoop
<1>6. Turns(s)
  <2>1. s = [k \in 0 .. n |-> s[k]]
    BY <1>4
  <2>2. \A k \in 0 .. n : s[k] = IF k = 0 THEN cur ELSE G(s[k - 1])
    BY <1>1, <1>5
  <2>. QED  BY <2>1, <2>2
<1>7. Turns(h)
  <2>. HIDE DEF Turns
  <2>. QED  BY <1>2, <1>6
<1>8. \A k \in 0 .. n : h[k] = IF k = 0 THEN cur ELSE G(h[k - 1])
  <2> DEFINE ff == [k \in 0 .. n |-> IF k = 0 THEN cur ELSE G(h[k - 1])]
  <2>1. h = ff
    BY <1>7
  <2>2. \A k \in 0 .. n : ff[k] = IF k = 0 THEN cur ELSE G(h[k - 1])
    OBVIOUS
  <2>. HIDE DEF ff
  <2>. QED  BY <2>1, <2>2
<1>9. h[0] = cur /\ \A k \in 1 .. n : h[k] = G(h[k - 1])
  BY <1>1, <1>8
<1>10. \A k \in 0 .. n : h[k] \in X
  <2> DEFINE T == {k \in 0 .. n : h[k] \in X}
  <2>1. 0 \in T
    BY <1>1, <1>9 DEF X
  <2>2. ASSUME NEW k \in 1 .. n, k - 1 \in T PROVE k \in T
    BY <1>1, <1>3, <1>9, <2>2
  <2>. HIDE DEF T
  <2>3. \A k \in 0 .. n : k \in T
    BY <1>1, <2>1, <2>2, UpToInduction
  <2>. QED  BY <2>3 DEF T
<1>. QED  BY <1>9, <1>10, Zenon DEF h, G, X, n

\* After(p, j, n), and from there.
LEMMA AfterAfter ==
    ASSUME NEW n \in Nat, NEW p \in 1 .. n, NEW j \in 0 .. n, NEW i \in 0 .. n - j
    PROVE  j + i \in 0 .. n /\ After(After(p, j, n), i, n) = After(p, j + i, n)
  BY DEF After

\* A window m places after the current one is reached in m turns or less,
\* unless it is to be skipped.
LEMMA AroundReaches ==
    ASSUME ring \in Seq(Nodes), Numbered(ring, win), NEW p \in 1 .. Len(ring), ring[p] = cur
    PROVE  \A m \in 1 .. Len(ring) :
              ~win[ring[After(p, m, Len(ring))]].skip =>
                 \E k \in 1 .. m : Around[k] = ring[After(p, m, Len(ring))]
<1> DEFINE n == Len(ring)
           to(j) == ring[After(p, j, n)]
           Open == {j \in 1 .. n : ~win[to(j)].skip}
           Met == {m \in 0 .. n : \E k \in 0 .. m : (m > 0 => k > 0) /\ Around[k] = to(m)}
           T == {m \in 0 .. n : \A j \in 0 .. m : (j = 0 \/ j \in Open) => j \in Met}
<1>1. n \in Nat /\ n > 0 /\ cur \in ToSet(ring)
  BY RingType
<1>2. \A j \in 0 .. n : After(p, j, n) \in 1 .. n /\ PlaceOf(to(j)) = After(p, j, n)
  <2>1. ASSUME NEW j \in 0 .. n PROVE After(p, j, n) \in 1 .. n /\ PlaceOf(to(j)) = After(p, j, n)
    <3>1. After(p, j, n) \in 1 .. n
      BY <1>1, PlacesAround
    <3>. QED  BY <3>1, PlaceOfIs
  <2>. QED  BY <2>1
<1>3. 0 \in Met
  <2>1. After(p, 0, n) = p
    BY <1>1 DEF After
  <2>2. Around[0] = cur /\ to(0) = cur
    BY <1>1, <2>1, AroundTurns
  <2>3. 0 \in 0 .. n /\ 0 \in 0 .. 0 /\ ~(0 > 0)
    BY <1>1
  <2>. QED  BY <2>2, <2>3
<1>4. 0 \in T
  <2>1. \A j \in 0 .. 0 : j = 0
    OBVIOUS
  <2>. HIDE DEF Open, Met
  <2>. QED  BY <1>1, <1>3, <2>1
<1>5. ASSUME NEW m \in 1 .. n, m - 1 \in T, m \in Open PROVE m \in Met
  <2> DEFINE J == {j \in 0 .. m - 1 : j = 0 \/ j \in Open}
             j == Max(J)
  <2>1. j \in J /\ \A y \in J : y <= j
    <3>1. m - 1 \in Nat /\ J \in SUBSET (0 .. m - 1) /\ 0 \in J
      BY <1>1
    <3>. HIDE DEF J
    <3>. QED  BY <3>1, MaxOf
  <2>2. j \in 0 .. m - 1 /\ (j = 0 \/ j \in Open)
    BY <2>1
  <2>3. \A i \in j + 1 .. m - 1 : i \in 1 .. n /\ i \notin Open
    <3>1. ASSUME NEW i \in j + 1 .. m - 1 PROVE i \in 1 .. n /\ i \notin Open
      <4>1. i \in 0 .. m - 1 /\ ~(i <= j) /\ i \in 1 .. n
        <5>. HIDE DEF J, j
        <5>. QED  BY <1>1, <2>2
      <4>2. i \notin J
        <5>. HIDE DEF J, j
        <5>. QED  BY <2>1, <4>1
      <4>. QED  BY <4>1, <4>2
    <3>. QED  BY <3>1
  <2>. HIDE DEF J, j
  <2>4. j \in Met
    <3>1. j \in 0 .. m - 1
      BY <2>2
    <3>. HIDE DEF Open, Met
    <3>. QED  BY <1>5, <2>2, <3>1
  <2>5. PICK k \in 0 .. j : Around[k] = to(j)
    BY <2>4
  <2> DEFINE q == After(p, j, n)
             s == m - j
  <2>6. j \in 0 .. n /\ s \in 1 .. n /\ s \in 0 .. n - j /\ j + s = m
        /\ k + 1 \in 1 .. n /\ k + 1 \in 1 .. m /\ k + 1 - 1 = k
    <3>. HIDE DEF n
    <3>. QED  BY <1>1, <2>2
  <2>7. q \in 1 .. n /\ PlaceOf(Around[k]) = q
    BY <1>2, <2>5, <2>6
  <2>8. After(q, s, n) = After(p, m, n)
    BY <1>1, <2>6, AfterAfter
  <2>9. \A i \in 1 .. s - 1 : win[ring[After(q, i, n)]].skip
    <3>1. ASSUME NEW i \in 1 .. s - 1 PROVE win[ring[After(q, i, n)]].skip
      <4>1. i \in 0 .. n - j /\ j + i \in j + 1 .. m - 1
        <5>. HIDE DEF n
        <5>. QED  BY <1>1, <2>2
      <4>2. After(q, i, n) = After(p, j + i, n)
        BY <1>1, <2>6, <4>1, AfterAfter
      <4>3. j + i \in 1 .. n /\ j + i \notin Open
        BY <2>3, <4>1
      <4>. QED  BY <4>2, <4>3
    <3>. QED  BY <3>1
  <2>10. ~win[ring[After(q, s, n)]].skip
    BY <1>5, <2>8
  <2>. HIDE DEF q, s
  <2>11. StepFrom(ring, win, q, 1) = ring[After(q, s, n)]
    BY <2>6, <2>7, <2>9, <2>10, StepsForward
  <2>12. Around[k + 1] = StepFrom(ring, win, PlaceOf(Around[k]), 1)
    <3>1. \A x \in 1 .. n : Around[x] = StepFrom(ring, win, PlaceOf(Around[x - 1]), 1)
      BY <1>1, AroundTurns
    <3>. QED  BY <2>6, <3>1
  <2>13. Around[k + 1] = to(m)
    BY <2>7, <2>8, <2>11, <2>12
  <2>14. m \in 0 .. n /\ k + 1 \in 0 .. m /\ k + 1 > 0
    BY <2>6
  <2>. QED  BY <2>13, <2>14
<1>6. \A m \in 1 .. n : m - 1 \in T => m \in T
  <2>1. ASSUME NEW m \in 1 .. n, m - 1 \in T PROVE m \in T
    <3>1. m \in Open => m \in Met
      BY <1>5, <2>1
    <3>2. m \in 0 .. n /\ m # 0 /\ \A j \in 0 .. m : j = m \/ j \in 0 .. m - 1
      BY <1>1
    <3>. HIDE DEF Open, Met
    <3>. QED  BY <2>1, <3>1, <3>2
  <2>. QED  BY <2>1
<1>7. \A m \in 0 .. n : m \in T
  <2>. HIDE DEF T, n
  <2>. QED  BY <1>1, <1>4, <1>6, UpToInduction
<1>8. ASSUME NEW m \in 1 .. n, ~win[to(m)].skip PROVE \E k \in 1 .. m : Around[k] = to(m)
  <2>1. m \in 0 .. n /\ m \in 0 .. m /\ m \in Open /\ m > 0
    BY <1>8
  <2>2. m \in Met
    <3>. HIDE DEF Open, Met
    <3>. QED  BY <1>7, <2>1
  <2>3. PICK k \in 0 .. m : k > 0 /\ Around[k] = to(m)
    BY <2>1, <2>2
  <2>4. k \in 1 .. m
    BY <2>3
  <2>. QED  BY <2>3, <2>4
<1>. QED  BY <1>8

\* Every window is somewhere after the current one.
LEMMA EveryPlaceIsAfter ==
    ASSUME NEW n \in Nat, NEW p \in 1 .. n, NEW x \in 1 .. n
    PROVE  \E m \in 1 .. n : After(p, m, n) = x
<1>1. CASE x > p
  <2>1. x - p \in 1 .. n /\ After(p, x - p, n) = x
    BY <1>1 DEF After
  <2>. QED  BY <2>1
<1>2. CASE x <= p
  <2>1. x - p + n \in 1 .. n /\ After(p, x - p + n, n) = x
    BY <1>2 DEF After
  <2>. QED  BY <2>1
<1>. QED  BY <1>1, <1>2

\* Going through the windows with /win next reaches every one that is not to
\* be skipped in as many turns as there are windows, and /win prev undoes
\* /win next.
THEOREM CyclingGoesRound == Spec => []CyclingReachesAll
<1>1. ASSUME IInv, ok PROVE CyclingReachesAll
  <2>1. ring \in Seq(Nodes) /\ Numbered(ring, win) /\ cur \in ToSet(ring)
    BY <1>1 DEF IInv, ListInv, VisibleInv
  <2>2. PICK p \in 1 .. Len(ring) : ring[p] = cur
    BY <2>1, RingType
  <2>3. ASSUME NEW id \in ToSet(ring), ~win[id].skip
        PROVE  \E k \in 1 .. Len(ring) : Around[k] = id
    <3>1. PICK x \in 1 .. Len(ring) : ring[x] = id
      BY <2>1, RingType
    <3>2. PICK m \in 1 .. Len(ring) : After(p, m, Len(ring)) = x
      BY <2>1, RingType, EveryPlaceIsAfter
    <3>3. ~win[ring[After(p, m, Len(ring))]].skip
      BY <2>3, <3>1, <3>2
    <3>4. PICK k \in 1 .. m : Around[k] = ring[After(p, m, Len(ring))]
      BY <2>1, <2>2, <3>3, AroundReaches
    <3>5. k \in 1 .. Len(ring)
      BY <2>1
    <3>. QED  BY <3>1, <3>2, <3>4, <3>5
  <2>4. {id \in ToSet(ring) : ~win[id].skip} \subseteq {Around[k] : k \in 1 .. Len(ring)}
    BY <2>3
  <2>5. cur \in {id \in ToSet(ring) : ~win[id].skip}
            => StepFrom(ring, win, PlaceOf(Cycled(1)), -1) = cur
    BY <2>1, ThereAndBack
  <2>. QED  BY <2>4, <2>5 DEF CyclingReachesAll, Listed
<1>2. IInv => CyclingReachesAll
  BY <1>1 DEF CyclingReachesAll
<1>. QED  BY <1>2, Invariance, PTL
=============================================================================
