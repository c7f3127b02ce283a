------------------------------ MODULE ListProofs ------------------------------
(***************************************************************************)
(* Theorems about the pages of ThreadList, for every finite set of rows,   *)
(* every page size, and every number of clients and changes.               *)
(***************************************************************************)
EXTENDS ThreadList, FiniteSetTheorems, FunctionTheorems, SequenceTheorems, TLAPS

-----------------------------------------------------------------------------
(* The order of the rows, and the page of the first of them                *)

LEMMA Smaller ==
  ASSUME NEW a \in Int, NEW b \in Int
  PROVE  Min({a, b}) = IF a <= b THEN a ELSE b
  BY DEF Min

Stamped == stamp \in [Threads -> Nat]

(* Ids break the ties: of two rows one is newer. *)
LEMMA NewerIsOrder ==
  ASSUME Stamped
  PROVE  /\ \A t \in Threads : ~Newer(t, t)
         /\ \A s, t, u \in Threads : Newer(s, t) /\ Newer(t, u) => Newer(s, u)
         /\ \A s, t \in Threads : s = t \/ Newer(s, t) \/ Newer(t, s)
<1>1. \A t \in Threads : t \in Int /\ stamp[t] \in Int
  BY ListAssumption DEF Stamped
<1> QED
  BY <1>1 DEF Newer

\* How many of the rows are newer.
Ahead(rows, t) == {s \in rows : Newer(s, t)}

LEMMA AheadGrows ==
  ASSUME Stamped, NEW rows \in SUBSET Threads, NEW s \in rows, NEW t \in rows, Newer(s, t)
  PROVE  Cardinality(Ahead(rows, s)) < Cardinality(Ahead(rows, t))
<1>1. Ahead(rows, s) \subseteq Ahead(rows, t) /\ s \in Ahead(rows, t) /\ s \notin Ahead(rows, s)
  BY NewerIsOrder DEF Ahead
<1>2. IsFiniteSet(rows) /\ IsFiniteSet(Ahead(rows, t))
  BY ListAssumption, FS_Subset DEF Ahead
<1>3. /\ Cardinality(Ahead(rows, s)) <= Cardinality(Ahead(rows, t))
      /\ Cardinality(Ahead(rows, s)) = Cardinality(Ahead(rows, t))
         => Ahead(rows, s) = Ahead(rows, t)
      /\ IsFiniteSet(Ahead(rows, s))
  BY <1>1, <1>2, FS_Subset
<1>4. Cardinality(Ahead(rows, s)) \in Nat /\ Cardinality(Ahead(rows, t)) \in Nat
  BY <1>2, <1>3, FS_CardinalityType
<1> QED
  BY <1>1, <1>3, <1>4

(* As many rows are ahead of a row as its place says, and the places are    *)
(* all taken: were one free, two rows would share another.                  *)
LEMMA PlacesTaken ==
  ASSUME Stamped, NEW rows \in SUBSET Threads
  PROVE  /\ IsFiniteSet(rows) /\ Cardinality(rows) \in Nat
         /\ \A t \in rows : Cardinality(Ahead(rows, t)) \in 0 .. Cardinality(rows) - 1
         /\ \A i \in 1 .. Cardinality(rows) :
               \E t \in rows : Cardinality(Ahead(rows, t)) = i - 1
<1> DEFINE n == Cardinality(rows)
           ahead(t) == Cardinality(Ahead(rows, t))
<1>1. IsFiniteSet(rows) /\ n \in Nat
  BY ListAssumption, FS_Subset, FS_CardinalityType
<1>2. ASSUME NEW t \in rows PROVE ahead(t) \in 0 .. n - 1
  <2>1. Ahead(rows, t) \subseteq rows /\ t \notin Ahead(rows, t)
    BY NewerIsOrder DEF Ahead
  <2>2. ahead(t) <= n /\ (ahead(t) = n => Ahead(rows, t) = rows) /\ IsFiniteSet(Ahead(rows, t))
    BY <1>1, <2>1, FS_Subset
  <2>3. ahead(t) \in Nat
    BY <2>2, FS_CardinalityType
  <2> QED
    BY <1>1, <2>1, <2>2, <2>3
<1>3. ASSUME NEW s \in rows, NEW t \in rows, s # t PROVE ahead(s) # ahead(t)
  <2>1. ahead(s) \in Nat /\ ahead(t) \in Nat
    BY <1>1, <1>2
  <2>2. Newer(s, t) \/ Newer(t, s)
    BY <1>3, NewerIsOrder
  <2> QED
    BY <2>1, <2>2, AheadGrows
<1> HIDE DEF ahead, n
<1>4. ASSUME NEW i \in 1 .. n, \A t \in rows : ahead(t) # i - 1 PROVE FALSE
  <2> DEFINE free == (0 .. n - 1) \ {i - 1}
             f == [t \in rows |-> ahead(t)]
  <2>1. f \in [rows -> free]
    BY <1>2, <1>4
  <2>2. IsFiniteSet(0 .. n - 1) /\ Cardinality(0 .. n - 1) = n
    <3>1. /\ IsFiniteSet(0 .. n - 1)
          /\ Cardinality(0 .. n - 1) = IF 0 > n - 1 THEN 0 ELSE (n - 1) - 0 + 1
      BY <1>1, FS_Interval
    <3> QED
      BY <1>1, <1>4, <3>1
  <2>3. IsFiniteSet(free) /\ Cardinality(free) = n - 1
    <3>1. i - 1 \in 0 .. n - 1
      BY <1>1
    <3>2. PICK places, x : places = 0 .. n - 1 /\ x = i - 1
      OBVIOUS
    <3>3. /\ IsFiniteSet(places \ {x})
          /\ Cardinality(places \ {x}) = IF x \in places THEN Cardinality(places) - 1
                                         ELSE Cardinality(places)
      <4>1. IsFiniteSet(places)
        BY <2>2, <3>2
      <4> QED
        BY <4>1, FS_RemoveElement, Zenon
    <3> QED
      BY <2>2, <3>1, <3>2, <3>3
  <2>4. Cardinality(free) < Cardinality(rows)
    BY <1>1, <2>3 DEF n
  <2>5. \E s, t \in rows : s # t /\ f[s] = f[t]
    <3> HIDE DEF f, free
    <3> QED
      BY <1>1, <2>1, <2>3, <2>4, FS_PigeonHole
  <2> QED
    BY <1>3, <2>5
<1> QED
  BY <1>1, <1>2, <1>4 DEF ahead, n

(* A page is sorted, has no row twice, and leaves out only rows older than  *)
(* all it has, and these only if it is full.                                *)
LEMMA NewestIs ==
  ASSUME Stamped, NEW rows \in SUBSET Threads
  PROVE  LET page == Newest(rows)
         IN  /\ page \in Seq(Threads) /\ Len(page) <= PageSize
             /\ \A i \in DOMAIN page : page[i] \in rows
             /\ \A i, j \in DOMAIN page : i < j => Newer(page[i], page[j])
             /\ \A t \in rows : (Len(page) = PageSize => ~Newer(page[Len(page)], t))
                                => \E i \in DOMAIN page : page[i] = t
<1> DEFINE n == Cardinality(rows)
           l == IF PageSize <= n THEN PageSize ELSE n
           page == Newest(rows)
<1>1. /\ n \in Nat /\ PageSize \in Nat /\ PageSize > 0
      /\ \A t \in rows : Cardinality(Ahead(rows, t)) \in 0 .. n - 1
      /\ \A i \in 1 .. n : \E t \in rows : Cardinality(Ahead(rows, t)) = i - 1
  BY PlacesTaken, ListAssumption
<1>2. page = [i \in 1 .. l |-> Nth(rows, i)]
  BY <1>1, Smaller DEF Newest
<1>3. \A i \in 1 .. n : Nth(rows, i) \in rows /\ Cardinality(Ahead(rows, Nth(rows, i))) = i - 1
  BY <1>1 DEF Nth, Ahead
<1> HIDE DEF page, n
<1>4. l \in Nat /\ l <= n /\ l <= PageSize /\ (l # PageSize => l = n)
  BY <1>1
<1> HIDE DEF l
<1>5. \A i \in 1 .. l : /\ page[i] \in rows /\ page[i] \in Threads
                        /\ Cardinality(Ahead(rows, page[i])) = i - 1
  BY <1>1, <1>2, <1>3, <1>4
<1>6. page \in Seq(Threads) /\ Len(page) = l /\ DOMAIN page = 1 .. l
  <2>1. page \in [1 .. l -> Threads]
    BY <1>2, <1>5
  <2> QED
    BY <1>4, <2>1
<1>7. ASSUME NEW i \in 1 .. l, NEW j \in 1 .. l, i < j PROVE Newer(page[i], page[j])
  <2>1. page[i] # page[j] /\ ~Newer(page[j], page[i])
    BY <1>5, <1>7, AheadGrows
  <2> QED
    BY <1>5, <2>1, NewerIsOrder
<1>8. ASSUME NEW t \in rows, l = PageSize => ~Newer(page[l], t)
      PROVE  \E i \in 1 .. l : page[i] = t
  <2> DEFINE p == Cardinality(Ahead(rows, t)) + 1
  <2>1. p \in 1 .. n /\ Cardinality(Ahead(rows, t)) = p - 1
    BY <1>1
  <2> HIDE DEF p
  <2>2. p <= l
    <3>1. CASE l # PageSize
      BY <1>4, <2>1, <3>1
    <3>2. CASE l = PageSize
      <4>1. l \in 1 .. l
        BY <1>1, <3>2
      <4>2. t = page[l] \/ Newer(t, page[l])
        BY <1>5, <1>8, <3>2, <4>1, NewerIsOrder
      <4>3. p - 1 <= l - 1
        BY <1>1, <1>4, <1>5, <2>1, <4>1, <4>2, AheadGrows
      <4> QED
        BY <1>4, <2>1, <4>3
    <3> QED
      BY <3>1, <3>2
  <2>3. p \in 1 .. l
    BY <1>4, <2>1, <2>2
  <2>4. page[p] = t
    <3>1. Cardinality(Ahead(rows, page[p])) = Cardinality(Ahead(rows, t))
      BY <1>5, <2>1, <2>3
    <3>2. ~Newer(page[p], t) /\ ~Newer(t, page[p])
      BY <1>1, <1>5, <2>3, <3>1, AheadGrows
    <3> QED
      BY <1>5, <2>3, <3>2, NewerIsOrder
  <2> QED
    BY <2>3, <2>4
<1> QED
  BY <1>1, <1>4, <1>5, <1>6, <1>7, <1>8 DEF page

-----------------------------------------------------------------------------
(* How often a thread is shown                                             *)

LEMMA TimesNone ==
  ASSUME NEW t, NEW s \in Seq(Threads), \A i \in DOMAIN s : s[i] # t
  PROVE  Times(t, s) = 0
<1>1. {i \in DOMAIN s : s[i] = t} = {}
  OBVIOUS
<1> QED
  BY <1>1, FS_EmptySet DEF Times

LEMMA TimesOnce ==
  ASSUME NEW t, NEW s \in Seq(Threads), NEW k \in DOMAIN s, s[k] = t,
         \A i \in DOMAIN s : s[i] = t => i = k
  PROVE  Times(t, s) = 1
<1>1. {i \in DOMAIN s : s[i] = t} = {k}
  OBVIOUS
<1> QED
  BY <1>1, FS_Singleton DEF Times

LEMMA TimesFound ==
  ASSUME NEW t, NEW s \in Seq(Threads), NEW k \in DOMAIN s, s[k] = t
  PROVE  Times(t, s) # 0
<1> DEFINE at == {i \in DOMAIN s : s[i] = t}
<1>1. DOMAIN s = 1 .. Len(s) /\ Len(s) \in Nat /\ k \in at
  OBVIOUS
<1>2. IsFiniteSet(1 .. Len(s))
  BY <1>1, FS_Interval
<1>3. IsFiniteSet(at)
  BY <1>1, <1>2, FS_Subset
<1> HIDE DEF at
<1>4. Cardinality(at) # 0
  BY <1>1, <1>3, FS_EmptySet
<1> QED
  BY <1>4 DEF Times, at

(* What two lists show together. *)
LEMMA TimesBoth ==
  ASSUME NEW t, NEW r \in Seq(Threads), NEW s \in Seq(Threads)
  PROVE  /\ Times(t, r \o s) = Times(t, r) + Times(t, s)
         /\ Times(t, r) \in Nat /\ Times(t, s) \in Nat
<1> DEFINE m == Len(r)
           n == Len(s)
           c == r \o s
           atR == {i \in DOMAIN r : r[i] = t}
           atS == {i \in DOMAIN s : s[i] = t}
           moved == {i \in m + 1 .. m + n : c[i] = t}
<1>1. /\ m \in Nat /\ n \in Nat /\ DOMAIN r = 1 .. m /\ DOMAIN s = 1 .. n
      /\ c \in Seq(Threads) /\ DOMAIN c = 1 .. m + n
      /\ \A i \in 1 .. m : c[i] = r[i]
      /\ \A i \in m + 1 .. m + n : c[i] = s[i - m]
  <2>1. /\ c \in Seq(Threads) /\ Len(c) = m + n
        /\ \A i \in 1 .. m + n : c[i] = IF i <= m THEN r[i] ELSE s[i - m]
    BY ConcatProperties
  <2>2. m \in Nat /\ n \in Nat
    OBVIOUS
  <2> HIDE DEF c, m, n
  <2>3. \A i \in 1 .. m : i \in 1 .. m + n /\ i <= m
    BY <2>2
  <2>4. \A i \in m + 1 .. m + n : i \in 1 .. m + n /\ ~ (i <= m)
    BY <2>2
  <2>5. DOMAIN c = 1 .. m + n
    BY <2>1, <2>2
  <2> QED
    BY <2>1, <2>2, <2>3, <2>4, <2>5 DEF m, n
<1> HIDE DEF c, m, n
<1>2. {i \in DOMAIN c : c[i] = t} = atR \cup moved /\ atR \cap moved = {}
  BY <1>1
<1>3. IsFiniteSet(atR) /\ IsFiniteSet(atS) /\ IsFiniteSet(moved)
  <2>1. IsFiniteSet(1 .. m) /\ IsFiniteSet(1 .. n) /\ IsFiniteSet(m + 1 .. m + n)
    BY <1>1, FS_Interval
  <2> QED
    BY <1>1, <2>1, FS_Subset
<1>4. Cardinality(moved) = Cardinality(atS)
  <2> DEFINE f == [i \in atS |-> i + m]
  <2>1. f \in [atS -> moved]
    <3>1. ASSUME NEW i \in atS PROVE i + m \in moved
      <4>1. i + m \in m + 1 .. m + n /\ (i + m) - m = i
        BY <1>1
      <4> QED
        BY <1>1, <4>1
    <3> QED
      BY <3>1
  <2>2. ASSUME NEW j \in moved PROVE \E i \in atS : f[i] = j
    <3>1. j - m \in 1 .. n /\ (j - m) + m = j /\ j \in m + 1 .. m + n
      BY <1>1
    <3>2. j - m \in atS
      BY <1>1, <3>1
    <3> QED
      BY <3>1, <3>2
  <2>3. \A i, j \in atS : f[i] = f[j] => i = j
    BY <1>1
  <2>4. f \in Bijection(atS, moved)
    <3> HIDE DEF f, atS, moved
    <3> QED
      BY <2>1, <2>2, <2>3, Fun_IsBij
  <2>5. ExistsBijection(atS, moved)
    BY <2>4 DEF ExistsBijection
  <2> QED
    <3> HIDE DEF atS, moved
    <3> QED
      BY <1>3, <2>5, FS_Bijection
<1> HIDE DEF atR, atS, moved
<1>5. Cardinality(atR \cup moved) = Cardinality(atR) + Cardinality(moved)
  <2>1. /\ Cardinality(atR \cup moved) =
              Cardinality(atR) + Cardinality(moved) - Cardinality(atR \cap moved)
        /\ Cardinality(atR) \in Nat /\ Cardinality(moved) \in Nat
    BY <1>3, FS_Union, FS_CardinalityType
  <2> QED
    <3>1. Cardinality(atR \cap moved) = 0
      BY <1>2, FS_EmptySet
    <3> QED
      BY <2>1, <3>1
<1>6. Cardinality(atR) \in Nat /\ Cardinality(atS) \in Nat
  BY <1>3, FS_CardinalityType
<1> QED
  BY <1>2, <1>4, <1>5, <1>6 DEF Times, c, atR, atS

-----------------------------------------------------------------------------
(* What a page has, and what a walk has shown                              *)

\* A page that begins behind k has left t behind it.
Past(st, t, k) == k # Top /\ (st[t] > st[k] \/ (st[t] = st[k] /\ t >= k))

(* Of the rows that have not changed since a page was read, it has each     *)
(* from its cursor to its last item once, and no other.  It says nothing    *)
(* when its cursor, or the cursor it hands out, has changed.                *)
PageOK(st, page, k) ==
    LET full == Len(page.items) = PageSize
        last == Last(page.items)
    IN /\ k = Top \/ (k \notin page.changed /\ st[k] > 0)
       /\ full => last \notin page.changed
       => /\ full => st[last] > 0
          /\ \A t \in Threads \ page.changed : st[t] > 0 =>
                Times(t, page.items) =
                IF ~Past(st, t, k) /\ (full => Past(st, t, last)) THEN 1 ELSE 0

(* A client has been shown the undisturbed rows up to its cursor once, and  *)
(* when it is done all of them.                                             *)
WalkOK(st, m) ==
    m.pc # "idle" /\ m.cursors \cap m.disturbed = {} =>
       /\ \A k \in m.cursors : st[k] > 0
       /\ m.pc # "done" => m.before \in m.cursors \cup {Top}
       /\ \A t \in Threads \ m.disturbed : st[t] > 0 =>
             Times(t, m.seen) = IF m.pc = "done" \/ Past(st, t, m.before) THEN 1 ELSE 0

(* The time a client has read for its cursor is that of the row, or the     *)
(* row has changed since; and the page it is about to send is one.          *)
ReadOK(st, m) ==
    /\ m.pc = "rows" /\ m.before # Top /\ m.before \notin m.page.changed
       => m.at = st[m.before]
    /\ m.pc = "reply" => PageOK(st, m.page, m.before)

LEMMA LastIs ==
  ASSUME NEW items \in Seq(Threads), Len(items) = PageSize
  PROVE  /\ Len(items) \in DOMAIN items /\ Last(items) = items[Len(items)]
         /\ Last(items) \in Threads /\ Last(items) # Top
<1>1. PageSize \in Nat /\ PageSize > 0 /\ Top \notin Threads
  BY ListAssumption DEF Top
<1>2. Len(items) \in DOMAIN items /\ Last(items) = items[Len(items)]
  BY <1>1 DEF Last
<1>3. items[Len(items)] \in Threads
  BY <1>2, ElementOfSeq
<1> QED
  BY <1>1, <1>2, <1>3

(* The rows but one keep their times. *)
Moved(st, new, t) == \A u \in Threads : u # t => new[u] = st[u]

LEMMA PastMoved ==
  ASSUME NEW st, NEW new, NEW t \in Threads, Moved(st, new, t),
         NEW u \in Threads, u # t, NEW k \in Cursors, k # t
  PROVE  Past(new, u, k) <=> Past(st, u, k)
  BY DEF Past, Moved, Cursors

(* A page stays right when a row moves, for the row is noted. *)
LEMMA PageAges ==
  ASSUME NEW st, NEW new, NEW t \in Threads, Moved(st, new, t),
         NEW page, page.items \in Seq(Threads), NEW k \in Cursors, PageOK(st, page, k),
         NEW aged, aged.items = page.items, aged.changed = page.changed \cup {t}
  PROVE  PageOK(new, aged, k)
<1> DEFINE full == Len(page.items) = PageSize
           last == Last(page.items)
<1> SUFFICES ASSUME k = Top \/ (k \notin aged.changed /\ new[k] > 0),
                    full => last \notin aged.changed
             PROVE  /\ full => new[last] > 0
                    /\ \A u \in Threads \ aged.changed : new[u] > 0 =>
                         Times(u, page.items) =
                         IF ~Past(new, u, k) /\ (full => Past(new, u, last)) THEN 1 ELSE 0
  BY DEF PageOK
<1>1. k # t /\ (k # Top => k \in Threads)
  BY ListAssumption DEF Top, Cursors
<1>2. full => last \in Threads /\ last # t /\ last \in Cursors
  BY LastIs DEF Cursors
<1>3. k = Top \/ (k \notin page.changed /\ st[k] > 0)
  BY <1>1 DEF Moved
<1>4. full => last \notin page.changed
  OBVIOUS
<1>5. /\ full => st[last] > 0
      /\ \A u \in Threads \ page.changed : st[u] > 0 =>
           Times(u, page.items) =
           IF ~Past(st, u, k) /\ (full => Past(st, u, last)) THEN 1 ELSE 0
  BY <1>3, <1>4 DEF PageOK
<1> HIDE DEF full, last
<1>6. full => new[last] > 0
  BY <1>2, <1>5 DEF Moved
<1>7. ASSUME NEW u \in Threads \ aged.changed, new[u] > 0
      PROVE  Times(u, page.items) =
             IF ~Past(new, u, k) /\ (full => Past(new, u, last)) THEN 1 ELSE 0
  <2>1. u \in Threads /\ u # t /\ u \in Threads \ page.changed /\ st[u] > 0
    BY <1>7 DEF Moved
  <2>2. Past(new, u, k) <=> Past(st, u, k)
    BY <1>1, <2>1, PastMoved
  <2>3. full => (Past(new, u, last) <=> Past(st, u, last))
    BY <1>2, <2>1, PastMoved
  <2> QED
    BY <1>5, <2>1, <2>2, <2>3
<1> QED
  BY <1>6, <1>7

(* A walk stays right when a row moves, for the row is noted. *)
LEMMA WalkAges ==
  ASSUME NEW st, NEW new, NEW t \in Threads, Moved(st, new, t),
         NEW m \in Client, m.page.items \in Seq(Threads), WalkOK(st, m), ReadOK(st, m),
         NEW aged, aged = [m EXCEPT !.disturbed = @ \cup {t}, !.page.changed = @ \cup {t}]
  PROVE  WalkOK(new, aged) /\ ReadOK(new, aged)
<1>1. /\ aged.pc = m.pc /\ aged.before = m.before /\ aged.at = m.at
      /\ aged.seen = m.seen /\ aged.cursors = m.cursors
      /\ aged.disturbed = m.disturbed \cup {t}
      /\ aged.page.items = m.page.items /\ aged.page.changed = m.page.changed \cup {t}
      /\ m.before \in Cursors /\ m.cursors \subseteq Threads
  BY DEF Client, Page
<1>2. WalkOK(new, aged)
  <2> SUFFICES ASSUME m.pc # "idle", m.cursors \cap (m.disturbed \cup {t}) = {}
               PROVE  /\ \A k \in m.cursors : new[k] > 0
                      /\ m.pc # "done" => m.before \in m.cursors \cup {Top}
                      /\ \A u \in Threads \ (m.disturbed \cup {t}) : new[u] > 0 =>
                            Times(u, m.seen) =
                            IF m.pc = "done" \/ Past(new, u, m.before) THEN 1 ELSE 0
    BY <1>1 DEF WalkOK
  <2>1. /\ \A k \in m.cursors : st[k] > 0 /\ k # t /\ k \in Threads
        /\ m.pc # "done" => m.before \in m.cursors \cup {Top}
        /\ \A u \in Threads \ m.disturbed : st[u] > 0 =>
              Times(u, m.seen) = IF m.pc = "done" \/ Past(st, u, m.before) THEN 1 ELSE 0
    BY <1>1 DEF WalkOK
  <2>2. \A k \in m.cursors : new[k] > 0
    BY <2>1 DEF Moved
  <2>3. ASSUME NEW u \in Threads \ (m.disturbed \cup {t}), new[u] > 0
        PROVE  Times(u, m.seen) =
               IF m.pc = "done" \/ Past(new, u, m.before) THEN 1 ELSE 0
    <3>1. u \in Threads /\ u # t /\ u \in Threads \ m.disturbed /\ st[u] > 0
      BY <2>3 DEF Moved
    <3>2. m.pc # "done" => m.before # t
      BY <2>1, ListAssumption DEF Top
    <3>3. m.pc # "done" => (Past(new, u, m.before) <=> Past(st, u, m.before))
      BY <1>1, <3>1, <3>2, PastMoved
    <3> QED
      BY <2>1, <3>1, <3>3
  <2> QED
    BY <2>1, <2>2, <2>3
<1>3. ReadOK(new, aged)
  <2>1. m.pc = "rows" /\ m.before # Top /\ m.before \notin m.page.changed \cup {t}
        => m.at = new[m.before]
    BY <1>1 DEF ReadOK, Moved, Cursors
  <2>2. m.pc = "reply" => PageOK(new, aged.page, m.before)
    BY <1>1, PageAges DEF ReadOK
  <2> QED
    BY <1>1, <2>1, <2>2 DEF ReadOK
<1> QED
  BY <1>2, <1>3

(* The page behind the cursor of a walk continues it: a row the walk has    *)
(* passed is not in the page, the page ends past its own cursor, and when   *)
(* it is not full there is nothing behind it.                               *)
LEMMA WalkGoesOn ==
  ASSUME NEW st \in [Threads -> Nat], NEW m \in Client, m.pc \in {"lookup", "reply"},
         NEW page, page.items \in Seq(Threads), WalkOK(st, m), PageOK(st, page, m.before),
         NEW full, full = (Len(page.items) = PageSize),
         NEW next,
         next.pc = IF full THEN "lookup" ELSE "done",
         next.before = IF full THEN Last(page.items) ELSE Top,
         next.seen = m.seen \o page.items,
         next.cursors = IF full THEN m.cursors \cup {Last(page.items)} ELSE m.cursors,
         next.disturbed = m.disturbed \cup page.changed
  PROVE  WalkOK(st, next) /\ ReadOK(st, next)
<1> DEFINE last == Last(page.items)
<1>1. /\ m.seen \in Seq(Threads) /\ m.cursors \subseteq Threads /\ m.before \in Cursors
  BY DEF Client
<1>2. full => last \in Threads /\ last # Top
  BY LastIs
<1>3. ReadOK(st, next)
  BY DEF ReadOK
<1>4. WalkOK(st, next)
  <2> SUFFICES ASSUME next.cursors \cap next.disturbed = {}
               PROVE  /\ \A k \in next.cursors : st[k] > 0
                      /\ next.pc # "done" => next.before \in next.cursors \cup {Top}
                      /\ \A t \in Threads \ next.disturbed : st[t] > 0 =>
                            Times(t, next.seen) =
                            IF next.pc = "done" \/ Past(st, t, next.before) THEN 1 ELSE 0
    BY DEF WalkOK
  <2>1. /\ \A k \in m.cursors : st[k] > 0
        /\ m.before \in m.cursors \cup {Top}
        /\ \A t \in Threads \ m.disturbed : st[t] > 0 =>
              Times(t, m.seen) = IF Past(st, t, m.before) THEN 1 ELSE 0
    BY DEF WalkOK
  <2>2. m.before = Top \/ (m.before \notin page.changed /\ st[m.before] > 0)
    BY <2>1
  <2>3. full => last \notin page.changed
    OBVIOUS
  <2>4. /\ full => st[last] > 0
        /\ \A t \in Threads \ page.changed : st[t] > 0 =>
              Times(t, page.items) =
              IF ~Past(st, t, m.before) /\ (full => Past(st, t, last)) THEN 1 ELSE 0
    BY <2>2, <2>3 DEF PageOK
  <2> HIDE DEF last
  <2>5. full => ~Past(st, last, m.before)
    <3> SUFFICES ASSUME full PROVE ~Past(st, last, m.before)
      OBVIOUS
    <3>1. last \in Threads \ page.changed /\ st[last] > 0
      BY <1>2, <2>3, <2>4
    <3>2. Times(last, page.items) # 0
      BY LastIs, TimesFound DEF last
    <3> QED
      BY <2>4, <3>1, <3>2
  <2>6. ASSUME NEW t \in Threads \ next.disturbed, st[t] > 0
        PROVE  Times(t, next.seen) =
               IF next.pc = "done" \/ Past(st, t, next.before) THEN 1 ELSE 0
    <3>1. t \in Threads \ m.disturbed /\ t \in Threads \ page.changed
      OBVIOUS
    <3>2. /\ Times(t, next.seen) = Times(t, m.seen) + Times(t, page.items)
      BY <1>1, TimesBoth
    <3>3. Times(t, m.seen) = IF Past(st, t, m.before) THEN 1 ELSE 0
      BY <2>1, <2>6, <3>1
    <3>4. Times(t, page.items) =
          IF ~Past(st, t, m.before) /\ (full => Past(st, t, last)) THEN 1 ELSE 0
      BY <2>4, <2>6, <3>1
    <3>5. full /\ Past(st, t, m.before) => Past(st, t, last)
      <4> SUFFICES ASSUME full, Past(st, t, m.before), ~Past(st, t, last) PROVE FALSE
        OBVIOUS
      <4>1. /\ m.before \in Threads /\ m.before \in Int /\ last \in Int /\ t \in Int
            /\ st[m.before] \in Int /\ st[last] \in Int /\ st[t] \in Int
        <5>1. m.before \in Threads /\ last \in Threads /\ t \in Threads
          BY <1>1, <1>2 DEF Past, Cursors
        <5>2. \A u \in Threads : u \in Int /\ st[u] \in Int
          BY ListAssumption
        <5> QED
          BY <5>1, <5>2
      <4> QED
        BY <1>2, <2>5, <4>1 DEF Past
    <3>6. CASE full
      BY <3>2, <3>3, <3>4, <3>5, <3>6 DEF last
    <3>7. CASE ~full
      BY <3>2, <3>3, <3>4, <3>7
    <3> QED
      BY <3>6, <3>7
  <2>7. \A k \in next.cursors : st[k] > 0
    BY <2>1, <2>4 DEF last
  <2>8. next.pc # "done" => next.before \in next.cursors \cup {Top}
    OBVIOUS
  <2> QED
    BY <2>6, <2>7, <2>8
<1> QED
  BY <1>3, <1>4

(* The rows a request finds behind its cursor make a page of it. *)
LEMMA ReadMakesPage ==
  ASSUME Stamped, NEW k \in Cursors, NEW at,
         NEW rows, rows = {t \in Rows : k = Top \/ Older(t, at, k)},
         NEW page, page.items = Newest(rows), k = Top \/ k \in page.changed \/ at = stamp[k]
  PROVE  /\ page.items \in Seq(Threads) /\ Len(page.items) <= PageSize
         /\ PageOK(stamp, page, k)
<1> DEFINE items == page.items
           full  == Len(items) = PageSize
           last  == Last(items)
<1>1. rows \in SUBSET Threads /\ Rows \subseteq Threads
  BY DEF Rows
<1>2. /\ items \in Seq(Threads) /\ Len(items) <= PageSize
      /\ \A i \in DOMAIN items : items[i] \in rows
      /\ \A i, j \in DOMAIN items : i < j => Newer(items[i], items[j])
      /\ \A t \in rows : (full => ~Newer(items[Len(items)], t))
                         => \E i \in DOMAIN items : items[i] = t
  <2>1. items = Newest(rows)
    OBVIOUS
  <2>2. LET found == Newest(rows)
        IN  /\ found \in Seq(Threads) /\ Len(found) <= PageSize
            /\ \A i \in DOMAIN found : found[i] \in rows
            /\ \A i, j \in DOMAIN found : i < j => Newer(found[i], found[j])
            /\ \A t \in rows : (Len(found) = PageSize => ~Newer(found[Len(found)], t))
                               => \E i \in DOMAIN found : found[i] = t
    BY <1>1, NewestIs, Zenon
  <2> HIDE DEF items
  <2> QED
    BY <2>1, <2>2
<1> HIDE DEF items
<1>3. full => /\ Len(items) \in DOMAIN items /\ last = items[Len(items)]
              /\ last \in Threads /\ last # Top
  BY <1>2, LastIs
<1>4. \A t \in Threads : t \in Int /\ t # Top /\ stamp[t] \in Int
  BY ListAssumption DEF Stamped, Top
<1>5. PageOK(stamp, page, k)
  <2> SUFFICES ASSUME k = Top \/ (k \notin page.changed /\ stamp[k] > 0)
               PROVE  /\ full => stamp[last] > 0
                      /\ \A t \in Threads \ page.changed : stamp[t] > 0 =>
                            Times(t, items) =
                            IF ~Past(stamp, t, k) /\ (full => Past(stamp, t, last))
                            THEN 1 ELSE 0
    BY DEF PageOK, items
  <2>1. k = Top \/ (k \in Threads /\ at = stamp[k])
    BY DEF Cursors
  <2>2. \A t \in Threads : t \in rows <=> stamp[t] > 0 /\ ~Past(stamp, t, k)
    BY <1>4, <2>1 DEF Rows, Past, Older
  <2>3. full => stamp[last] > 0
    BY <1>2, <1>3 , <2>2
  <2>4. ASSUME NEW t \in Threads, full PROVE Past(stamp, t, last) <=> ~Newer(last, t)
    BY <1>3, <1>4, <2>4 DEF Past, Newer
  <2>5. ASSUME NEW t \in Threads, stamp[t] > 0,
               ~Past(stamp, t, k), full => Past(stamp, t, last)
        PROVE  Times(t, items) = 1
    <3>1. t \in rows /\ (full => ~Newer(items[Len(items)], t))
      BY <1>3, <2>2, <2>4, <2>5
    <3>2. PICK i \in DOMAIN items : items[i] = t
      BY <1>2, <3>1
    <3>3. \A j \in DOMAIN items : items[j] = t => j = i
      <4> SUFFICES ASSUME NEW j \in DOMAIN items, items[j] = t, j # i PROVE FALSE
        OBVIOUS
      <4>1. i < j \/ j < i
        BY <1>2
      <4>2. Newer(t, t)
        BY <1>2, <3>2, <4>1
      <4> QED
        BY <4>2, NewerIsOrder
    <3> QED
      BY <1>2, <3>2, <3>3, TimesOnce
  <2>6. ASSUME NEW t \in Threads, Past(stamp, t, k) \/ (full /\ ~Past(stamp, t, last))
        PROVE  Times(t, items) = 0
    <3>1. ASSUME NEW i \in DOMAIN items, items[i] = t PROVE FALSE
      <4>1. t \in rows /\ ~Past(stamp, t, k)
        BY <1>2, <2>2, <3>1
      <4>2. full /\ Newer(last, t) /\ last \in Threads
        BY <1>3, <2>4, <2>6, <4>1
      <4>3. i = Len(items) \/ i < Len(items)
        BY <1>2
      <4>4. CASE i = Len(items)
        BY <1>3, <3>1, <4>2, <4>4, NewerIsOrder
      <4>5. CASE i < Len(items)
        <5>1. Newer(t, last)
          BY <1>2, <1>3, <3>1, <4>2, <4>5
        <5> QED
          BY <4>2, <5>1, NewerIsOrder
      <4> QED
        BY <4>3, <4>4, <4>5
    <3> QED
      BY <1>2, <3>1, TimesNone
  <2> QED
    BY <2>3, <2>5, <2>6
<1> QED
  BY <1>2, <1>5 DEF items

-----------------------------------------------------------------------------
(* The invariant                                                           *)

Clean ==
    /\ clock <= changes + 1
    /\ \A k \in Cursors : cache[k] = NoPage \/ cache[k].items \in Seq(Threads)
    /\ \A c \in Clients : client[c].page.items \in Seq(Threads)

TypeInv == TypeOK /\ Clean

PagesOK == \A k \in Cursors : cache[k] = NoPage \/ PageOK(stamp, cache[k], k)
WalksOK == \A c \in Clients : WalkOK(stamp, client[c]) /\ ReadOK(stamp, client[c])

ListInv == TypeInv /\ PagesOK /\ WalksOK

LEMMA TypesOf ==
  ASSUME TypeInv
  PROVE  /\ Stamped /\ clock \in Nat /\ changes \in Nat /\ clock <= changes + 1
         /\ \A k \in Cursors : cache[k] \in Page
         /\ \A c \in Clients : client[c] \in Client
         /\ DOMAIN client = Clients /\ DOMAIN cache = Cursors
         /\ NoPage \in Page /\ EmptyPage \in Page /\ EmptyPage.items \in Seq(Threads)
         /\ NoPage.items = <<Top>> /\ <<Top>> \notin Seq(Threads)
<1>1. \A n \in Stamps : n \in Nat
  BY ListAssumption DEF Stamps
<1>2. <<>> \in Seq(Threads)
  BY EmptySeq
<1>3. <<Top>> \notin Seq(Threads)
  <2> SUFFICES ASSUME <<Top>> \in Seq(Threads) PROVE FALSE
    OBVIOUS
  <2>1. <<Top>>[1] \in Threads
    BY ElementOfSeq
  <2> QED
    BY <2>1, ListAssumption DEF Top
<1>4. Stamped /\ clock \in Nat /\ changes \in Nat /\ clock <= changes + 1
  BY <1>1, ListAssumption DEF TypeInv, TypeOK, Clean, Stamped
<1>5. NoPage \in Page /\ EmptyPage \in Page
  BY <1>2 DEF NoPage, EmptyPage, Page
<1> QED
  BY <1>2, <1>3, <1>4, <1>5 DEF TypeInv, TypeOK, NoPage, EmptyPage

LEMMA ListInit == Init => ListInv
<1> SUFFICES ASSUME Init PROVE ListInv
  OBVIOUS
<1>1. /\ NoPage \in Page /\ EmptyPage \in Page /\ <<>> \in Seq(Threads)
      /\ Top \in Cursors /\ 0 \in Stamps /\ 1 \in Stamps /\ 0 \in 0 .. MaxChanges
  BY EmptySeq, ListAssumption DEF NoPage, EmptyPage, Page, Cursors, Stamps
<1>2. IdleClient \in Client
  BY <1>1 DEF IdleClient, Client
<1>3. Len(EmptyPage.items) <= PageSize /\ EmptyPage.items \in Seq(Threads)
  BY <1>1, ListAssumption DEF EmptyPage
<1>4. \A c \in Clients : client[c] = IdleClient
  BY DEF Init
<1>5. TypeOK
  <2>1. stamp \in [Threads -> Stamps] /\ clock \in Stamps /\ changes \in 0 .. MaxChanges
    <3>1. 0 .. 1 \subseteq Stamps
      BY ListAssumption DEF Stamps
    <3> QED
      BY <1>1, <3>1 DEF Init
  <2>2. cache \in [Cursors -> Page] /\ client \in [Clients -> Client]
    BY <1>1, <1>2 DEF Init
  <2>3. \A c \in Clients : Len(client[c].page.items) <= PageSize
    BY <1>3, <1>4 DEF IdleClient
  <2> QED
    BY <2>1, <2>2, <2>3 DEF Init, TypeOK
<1>6. Clean
  BY <1>3, <1>4 DEF Init, Clean, IdleClient
<1>7. PagesOK
  BY DEF Init, PagesOK
<1>8. WalksOK
  BY <1>4 DEF WalksOK, WalkOK, ReadOK, IdleClient
<1> QED
  BY <1>5, <1>6, <1>7, <1>8 DEF ListInv, TypeInv

(* A row that changes is noted in every page that is stored or on its way,  *)
(* and in every walk.                                                       *)
LEMMA ListChange ==
  ASSUME ListInv, NEW t \in Threads, NEW exists \in BOOLEAN, Change(t, exists),
         deleting' \subseteq Threads,
         clearing' \in SUBSET [row : Threads, for : {"list", "title"}]
  PROVE  ListInv'
<1> DEFINE new == stamp'
<1>1. /\ stamp \in [Threads -> Nat] /\ clock \in Nat /\ changes \in Nat /\ clock <= changes + 1
      /\ changes < MaxChanges /\ changes' = changes + 1 /\ clock' \in {clock, clock + 1}
      /\ stamp' = [stamp EXCEPT ![t] = IF exists THEN clock' ELSE 0]
      /\ MaxChanges \in Nat /\ changes \in 0 .. MaxChanges
  BY TypesOf, ListAssumption DEF ListInv, TypeInv, TypeOK, Change, Stamped
<1>2. Moved(stamp, new, t)
  BY <1>1 DEF Moved
<1>3. /\ clock' <= changes' + 1 /\ clock' \in Stamps /\ changes' \in 0 .. MaxChanges
      /\ stamp' \in [Threads -> Stamps]
  <2>1. clock' <= changes' + 1 /\ clock' \in Stamps /\ 0 \in Stamps /\ changes' \in 0 .. MaxChanges
    BY <1>1 DEF Stamps
  <2>2. stamp \in [Threads -> Stamps]
    BY DEF ListInv, TypeInv, TypeOK
  <2> QED
    BY <1>1, <2>1, <2>2
<1>4. ASSUME NEW k \in Cursors
      PROVE  /\ cache'[k] \in Page
             /\ \/ cache'[k] = NoPage
                \/ cache'[k].items \in Seq(Threads) /\ PageOK(new, cache'[k], k)
  <2>1. cache'[k] = IF cache[k] = NoPage THEN NoPage
                    ELSE [cache[k] EXCEPT !.changed = @ \cup {t}]
    BY DEF Change
  <2>2. cache[k] \in Page /\ NoPage \in Page
    BY TypesOf DEF ListInv
  <2>3. cache[k] = NoPage \/ (cache[k].items \in Seq(Threads) /\ PageOK(stamp, cache[k], k))
    BY DEF ListInv, TypeInv, Clean, PagesOK
  <2>4. CASE cache[k] = NoPage
    BY <2>1, <2>2, <2>4
  <2>5. CASE cache[k] # NoPage
    <3>1. /\ cache'[k].items = cache[k].items
          /\ cache'[k].changed = cache[k].changed \cup {t}
          /\ cache'[k] \in Page
      <4>1. PICK p \in Page : p = cache[k]
        BY <2>2
      <4>2. PICK q : q = [p EXCEPT !.changed = @ \cup {t}]
        OBVIOUS
      <4>3. q.items = p.items /\ q.changed = p.changed \cup {t} /\ q \in Page
        BY <4>2 DEF Page
      <4>4. cache'[k] = q
        BY <2>1, <2>5, <4>1, <4>2
      <4> QED
        BY <4>1, <4>3, <4>4
    <3>2. PageOK(new, cache'[k], k)
      BY <1>2, <2>3, <2>5, <3>1, PageAges
    <3> QED
      BY <2>3, <2>5, <3>1, <3>2
  <2> QED
    BY <2>4, <2>5
<1>5. ASSUME NEW c \in Clients
      PROVE  /\ client'[c] \in Client /\ client'[c].page.items \in Seq(Threads)
             /\ Len(client'[c].page.items) <= PageSize
             /\ WalkOK(new, client'[c]) /\ ReadOK(new, client'[c])
  <2>1. client'[c] = IF client[c].pc = "idle" THEN client[c]
                     ELSE [client[c] EXCEPT !.disturbed = @ \cup {t},
                                            !.page.changed = @ \cup {t}]
    BY DEF Change
  <2>2. /\ client[c] \in Client /\ client[c].page.items \in Seq(Threads)
        /\ Len(client[c].page.items) <= PageSize
        /\ WalkOK(stamp, client[c]) /\ ReadOK(stamp, client[c])
    BY TypesOf DEF ListInv, TypeInv, TypeOK, Clean, WalksOK
  <2>3. CASE client[c].pc = "idle"
    BY <2>1, <2>2, <2>3 DEF WalkOK, ReadOK
  <2>4. CASE client[c].pc # "idle"
    <3>1. client'[c] = [client[c] EXCEPT !.disturbed = @ \cup {t}, !.page.changed = @ \cup {t}]
      BY <2>1, <2>4
    <3>2. /\ client'[c] \in Client /\ client'[c].page.items = client[c].page.items
      <4>1. PICK m \in Client : m = client[c]
        BY <2>2
      <4>2. PICK p : p = [m.page EXCEPT !.changed = @ \cup {t}]
        OBVIOUS
      <4>3. p \in Page /\ p.items = m.page.items
        BY <4>1, <4>2 DEF Client, Page
      <4>4. client'[c] = [m EXCEPT !.disturbed = @ \cup {t}, !.page = p]
        BY <3>1, <4>1, <4>2 DEF Client
      <4>5. m.disturbed \cup {t} \in SUBSET Threads
        BY <4>1 DEF Client
      <4> QED
        BY <4>1, <4>3, <4>4, <4>5 DEF Client
    <3>3. WalkOK(new, client'[c]) /\ ReadOK(new, client'[c])
      BY <1>2, <2>2, <3>1, WalkAges
    <3> QED
      BY <2>2, <3>2, <3>3
  <2> QED
    BY <2>3, <2>4
<1>6. cache' \in [Cursors -> Page] /\ client' \in [Clients -> Client]
  <2>1. DOMAIN cache' = Cursors /\ DOMAIN client' = Clients
    BY DEF Change
  <2>2. cache' = [k \in Cursors |-> cache'[k]] /\ client' = [c \in Clients |-> client'[c]]
    BY <2>1 DEF Change
  <2> QED
    BY <1>4, <1>5, <2>2
<1> QED
  BY <1>3, <1>4, <1>5, <1>6
     DEF ListInv, TypeInv, TypeOK, Clean, PagesOK, WalksOK

(* A step of a client touches no row and no other client. *)
LEMMA ListClient ==
  ASSUME ListInv, NEW c \in Clients, NEW m, SetClient(c, m),
         UNCHANGED <<stamp, clock, deleting, clearing, changes>>,
         m \in Client, m.page.items \in Seq(Threads), Len(m.page.items) <= PageSize,
         WalkOK(stamp, m), ReadOK(stamp, m),
         cache' \in [Cursors -> Page],
         \A k \in Cursors : \/ cache'[k] = NoPage
                            \/ cache'[k].items \in Seq(Threads) /\ PageOK(stamp, cache'[k], k)
  PROVE  ListInv'
<1>1. client' = [client EXCEPT ![c] = m] /\ client \in [Clients -> Client]
  BY DEF SetClient, ListInv, TypeInv, TypeOK
<1>2. ASSUME NEW d \in Clients
      PROVE  /\ client'[d].page.items \in Seq(Threads)
             /\ Len(client'[d].page.items) <= PageSize
             /\ WalkOK(stamp, client'[d]) /\ ReadOK(stamp, client'[d])
  BY <1>1 DEF ListInv, TypeInv, TypeOK, Clean, WalksOK
<1>3. client' \in [Clients -> Client]
  BY <1>1
<1> QED
  BY <1>2, <1>3 DEF ListInv, TypeInv, TypeOK, Clean, PagesOK, WalksOK

(* A client that gets the page it asked for goes on behind it. *)
LEMMA ListReceive ==
  ASSUME ListInv, NEW c \in Clients, client[c].pc \in {"lookup", "reply"},
         NEW page \in Page, page.items \in Seq(Threads),
         PageOK(stamp, page, client[c].before), Receive(c, page),
         UNCHANGED <<stamp, clock, deleting, clearing, changes>>,
         cache' \in [Cursors -> Page],
         \A k \in Cursors : \/ cache'[k] = NoPage
                            \/ cache'[k].items \in Seq(Threads) /\ PageOK(stamp, cache'[k], k)
  PROVE  ListInv'
<1>1. PICK full : full = (Len(page.items) = PageSize)
  OBVIOUS
<1>2. PICK m \in Client : m = client[c]
  BY TypesOf DEF ListInv
<1>3. PICK next : next = [m EXCEPT
                 !.pc = IF full THEN "lookup" ELSE "done",
                 !.before = IF full THEN Last(page.items) ELSE Top,
                 !.seen = @ \o page.items,
                 !.cursors = IF full THEN @ \cup {Last(page.items)} ELSE @,
                 !.disturbed = @ \cup page.changed,
                 !.page = EmptyPage, !.at = 0]
  OBVIOUS
<1>4. SetClient(c, next)
  BY <1>1, <1>2, <1>3 DEF Receive
<1>5. /\ next.pc = IF full THEN "lookup" ELSE "done"
      /\ next.before = IF full THEN Last(page.items) ELSE Top
      /\ next.seen = m.seen \o page.items
      /\ next.cursors = IF full THEN m.cursors \cup {Last(page.items)} ELSE m.cursors
      /\ next.disturbed = m.disturbed \cup page.changed
      /\ next.page = EmptyPage /\ next.at = 0
  BY <1>2, <1>3 DEF Client
<1>6. next \in Client
  <2>1. m.seen \o page.items \in Seq(Threads)
    BY <1>2, ConcatProperties DEF Client
  <2>2. full => Last(page.items) \in Threads
    BY <1>1, LastIs
  <2>3. m.disturbed \cup page.changed \in SUBSET Threads
    BY <1>2 DEF Client, Page
  <2>4. EmptyPage \in Page /\ 0 \in Stamps
    BY TypesOf, ListAssumption DEF ListInv, Stamps
  <2>5. next.before \in Cursors /\ next.cursors \in SUBSET Threads
    BY <1>2, <1>5, <2>2 DEF Client, Cursors
  <2>6. next = [pc |-> next.pc, before |-> next.before, at |-> next.at, page |-> next.page,
                seen |-> next.seen, cursors |-> next.cursors, disturbed |-> next.disturbed]
    BY <1>2, <1>3 DEF Client
  <2>7. next.pc \in {"idle", "lookup", "read", "rows", "reply", "done"}
    BY <1>5
  <2> QED
    BY <1>5, <2>1, <2>3, <2>4, <2>5, <2>6, <2>7 DEF Client
<1>7. WalkOK(stamp, next) /\ ReadOK(stamp, next)
  <2>1. WalkOK(stamp, m) /\ stamp \in [Threads -> Nat] /\ m.pc \in {"lookup", "reply"}
        /\ PageOK(stamp, page, m.before)
    BY <1>2, TypesOf DEF ListInv, WalksOK, Stamped
  <2> QED
    BY <1>1, <1>5, <2>1, WalkGoesOn
<1>8. next.page.items \in Seq(Threads) /\ Len(next.page.items) <= PageSize
  BY <1>5, TypesOf, ListAssumption DEF ListInv, EmptyPage
<1> QED
  BY <1>4, <1>6, <1>7, <1>8, ListClient

LEMMA ListNext ==
  ASSUME ListInv, [Next]_vars
  PROVE  ListInv'
<1>0. /\ deleting \in SUBSET Threads
      /\ clearing \in SUBSET [row : Threads, for : {"list", "title"}]
      /\ cache \in [Cursors -> Page] /\ client \in [Clients -> Client]
      /\ \A k \in Cursors : \/ cache[k] = NoPage
                            \/ cache[k].items \in Seq(Threads) /\ PageOK(stamp, cache[k], k)
      /\ Rows \subseteq Threads /\ NoPage \in Page /\ EmptyPage \in Page
      /\ EmptyPage.items \in Seq(Threads) /\ Len(EmptyPage.items) <= PageSize
      /\ \A c \in Clients : client[c].page.items \in Seq(Threads)
      /\ \A c \in Clients : Len(client[c].page.items) <= PageSize
      /\ \A c \in Clients : WalkOK(stamp, client[c]) /\ ReadOK(stamp, client[c])
  <2>1. /\ Rows \subseteq Threads /\ NoPage \in Page /\ EmptyPage \in Page
        /\ EmptyPage.items \in Seq(Threads) /\ Len(EmptyPage.items) <= PageSize
    BY TypesOf, ListAssumption DEF ListInv, Rows, EmptyPage
  <2>2. \A k \in Cursors : \/ cache[k] = NoPage
                           \/ cache[k].items \in Seq(Threads) /\ PageOK(stamp, cache[k], k)
    BY DEF ListInv, TypeInv, Clean, PagesOK
  <2>3. \A c \in Clients : /\ client[c].page.items \in Seq(Threads)
                           /\ WalkOK(stamp, client[c]) /\ ReadOK(stamp, client[c])
    BY DEF ListInv, TypeInv, Clean, WalksOK
  <2>4. /\ deleting \in SUBSET Threads
        /\ clearing \in SUBSET [row : Threads, for : {"list", "title"}]
        /\ cache \in [Cursors -> Page] /\ client \in [Clients -> Client]
        /\ \A c \in Clients : Len(client[c].page.items) <= PageSize
    BY DEF ListInv, TypeInv, TypeOK
  <2> QED
    BY <2>1, <2>2, <2>3, <2>4
<1>1. ASSUME NEW t \in Threads,
             Create(t) \/ Touch(t) \/ SetTitle(t) \/ Delete(t) \/ RemoveRow(t)
      PROVE  ListInv'
  <2>1. PICK exists \in BOOLEAN : Change(t, exists)
    BY <1>1 DEF Create, Touch, SetTitle, Delete, RemoveRow
  <2>2. deleting' \subseteq Threads
    BY <1>0, <1>1 DEF Create, Touch, SetTitle, Delete, RemoveRow
  <2>3. clearing' \in SUBSET [row : Threads, for : {"list", "title"}]
    <3>1. /\ [row |-> t, for |-> "list"] \in [row : Threads, for : {"list", "title"}]
          /\ [row |-> t, for |-> "title"] \in [row : Threads, for : {"list", "title"}]
      OBVIOUS
    <3>2. \/ clearing' = clearing
          \/ clearing' = clearing \cup {[row |-> t, for |-> "list"]}
          \/ clearing' = clearing \cup {[row |-> t, for |-> "title"]}
      BY <1>1 DEF Create, Touch, SetTitle, Delete, RemoveRow
    <3> QED
      BY <1>0, <3>1, <3>2
  <2> QED
    BY <2>1, <2>2, <2>3, ListChange
<1>2. ASSUME UNCHANGED <<stamp, clock, deleting, client, changes>>,
             clearing' \subseteq clearing,
             \A k \in Cursors : cache'[k] \in {NoPage, cache[k]}, cache' \in [Cursors -> Page]
      PROVE  ListInv'
  BY <1>2 DEF ListInv, TypeInv, TypeOK, Clean, PagesOK, WalksOK
<1>3. ASSUME NEW h \in clearing, Clear(h) PROVE ListInv'
  <2>1. cache' = cache \/ cache' = [k \in Cursors |-> NoPage]
    BY <1>3 DEF Clear
  <2> QED
    BY <1>0, <1>2, <1>3, <2>1 DEF Clear
<1>4. ASSUME NEW k \in Cursors, Expire(k) PROVE ListInv'
  BY <1>0, <1>2, <1>4 DEF Expire
<1>5. ASSUME NEW c \in Clients, Open(c) PROVE ListInv'
  <2>1. PICK m : m = [IdleClient EXCEPT !.pc = "lookup"]
    OBVIOUS
  <2>2. m \in Client /\ m.page = EmptyPage
    <3>1. Top \in Cursors /\ 0 \in Stamps /\ <<>> \in Seq(Threads)
      BY ListAssumption, EmptySeq DEF Cursors, Stamps
    <3> QED
      BY <1>0, <2>1, <3>1 DEF IdleClient, Client
  <2>3. WalkOK(stamp, m) /\ ReadOK(stamp, m)
    <3>1. /\ m.pc = "lookup" /\ m.cursors = {} /\ m.before = Top /\ m.seen = <<>>
      BY <2>1 DEF IdleClient
    <3>2. \A t : Times(t, <<>>) = 0
      <4> SUFFICES ASSUME NEW t PROVE Times(t, <<>>) = 0
        OBVIOUS
      <4>1. {i \in DOMAIN <<>> : <<>>[i] = t} = {}
        BY EmptySeq
      <4> QED
        BY <4>1, FS_EmptySet DEF Times
    <3> QED
      BY <3>1, <3>2 DEF WalkOK, ReadOK, Past
  <2> QED
    BY <1>0, <1>5, <2>1, <2>2, <2>3, ListClient DEF Open
<1>6. ASSUME NEW c \in Clients, Hit(c) PROVE ListInv'
  <2>1. PICK page : page = cache[client[c].before]
    OBVIOUS
  <2>2. client[c].before \in Cursors /\ page # NoPage
    BY <1>0, <1>6, <2>1 DEF Hit, Client
  <2>3. page \in Page /\ page.items \in Seq(Threads) /\ PageOK(stamp, page, client[c].before)
    BY <1>0, <2>1, <2>2
  <2> QED
    BY <1>0, <1>6, <2>1, <2>3, ListReceive DEF Hit
<1>7. ASSUME NEW c \in Clients, Miss(c) PROVE ListInv'
  <2>1. PICK m : m = [client[c] EXCEPT !.pc = "read", !.page = EmptyPage]
    OBVIOUS
  <2>2. client[c] \in Client /\ client[c].pc = "lookup"
    BY <1>0, <1>7 DEF Miss
  <2>3. /\ m \in Client /\ m.page = EmptyPage /\ m.pc = "read" /\ m.before = client[c].before
        /\ m.seen = client[c].seen /\ m.cursors = client[c].cursors
        /\ m.disturbed = client[c].disturbed
    BY <1>0, <2>1, <2>2 DEF Client
  <2>4. WalkOK(stamp, m) /\ ReadOK(stamp, m)
    BY <1>0, <2>2, <2>3 DEF WalkOK, ReadOK
  <2> QED
    BY <1>0, <1>7, <2>1, <2>3, <2>4, ListClient DEF Miss
<1>8. ASSUME NEW c \in Clients, ReadCursor(c) PROVE ListInv'
  <2> DEFINE before == client[c].before
  <2>1. PICK m : m = [client[c] EXCEPT
             !.pc = IF before \in Rows \cup {Top} THEN "rows" ELSE "reply",
             !.at = IF before = Top THEN 0 ELSE stamp[before]]
    OBVIOUS
  <2>2. /\ client[c] \in Client /\ client[c].pc = "read" /\ before \in Cursors
        /\ stamp \in [Threads -> Stamps] /\ 0 \in Stamps
    BY <1>0, <1>8, ListAssumption
       DEF ReadCursor, Client, ListInv, TypeInv, TypeOK, Stamps
  <2>3. /\ m.page = client[c].page /\ m.before = before
        /\ m.pc = IF before \in Rows \cup {Top} THEN "rows" ELSE "reply"
        /\ m.at = IF before = Top THEN 0 ELSE stamp[before]
        /\ m.seen = client[c].seen /\ m.cursors = client[c].cursors
        /\ m.disturbed = client[c].disturbed
    BY <2>1, <2>2 DEF Client
  <2>4. m \in Client
    <3>1. (IF before = Top THEN 0 ELSE stamp[before]) \in Stamps
      BY <2>2 DEF Cursors
    <3> QED
      BY <2>1, <2>2, <3>1 DEF Client
  <2>5. WalkOK(stamp, m)
    BY <1>0, <2>2, <2>3 DEF WalkOK
  <2>6. ReadOK(stamp, m)
    <3>1. m.pc = "reply" => before # Top /\ before \in Threads /\ ~ (stamp[before] > 0)
      BY <2>2, <2>3 DEF Rows, Cursors
    <3>2. m.pc = "reply" => PageOK(stamp, m.page, m.before)
      BY <2>3, <3>1 DEF PageOK
    <3> QED
      BY <2>3, <3>2 DEF ReadOK
  <2> QED
    BY <1>0, <1>8, <2>1, <2>3, <2>4, <2>5, <2>6, ListClient DEF ReadCursor
<1>9. ASSUME NEW c \in Clients, ReadRows(c) PROVE ListInv'
  <2> DEFINE before == client[c].before
             rows   == {t \in Rows : before = Top \/ Older(t, client[c].at, before)}
  <2>1. PICK m : m = [client[c] EXCEPT !.pc = "reply", !.page.items = Newest(rows)]
    OBVIOUS
  <2>2. /\ client[c] \in Client /\ client[c].pc = "rows" /\ before \in Cursors
        /\ client[c].page \in Page
    BY <1>0, <1>9 DEF ReadRows, Client
  <2>3. /\ m.page = [client[c].page EXCEPT !.items = Newest(rows)] /\ m.before = before
        /\ m.pc = "reply" /\ m.seen = client[c].seen /\ m.cursors = client[c].cursors
        /\ m.disturbed = client[c].disturbed
    BY <2>1, <2>2 DEF Client
  <2>4. m.page.items = Newest(rows) /\ m.page.changed = client[c].page.changed
    BY <2>2, <2>3 DEF Page
  <2>5. before = Top \/ before \in m.page.changed \/ client[c].at = stamp[before]
    BY <1>0, <2>2, <2>4 DEF ReadOK
  <2>6. /\ m.page.items \in Seq(Threads) /\ Len(m.page.items) <= PageSize
        /\ PageOK(stamp, m.page, before)
    <3>1. Stamped
      BY TypesOf DEF ListInv
    <3> HIDE DEF before
    <3> QED
      BY <2>2, <2>4, <2>5, <3>1, ReadMakesPage
  <2>7. m \in Client
    <3>1. m.page \in Page
      BY <2>2, <2>3, <2>4, <2>6 DEF Page
    <3>2. m = [client[c] EXCEPT !.pc = "reply", !.page = m.page]
      BY <2>1, <2>2, <2>3 DEF Client
    <3> QED
      BY <2>2, <3>1, <3>2 DEF Client
  <2>8. WalkOK(stamp, m) /\ ReadOK(stamp, m)
    BY <1>0, <2>2, <2>3, <2>6 DEF WalkOK, ReadOK
  <2> QED
    BY <1>0, <1>9, <2>1, <2>6, <2>7, <2>8, ListClient DEF ReadRows
<1>10. ASSUME NEW c \in Clients, Reply(c) PROVE ListInv'
  <2>1. PICK page : page = client[c].page
    OBVIOUS
  <2>2. /\ client[c].before \in Cursors /\ page \in Page /\ page.items \in Seq(Threads)
        /\ client[c].pc = "reply"
    BY <1>0, <1>10, <2>1 DEF Reply, Client
  <2>3. PageOK(stamp, page, client[c].before)
    BY <1>0, <2>1, <2>2 DEF ReadOK
  <2>4. cache' = cache \/ cache' = [cache EXCEPT ![client[c].before] = page]
    BY <1>10, <2>1 DEF Reply
  <2>5. /\ cache' \in [Cursors -> Page]
        /\ \A k \in Cursors : \/ cache'[k] = NoPage
                              \/ cache'[k].items \in Seq(Threads) /\ PageOK(stamp, cache'[k], k)
    BY <1>0, <2>2, <2>3, <2>4
  <2> QED
    BY <1>10, <2>1, <2>2, <2>3, <2>5, ListReceive DEF Reply
<1>11. CASE UNCHANGED vars
  BY <1>0, <1>2, <1>11 DEF vars
<1> QED
  BY <1>1, <1>3, <1>4, <1>5, <1>6, <1>7, <1>8, <1>9, <1>10, <1>11 DEF Next, ClientStep

LEMMA ListAlways == Spec => []ListInv
  BY ListInit, ListNext, PTL DEF Spec

(* Every variable keeps its type: the clock stays within the changes, a     *)
(* page has threads only, and no more of them than was asked for.           *)
THEOREM ListTypeCorrect == Spec => []TypeOK
<1>1. ListInv => TypeOK
  BY DEF ListInv, TypeInv
<1> QED
  BY <1>1, ListAlways, PTL

(* A client that has followed the cursors to the end has been shown every   *)
(* row nobody changed in the meantime, once: for any number of rows, equal  *)
(* times, clients, changes, page sizes, and ages of the pages in the cache, *)
(* unless a row that served as a cursor has changed.                        *)
THEOREM WalksShowAllOnce == Spec => []WalkShowsAllOnce
<1>1. ListInv => WalkShowsAllOnce
  <2> SUFFICES ASSUME ListInv, NEW c \in Clients, client[c].pc = "done",
                      client[c].cursors \cap client[c].disturbed = {},
                      NEW t \in Rows \ client[c].disturbed
               PROVE  Times(t, client[c].seen) = 1
    BY DEF WalkShowsAllOnce
  <2>1. WalkOK(stamp, client[c]) /\ t \in Threads /\ stamp[t] > 0
    BY DEF ListInv, WalksOK, Rows
  <2> QED
    BY <2>1 DEF WalkOK
<1> QED
  BY <1>1, ListAlways, PTL
=============================================================================
