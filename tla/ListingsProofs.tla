---------------------------- MODULE ListingsProofs ----------------------------
(* Theorems about Listings: they hold for any number of objects, every set of  *)
(* sizes of a page and every one of the four listings.                         *)
EXTENDS Listings, SequenceTheorems, TLAPS

----------------------------------------------------------------------------
(* Lists of objects.                                                       *)

\* No entry is there twice.
Distinct(s) == \A i, j \in 1 .. Len(s) : s[i] = s[j] => i = j

\* The places of a list, and what is there.
LEMMA Places ==
  ASSUME NEW S, NEW s \in Seq(S)
  PROVE  /\ Len(s) \in Nat /\ DOMAIN s = 1 .. Len(s)
         /\ \A i \in 1 .. Len(s) : s[i] \in S
         /\ ToSet(s) \subseteq S
         /\ \A x : x \in ToSet(s) <=> \E i \in 1 .. Len(s) : s[i] = x
         /\ s # <<>> <=> Len(s) > 0
<1>1. Len(s) \in Nat /\ DOMAIN s = 1 .. Len(s) /\ \A i \in 1 .. Len(s) : s[i] \in S
  BY LenProperties, ElementOfSeq
<1>2. ToSet(s) = {s[i] : i \in 1 .. Len(s)}
  BY <1>1 DEF ToSet
<1>3. s # <<>> <=> Len(s) > 0
  BY <1>1, EmptySeq
<1>4. QED BY <1>1, <1>2, <1>3

\* One list after another.
LEMMA Joined ==
  ASSUME NEW S, NEW s \in Seq(S), NEW t \in Seq(S)
  PROVE  /\ s \o t \in Seq(S) /\ Len(s \o t) = Len(s) + Len(t)
         /\ ToSet(s \o t) = ToSet(s) \cup ToSet(t)
         /\ t # <<>> => Last(s \o t) = Last(t)
         /\ s \o <<>> = s
         /\ Distinct(s) /\ Distinct(t) /\ ToSet(s) \cap ToSet(t) = {} => Distinct(s \o t)
<1> DEFINE m == Len(s)
           n == Len(t)
           u == s \o t
<1>1. m \in Nat /\ n \in Nat /\ Len(u) = m + n /\ u \in Seq(S) /\ s \o <<>> = s
  BY ConcatProperties, ConcatEmptySeq, LenProperties
<1>2. \A i \in 1 .. m + n : u[i] = IF i <= m THEN s[i] ELSE t[i - m]
  BY ConcatProperties
<1>3. \A i \in 1 .. m : i \in 1 .. m + n /\ u[i] = s[i]
  BY <1>1, <1>2
<1>4. \A i \in 1 .. n : i + m \in 1 .. m + n /\ u[i + m] = t[i]
  <2> SUFFICES ASSUME NEW i \in 1 .. n PROVE i + m \in 1 .. m + n /\ u[i + m] = t[i]
    OBVIOUS
  <2>1. i + m \in 1 .. m + n /\ ~(i + m <= m) /\ (i + m) - m = i
    BY <1>1
  <2>2. u[i + m] = t[(i + m) - m]
    BY <1>2, <2>1
  <2>3. QED BY <2>1, <2>2
<1>5. \A i \in 1 .. m + n : i \in 1 .. m \/ (i - m \in 1 .. n /\ u[i] = t[i - m])
  BY <1>1, <1>2
<1> HIDE DEF u, m, n
<1>6. ToSet(u) = ToSet(s) \cup ToSet(t)
  <2>1. \A x : x \in ToSet(u) <=> \E i \in 1 .. m + n : u[i] = x
    BY <1>1, Places
  <2>2. \A x : x \in ToSet(s) <=> \E i \in 1 .. m : s[i] = x
    BY Places DEF m
  <2>3. \A x : x \in ToSet(t) <=> \E i \in 1 .. n : t[i] = x
    BY Places DEF n
  <2>4. ASSUME NEW x, x \in ToSet(u) PROVE x \in ToSet(s) \cup ToSet(t)
    <3>1. PICK i \in 1 .. m + n : u[i] = x
      BY <2>1, <2>4
    <3>2. CASE i \in 1 .. m
      BY <1>3, <2>2, <3>1, <3>2
    <3>3. CASE i - m \in 1 .. n /\ u[i] = t[i - m]
      BY <2>3, <3>1, <3>3
    <3>4. QED BY <1>5, <3>2, <3>3
  <2>5. ASSUME NEW x, x \in ToSet(s) \cup ToSet(t) PROVE x \in ToSet(u)
    <3>1. CASE x \in ToSet(s)
      BY <1>3, <2>1, <2>2, <3>1
    <3>2. CASE x \in ToSet(t)
      BY <1>4, <2>1, <2>3, <3>2
    <3>3. QED BY <2>5, <3>1, <3>2
  <2>6. QED BY <2>4, <2>5
<1>7. t # <<>> => Last(u) = Last(t)
  <2> SUFFICES ASSUME t # <<>> PROVE Last(u) = Last(t)
    OBVIOUS
  <2>1. n \in 1 .. n
    BY <1>1, Places DEF n
  <2>2. u[n + m] = t[n]
    BY <1>4, <2>1
  <2>3. n + m = Len(u)
    BY <1>1
  <2>4. QED BY <2>2, <2>3 DEF Last, n
<1>8. ASSUME Distinct(s), Distinct(t), ToSet(s) \cap ToSet(t) = {} PROVE Distinct(u)
  <2> SUFFICES ASSUME NEW i \in 1 .. m + n, NEW j \in 1 .. m + n, u[i] = u[j] PROVE i = j
    BY <1>1 DEF Distinct
  <2>1. \A k \in 1 .. m : s[k] \in ToSet(s)
    BY Places DEF m
  <2>2. \A k \in 1 .. n : t[k] \in ToSet(t)
    BY Places DEF n
  <2>3. CASE i \in 1 .. m /\ j \in 1 .. m
    BY <1>3, <1>8, <2>3 DEF Distinct, m
  <2>4. CASE i \in 1 .. m /\ j - m \in 1 .. n /\ u[j] = t[j - m]
    <3>1. t[j - m] = s[i]
      BY <1>3, <2>4
    <3>2. QED BY <1>8, <2>1, <2>2, <2>4, <3>1
  <2>5. CASE j \in 1 .. m /\ i - m \in 1 .. n /\ u[i] = t[i - m]
    <3>1. t[i - m] = s[j]
      BY <1>3, <2>5
    <3>2. QED BY <1>8, <2>1, <2>2, <2>5, <3>1
  <2>6. CASE i - m \in 1 .. n /\ u[i] = t[i - m] /\ j - m \in 1 .. n /\ u[j] = t[j - m]
    <3>1. i - m = j - m
      BY <1>8, <2>6 DEF Distinct, n
    <3>2. QED BY <1>1, <3>1
  <2>7. QED BY <1>5, <2>3, <2>4, <2>5, <2>6
<1>9. QED BY <1>1, <1>6, <1>7, <1>8 DEF u, m, n

\* A part of a list.
LEMMA Part ==
  ASSUME NEW S, NEW s \in Seq(S), NEW a \in Nat \ {0}, NEW b \in Nat, b <= Len(s)
  PROVE  /\ SubSeq(s, a, b) \in Seq(S)
         /\ Len(SubSeq(s, a, b)) = IF a <= b THEN b - a + 1 ELSE 0
         /\ \A j \in 1 .. Len(SubSeq(s, a, b)) : a + j - 1 \in a .. b /\ SubSeq(s, a, b)[j] = s[a + j - 1]
<1>1. Len(s) \in Nat /\ \A j \in a .. b : s[j] \in S
  BY Places
<1>2. /\ SubSeq(s, a, b) \in Seq(S)
      /\ Len(SubSeq(s, a, b)) = IF a <= b THEN b - a + 1 ELSE 0
      /\ \A j \in 1 .. b - a + 1 : SubSeq(s, a, b)[j] = s[a + j - 1]
  BY <1>1, SubSeqProperties
<1>3. QED BY <1>2

\* x is inserted at i.
LEMMA Inserted ==
  ASSUME NEW S, NEW s \in Seq(S), NEW i \in Nat \ {0}, i <= Len(s) + 1, NEW x \in S
  PROVE  /\ InsertAt(s, i, x) \in Seq(S) /\ Len(InsertAt(s, i, x)) = Len(s) + 1
         /\ InsertAt(s, i, x)[i] = x
         /\ \A j \in 1 .. Len(s) + 1 : j # i => InsertAt(s, i, x)[j] = IF j < i THEN s[j] ELSE s[j - 1]
<1> DEFINE n == Len(s)
           u == SubSeq(s, 1, i - 1)
           v == SubSeq(s, i, n)
           w == u \o <<x>>
<1>1. n \in Nat /\ i \in Nat \ {0} /\ i <= n + 1
  BY Places
<1>2. u \in Seq(S) /\ Len(u) = i - 1 /\ \A j \in 1 .. i - 1 : u[j] = s[j]
  BY <1>1, Part
<1>3. v \in Seq(S) /\ Len(v) = n - i + 1 /\ \A j \in 1 .. n - i + 1 : v[j] = s[i + j - 1]
  BY <1>1, Part
<1>4. <<x>> \in Seq(S) /\ Len(<<x>>) = 1 /\ <<x>>[1] = x
  OBVIOUS
<1>5. InsertAt(s, i, x) = w \o v
  BY DEF InsertAt
<1> HIDE DEF u, v
<1>6. w \in Seq(S) /\ Len(w) = i /\ \A j \in 1 .. i : w[j] = IF j < i THEN s[j] ELSE x
  <2>1. /\ w \in Seq(S) /\ Len(w) = (i - 1) + 1
        /\ \A j \in 1 .. (i - 1) + 1 : w[j] = IF j <= i - 1 THEN u[j] ELSE <<x>>[j - (i - 1)]
    BY <1>2, <1>4, ConcatProperties
  <2>2. \A j \in 1 .. i : j <= i - 1 \/ (j = i /\ j - (i - 1) = 1)
    BY <1>1
  <2>3. QED BY <1>1, <1>2, <1>4, <2>1, <2>2
<1> HIDE DEF w
<1>7. /\ w \o v \in Seq(S) /\ Len(w \o v) = i + (n - i + 1)
      /\ \A j \in 1 .. i + (n - i + 1) : (w \o v)[j] = IF j <= i THEN w[j] ELSE v[j - i]
  <2>1. /\ w \o v \in Seq(S) /\ Len(w \o v) = Len(w) + Len(v)
        /\ \A j \in 1 .. Len(w) + Len(v) : (w \o v)[j] = IF j <= Len(w) THEN w[j] ELSE v[j - Len(w)]
    BY <1>3, <1>6, ConcatProperties
  <2>2. QED BY <1>3, <1>6, <2>1
<1>8. \A j \in 1 .. n + 1 : j > i => j - i \in 1 .. n - i + 1 /\ i + (j - i) - 1 = j - 1
  BY <1>1
<1>9. \A j \in 1 .. n + 1 : j > i => v[j - i] = s[j - 1]
  BY <1>1, <1>3, <1>8
<1>10. i + (n - i + 1) = n + 1
  BY <1>1
<1>11. ASSUME NEW j \in 1 .. n + 1
       PROVE  (w \o v)[j] = IF j < i THEN s[j] ELSE IF j = i THEN x ELSE s[j - 1]
  BY <1>1, <1>6, <1>7, <1>9, <1>10
<1>12. QED BY <1>5, <1>7, <1>10, <1>11

\* What is at i is removed.
LEMMA Removed ==
  ASSUME NEW S, NEW s \in Seq(S), NEW i \in 1 .. Len(s)
  PROVE  /\ RemoveAt(s, i) \in Seq(S) /\ Len(RemoveAt(s, i)) = Len(s) - 1
         /\ \A j \in 1 .. Len(s) - 1 : RemoveAt(s, i)[j] = IF j < i THEN s[j] ELSE s[j + 1]
<1> DEFINE n == Len(s)
           u == SubSeq(s, 1, i - 1)
           v == SubSeq(s, i + 1, n)
<1>1. n \in Nat /\ i \in Nat \ {0} /\ i <= n
  BY Places
<1>2. u \in Seq(S) /\ Len(u) = i - 1 /\ \A j \in 1 .. i - 1 : u[j] = s[j]
  BY <1>1, Part
<1>3. v \in Seq(S) /\ Len(v) = n - i /\ \A j \in 1 .. n - i : v[j] = s[(i + 1) + j - 1]
  BY <1>1, Part
<1>4. RemoveAt(s, i) = u \o v
  BY DEF RemoveAt
<1> HIDE DEF u, v
<1>5. /\ u \o v \in Seq(S) /\ Len(u \o v) = (i - 1) + (n - i)
      /\ \A j \in 1 .. (i - 1) + (n - i) : (u \o v)[j] = IF j <= i - 1 THEN u[j] ELSE v[j - (i - 1)]
  <2>1. /\ u \o v \in Seq(S) /\ Len(u \o v) = Len(u) + Len(v)
        /\ \A j \in 1 .. Len(u) + Len(v) : (u \o v)[j] = IF j <= Len(u) THEN u[j] ELSE v[j - Len(u)]
    BY <1>2, <1>3, ConcatProperties
  <2>2. Len(u) = i - 1 /\ Len(v) = n - i
    BY <1>2, <1>3
  <2>3. QED BY <2>1, <2>2
<1>6. \A j \in 1 .. n - 1 : ~(j <= i - 1) => j - (i - 1) \in 1 .. n - i /\ (i + 1) + (j - (i - 1)) - 1 = j + 1
  BY <1>1
<1>7. \A j \in 1 .. n - 1 : ~(j <= i - 1) => v[j - (i - 1)] = s[j + 1]
  BY <1>1, <1>3, <1>6
<1>8. (i - 1) + (n - i) = n - 1 /\ \A j \in 1 .. n - 1 : j <= i - 1 <=> j < i
  BY <1>1
<1>9. ASSUME NEW j \in 1 .. n - 1 PROVE (u \o v)[j] = IF j < i THEN s[j] ELSE s[j + 1]
  BY <1>1, <1>2, <1>5, <1>7, <1>8
<1>10. QED BY <1>4, <1>5, <1>8, <1>9

----------------------------------------------------------------------------
(* The walk.                                                               *)

\* The walk is under way.
InWalk == walk \in {"page", "buckets"}

\* What the walk has taken from the cloud's list.
Taken == listed \o page

\* Every variable of the walk stays in its range.
WalkTypeOK ==
  /\ listing \in {"volumes", "snapshots", "turbo", "buckets"}
  /\ items \in Seq(ItemIds) /\ page \in Seq(ItemIds) /\ listed \in Seq(ItemIds)
  /\ unused \subseteq ItemIds /\ steadfast \subseteq ToSet(items) /\ shrunk \in BOOLEAN
  /\ walk \in {"no", "page", "buckets", "done", "failed"}
  /\ limit \in Nat /\ (walk # "no" => limit > 0)
  /\ marker \in ItemIds \cup {NoItem} /\ offset \in Nat

\* The list has each object once, and what is not given out yet is nowhere.
IdsOnce == Distinct(items) /\ \A x \in unused : x \notin ToSet(items) /\ x \notin ToSet(Taken)

\* What a place of the list of a walk that follows a marker must tell: up to the
\* last entry taken, all that was there since the beginning has been taken; after it,
\* nothing has.
Sorted(i, k) ==
  IF i <= k THEN items[i] \in steadfast => items[i] \in ToSet(Taken)
  ELSE items[i] \notin ToSet(Taken)

\* So it is wherever the last entry taken still is in the list.
SplitAtMarker ==
  Taken # <<>> =>
    \A k, i \in 1 .. Len(items) : items[k] = Last(Taken) => Sorted(i, k)

\* WalkMissesNothing is not inductive: it says nothing of a walk that goes on.
MarkerWalk ==
  ByMarker =>
    /\ walk \notin {"buckets", "failed"} => page = <<>>
    /\ InWalk => marker = IF listed = <<>> THEN NoItem ELSE Last(listed)
    /\ InWalk \/ walk = "done" => Distinct(Taken)
    /\ InWalk => SplitAtMarker
    /\ (walk = "buckets" /\ Len(page) # limit) \/ walk = "done" => steadfast \subseteq ToSet(Taken)

\* Entries that are counted: the places counted have been listed, unless one went away.
CountedWalk ==
  ~ByMarker =>
    /\ walk # "buckets" /\ page = <<>>
    /\ walk = "page" /\ ~shrunk =>
         \A i \in 1 .. Len(items) : i <= offset /\ items[i] \in steadfast => items[i] \in ToSet(listed)
    /\ walk = "done" /\ ~shrunk => steadfast \subseteq ToSet(listed)

\* The inductive invariant.
WalkInv == WalkTypeOK /\ IdsOnce /\ MarkerWalk /\ CountedWalk

\* The page after place k of the list: it is full, or it reaches the end.
LEMMA PageAfter ==
  ASSUME WalkTypeOK, Distinct(items), limit > 0, NEW k \in Nat
  PROVE  /\ From(k + 1) \in Seq(ItemIds) /\ Len(From(k + 1)) \in Nat /\ Len(From(k + 1)) <= limit
         /\ \A j \in 1 .. Len(From(k + 1)) : k + j \in 1 .. Len(items) /\ From(k + 1)[j] = items[k + j]
         /\ Len(From(k + 1)) # limit => k + Len(From(k + 1)) >= Len(items)
         /\ Distinct(From(k + 1))
<1> DEFINE m == Len(items)
           b == IF (k + 1) + limit - 1 < m THEN (k + 1) + limit - 1 ELSE m
           p == From(k + 1)
           n == Len(p)
<1>1. items \in Seq(ItemIds) /\ m \in Nat /\ limit \in Nat
  BY Places DEF WalkTypeOK
<1>2. k + 1 \in Nat \ {0} /\ b \in Nat /\ b <= m
  BY <1>1
<1>3. p = SubSeq(items, k + 1, b)
  BY DEF From
<1>4. /\ p \in Seq(ItemIds) /\ n = IF k + 1 <= b THEN b - (k + 1) + 1 ELSE 0
      /\ \A j \in 1 .. n : (k + 1) + j - 1 \in (k + 1) .. b /\ p[j] = items[(k + 1) + j - 1]
  <2> HIDE DEF b, p
  <2>1. QED BY <1>1, <1>2, <1>3, Part DEF n
<1>5. n \in Nat /\ n <= limit /\ (n # limit => k + n >= m)
  BY <1>1, <1>2, <1>4
<1>6. \A j \in 1 .. n : k + j \in 1 .. m /\ p[j] = items[k + j]
  <2>1. \A j \in 1 .. n : (k + 1) + j - 1 = k + j
    BY <1>5
  <2>2. \A j \in 1 .. n : k + j \in 1 .. b
    BY <1>2, <1>4, <1>5
  <2> HIDE DEF p, n
  <2>3. QED BY <1>1, <1>2, <1>4, <2>1, <2>2
<1>7. Distinct(p)
  <2> SUFFICES ASSUME NEW i \in 1 .. n, NEW j \in 1 .. n, p[i] = p[j] PROVE i = j
    BY DEF Distinct
  <2>1. k + i = k + j
    BY <1>6 DEF Distinct
  <2>2. QED BY <1>5, <2>1
<1>8. QED BY <1>4, <1>5, <1>6, <1>7

\* The walk takes the page after place k, at which its last entry is.
LEMMA TakesPage ==
  ASSUME WalkInv, ByMarker, walk = "page", UNCHANGED <<items, steadfast, unused>>,
         NEW k \in 0 .. Len(items),
         k = 0 => listed = <<>>, k > 0 => listed # <<>> /\ items[k] = Last(listed),
         NEW p, p = From(k + 1), Taken' = listed \o p
  PROVE  /\ p \in Seq(ItemIds) /\ Taken' \in Seq(ItemIds) /\ IdsOnce'
         /\ Distinct(Taken)' /\ SplitAtMarker'
         /\ Len(p) # limit => steadfast \subseteq ToSet(Taken)'
<1> USE DEF WalkInv
<1> DEFINE m == Len(items)
           n == Len(p)
<1>1. /\ items \in Seq(ItemIds) /\ listed \in Seq(ItemIds) /\ m \in Nat /\ limit \in Nat \ {0} /\ k \in Nat
      /\ steadfast \subseteq ToSet(items)
  BY Places DEF WalkTypeOK
<1>2. /\ p \in Seq(ItemIds) /\ n \in Nat /\ n <= limit
      /\ \A j \in 1 .. n : k + j \in 1 .. m /\ p[j] = items[k + j]
      /\ n # limit => k + n >= m
      /\ Distinct(p)
  BY <1>1, PageAfter DEF IdsOnce
<1>3. page = <<>> /\ Taken = listed /\ Distinct(listed)
  BY <1>1, Joined DEF MarkerWalk, InWalk, Taken
<1>4. ToSet(Taken)' = ToSet(listed) \cup ToSet(p) /\ Taken' \in Seq(ItemIds) /\ Len(Taken') = Len(listed) + n
  BY <1>1, <1>2, Joined
<1>5. /\ \A x : x \in ToSet(items) <=> \E i \in 1 .. m : items[i] = x
      /\ \A x : x \in ToSet(p) <=> \E j \in 1 .. n : p[j] = x
  <2>1. \A x : x \in ToSet(items) <=> \E i \in 1 .. m : items[i] = x
    BY <1>1, Places
  <2>2. \A x : x \in ToSet(p) <=> \E j \in 1 .. n : p[j] = x
    BY <1>2, Places
  <2>3. QED BY <2>1, <2>2
<1>6. \A i \in 1 .. m : Sorted(i, k)
  <2>1. CASE k = 0
    <3>1. ToSet(Taken) = {}
      <4>1. Taken = <<>> /\ Taken \in Seq(ItemIds)
        BY <1>1, <1>3, <2>1
      <4>2. QED BY <4>1 DEF ToSet
    <3>2. QED BY <1>1, <2>1, <3>1 DEF Sorted
  <2>2. CASE k > 0
    <3>1. SplitAtMarker /\ k \in 1 .. m /\ Taken # <<>> /\ items[k] = Last(Taken)
      BY <1>1, <1>3, <2>2 DEF MarkerWalk, InWalk
    <3>2. QED BY <3>1 DEF SplitAtMarker
  <2>3. QED BY <1>1, <2>1, <2>2
<1>7. ToSet(listed) \cap ToSet(p) = {}
  <2>1. ASSUME NEW x, x \in ToSet(p) PROVE x \notin ToSet(listed)
    <3>1. PICK j \in 1 .. n : k + j \in 1 .. m /\ items[k + j] = x
      BY <1>2, <1>5, <2>1
    <3>2. ~(k + j <= k)
      BY <1>1, <1>2, <3>1
    <3>3. QED BY <1>3, <1>6, <3>1, <3>2 DEF Sorted
  <2>2. QED BY <2>1
<1>8. Distinct(Taken)'
  <2>1. Distinct(listed \o p)
    BY <1>1, <1>2, <1>3, <1>7, Joined
  <2>2. QED BY <2>1 DEF Distinct
<1>9. \A i \in 1 .. m : i <= k + n /\ items[i] \in steadfast => items[i] \in ToSet(Taken)'
  <2> SUFFICES ASSUME NEW i \in 1 .. m, i <= k + n, items[i] \in steadfast PROVE items[i] \in ToSet(Taken)'
    OBVIOUS
  <2>1. CASE i <= k
    BY <1>3, <1>4, <1>6, <2>1 DEF Sorted
  <2>2. CASE i > k
    <3>1. i - k \in 1 .. n /\ k + (i - k) = i
      BY <1>1, <1>2, <2>2
    <3>2. QED BY <1>2, <1>4, <1>5, <3>1
  <2>3. QED BY <1>1, <2>1, <2>2
<1>10. \A i \in 1 .. m : ~(i <= k + n) => items[i] \notin ToSet(Taken)'
  <2> SUFFICES ASSUME NEW i \in 1 .. m, ~(i <= k + n), items[i] \in ToSet(p) PROVE FALSE
    <3>1. \A i \in 1 .. m : ~(i <= k + n) => ~(i <= k)
      BY <1>1, <1>2
    <3>2. QED BY <1>3, <1>4, <1>6, <3>1 DEF Sorted
  <2>1. PICK j \in 1 .. n : p[j] = items[i]
    BY <1>5
  <2>2. k + j = i
    BY <1>2, <2>1 DEF IdsOnce, Distinct
  <2>3. QED BY <1>1, <1>2, <2>2
<1>11. Taken' # <<>> => k + n \in 1 .. m /\ items[k + n] = Last(Taken')
  <2> SUFFICES ASSUME Taken' # <<>> PROVE k + n \in 1 .. m /\ items[k + n] = Last(Taken')
    OBVIOUS
  <2>1. CASE p = <<>>
    <3>1. n = 0 /\ listed # <<>> /\ Taken' = listed
      BY <1>1, <1>2, <2>1, Places, Joined
    <3>2. k > 0
      BY <1>1, <3>1
    <3>3. k + n = k /\ k \in 1 .. m
      BY <1>1, <3>1, <3>2
    <3>4. QED BY <3>1, <3>2, <3>3
  <2>2. CASE p # <<>>
    <3>1. n > 0
      BY <1>2, <2>2, Places
    <3>2. n \in 1 .. n
      BY <1>2, <3>1
    <3>3. k + n \in 1 .. m /\ p[n] = items[k + n] /\ Last(Taken') = Last(p)
      BY <1>1, <1>2, <2>2, <3>2, Joined
    <3>4. QED BY <3>3 DEF Last
  <2>3. QED BY <2>1, <2>2
<1>12. SplitAtMarker'
  <2> SUFFICES ASSUME Taken' # <<>>, NEW l \in 1 .. m, NEW i \in 1 .. m, items[l] = Last(Taken')
               PROVE  Sorted(i, l)'
    BY DEF SplitAtMarker
  <2>1. l = k + n
    BY <1>11 DEF IdsOnce, Distinct
  <2>2. QED BY <1>9, <1>10, <2>1 DEF Sorted
<1>13. n # limit => steadfast \subseteq ToSet(Taken)'
  <2> SUFFICES ASSUME n # limit, NEW x \in steadfast PROVE x \in ToSet(Taken)'
    OBVIOUS
  <2>1. PICK i \in 1 .. m : items[i] = x
    BY <1>1, <1>5
  <2>2. i <= k + n
    BY <1>1, <1>2
  <2>3. QED BY <1>9, <2>1, <2>2
<1>14. IdsOnce'
  <2>1. ToSet(p) \subseteq ToSet(items)
    BY <1>2, <1>5
  <2>2. QED BY <1>3, <1>4, <2>1 DEF IdsOnce, Distinct
<1>15. QED BY <1>2, <1>4, <1>8, <1>12, <1>13, <1>14


\* The entry the next page follows is the last one listed.
AtLastEntry == marker = IF listed = <<>> THEN NoItem ELSE Last(listed)

\* An answer is collected: the marker moves to its last entry.
LEMMA Collected ==
  ASSUME WalkTypeOK, walk # "no", NEW p \in Seq(ItemIds), Collect(p),
         UNCHANGED <<listing, items, unused, limit, steadfast, shrunk>>
  PROVE  /\ WalkTypeOK' /\ walk' \in {"page", "done"} /\ page' = <<>>
         /\ listed' = listed \o p /\ Taken' = listed \o p
         /\ AtLastEntry => AtLastEntry'
<1>1. /\ listed \in Seq(ItemIds) /\ offset \in Nat /\ limit \in Nat /\ limit > 0
      /\ marker \in ItemIds \cup {NoItem}
  BY DEF WalkTypeOK
<1>2. /\ listed' = listed \o p /\ page' = <<>> /\ offset' = offset + Len(p)
      /\ marker' = IF p # <<>> THEN Last(p) ELSE marker
      /\ walk' \in {"page", "done"}
  BY DEF Collect
<1>3. listed' \in Seq(ItemIds) /\ Len(p) \in Nat /\ (p # <<>> => Last(p) \in ItemIds)
  <2>1. listed' \in Seq(ItemIds)
    BY <1>1, <1>2, Joined
  <2>2. Len(p) \in Nat /\ (p # <<>> => Len(p) > 0) /\ \A i \in 1 .. Len(p) : p[i] \in ItemIds
    BY Places
  <2>3. p # <<>> => Len(p) \in 1 .. Len(p)
    BY <2>2
  <2>4. QED BY <2>1, <2>2, <2>3 DEF Last
<1>4. Taken' = listed \o p
  BY <1>2, <1>3, Joined DEF Taken
<1>5. WalkTypeOK'
  <2>1. <<>> \in Seq(ItemIds)
    OBVIOUS
  <2>2. QED BY <1>1, <1>2, <1>3, <2>1 DEF WalkTypeOK
<1>6. AtLastEntry => AtLastEntry'
  <2> SUFFICES ASSUME AtLastEntry PROVE AtLastEntry'
    OBVIOUS
  <2>1. CASE p = <<>>
    <3>1. listed' = listed /\ marker' = marker
      BY <1>1, <1>2, <2>1, Joined
    <3>2. QED BY <3>1 DEF AtLastEntry
  <2>2. CASE p # <<>>
    <3>1. Len(listed) \in Nat /\ Len(p) \in Nat /\ Len(p) > 0
      BY <1>1, <2>2, Places
    <3>2. Len(listed') = Len(listed) + Len(p) /\ Last(listed') = Last(p)
      BY <1>1, <1>2, <2>2, Joined
    <3>3. listed' # <<>>
      <4>1. Len(<<>>) = 0
        OBVIOUS
      <4>2. QED BY <3>1, <3>2, <4>1
    <3>4. QED BY <1>2, <2>2, <3>2, <3>3 DEF AtLastEntry
  <2>3. QED BY <2>1, <2>2
<1>7. QED BY <1>2, <1>4, <1>5, <1>6

\* A walk that follows a marker collects the last of what it takes.
LEMMA CollectedByMarker ==
  ASSUME WalkTypeOK, walk # "no", ByMarker, AtLastEntry, NEW p \in Seq(ItemIds), Collect(p),
         UNCHANGED <<listing, items, unused, limit, steadfast, shrunk>>,
         IdsOnce', Distinct(Taken)', SplitAtMarker', Len(p) # limit => steadfast \subseteq ToSet(Taken)'
  PROVE  WalkInv'
<1>1. /\ WalkTypeOK' /\ walk' \in {"page", "done"} /\ page' = <<>> /\ AtLastEntry' /\ ByMarker'
  BY Collected DEF ByMarker
<1>2. walk' = "done" => steadfast' \subseteq ToSet(Taken)'
  <2>1. limit \in Nat /\ limit > 0 /\ Len(p) \in Nat
    BY Places DEF WalkTypeOK
  <2>2. walk' = "done" => Len(p) # limit
    BY <2>1 DEF Collect, MoreToCome
  <2>3. QED BY <2>2
<1>3. MarkerWalk'
  BY <1>1, <1>2 DEF MarkerWalk, InWalk, AtLastEntry
<1>4. CountedWalk'
  BY <1>1 DEF CountedWalk
<1>5. QED BY <1>1, <1>3, <1>4 DEF WalkInv

\* A walk that fails has nothing to show.
LEMMA FailedKeeps ==
  ASSUME WalkInv, ByMarker, FailWalk, UNCHANGED <<listing, items, unused, limit, steadfast, shrunk>>, walk # "no"
  PROVE  WalkInv'
<1>1. walk' = "failed" /\ UNCHANGED <<marker, offset, page, listed>>
  BY DEF FailWalk
<1>2. WalkTypeOK'
  BY <1>1 DEF WalkInv, WalkTypeOK
<1>3. IdsOnce' /\ MarkerWalk' /\ CountedWalk'
  BY <1>1 DEF WalkInv, IdsOnce, Distinct, Taken, MarkerWalk, InWalk, CountedWalk, ByMarker
<1>4. QED BY <1>2, <1>3 DEF WalkInv

\* The page after the marker, of volumes and of buckets.
LEMMA MarkerPageKeeps ==
  ASSUME WalkInv, ByMarker, AskPage
  PROVE  WalkInv'
<1> USE DEF WalkInv
<1>1. /\ walk = "page" /\ UNCHANGED <<listing, items, unused, limit, steadfast, shrunk>>
      /\ PageOfVolumes \/ PageOfBuckets
  BY DEF AskPage, PageOfSnapshots, PageOfShares, ByMarker
<1>2. AtLastEntry /\ page = <<>> /\ listed \in Seq(ItemIds) /\ items \in Seq(ItemIds) /\ Len(items) \in Nat
  BY <1>1, Places DEF MarkerWalk, InWalk, AtLastEntry, WalkTypeOK
<1>3. listed # <<>> => Last(listed) \in ItemIds
  <2>1. listed # <<>> => Len(listed) \in Nat /\ Len(listed) > 0
    BY <1>2, Places
  <2>2. listed # <<>> => Len(listed) \in 1 .. Len(listed)
    BY <2>1
  <2>3. QED BY <1>2, <2>2, Places DEF Last
<1>4. ASSUME NEW k \in 0 .. Len(items), k = 0 => listed = <<>>, k > 0 => listed # <<>> /\ items[k] = Last(listed),
             \/ Collect(From(k + 1))
             \/ page' = From(k + 1) /\ walk' = "buckets" /\ UNCHANGED <<marker, offset, listed>>
      PROVE  WalkInv'
  <2> DEFINE p == From(k + 1)
  <2>1. k \in Nat /\ limit > 0
    BY <1>1, <1>2 DEF WalkTypeOK
  <2>2. p \in Seq(ItemIds)
    BY <2>1, PageAfter DEF IdsOnce
  <2>3. Taken' = listed \o p
    <3>1. CASE Collect(p)
      BY <1>1, <2>2, <3>1, Collected
    <3>2. CASE page' = p /\ UNCHANGED listed
      BY <3>2 DEF Taken
    <3>3. QED BY <1>4, <3>1, <3>2
  <2> HIDE DEF p
  <2>4. /\ IdsOnce' /\ Distinct(Taken)' /\ SplitAtMarker'
        /\ Len(p) # limit => steadfast \subseteq ToSet(Taken)'
    BY <1>1, <1>4, <2>3, TakesPage DEF p
  <2>5. CASE Collect(p)
    BY <1>1, <1>2, <2>2, <2>4, <2>5, CollectedByMarker
  <2>6. CASE page' = p /\ walk' = "buckets" /\ UNCHANGED <<marker, offset, listed>>
    <3>1. WalkTypeOK'
      BY <1>1, <2>2, <2>6 DEF WalkTypeOK
    <3>2. MarkerWalk'
      BY <1>1, <1>2, <2>4, <2>6 DEF MarkerWalk, InWalk, AtLastEntry
    <3>3. CountedWalk'
      BY <1>1 DEF CountedWalk, ByMarker
    <3>4. QED BY <2>4, <3>1, <3>2, <3>3
  <2>7. QED BY <1>4, <2>5, <2>6 DEF p
<1>5. CASE marker = NoItem /\ (Collect(From(1))
                             \/ (page' = From(1) /\ walk' = "buckets" /\ UNCHANGED <<marker, offset, listed>>))
  <2>1. listed = <<>>
    BY <1>2, <1>3, <1>5, ItemIdsAssumption DEF AtLastEntry
  <2>2. 0 \in 0 .. Len(items) /\ 0 + 1 = 1 /\ ~(0 > 0)
    BY <1>2
  <2>3. QED BY <1>4, <1>5, <2>1, <2>2
<1>6. ASSUME NEW i \in 1 .. Len(items), items[i] = marker,
             \/ Collect(From(AfterMarker(i)))
             \/ page' = From(AfterMarker(i)) /\ walk' = "buckets" /\ UNCHANGED <<marker, offset, listed>>
      PROVE  WalkInv'
  <2>1. items[i] \in ItemIds
    BY <1>2, Places
  <2>2. listed # <<>> /\ items[i] = Last(listed)
    BY <1>2, <1>6, <2>1, ItemIdsAssumption DEF AtLastEntry
  <2>3. i \in 0 .. Len(items) /\ i # 0 /\ AfterMarker(i) = i + 1
    BY <1>2 DEF AfterMarker
  <2>4. QED BY <1>4, <1>6, <2>2, <2>3
<1>7. CASE FailWalk
  BY <1>1, <1>7, FailedKeeps
<1>8. QED BY <1>1, <1>5, <1>6, <1>7 DEF PageOfVolumes, PageOfBuckets


\* The next page of entries that are counted.
LEMMA CountedPageKeeps ==
  ASSUME WalkInv, ~ByMarker, AskPage
  PROVE  WalkInv'
<1> USE DEF WalkInv
<1> DEFINE p == From(offset + 1)
           m == Len(items)
           n == Len(p)
<1>1. /\ walk = "page" /\ UNCHANGED <<listing, items, unused, limit, steadfast, shrunk>>
      /\ Collect(p) /\ ~ByMarker'
  BY DEF AskPage, PageOfVolumes, PageOfBuckets, PageOfSnapshots, PageOfShares, ByMarker
<1>2. /\ listed \in Seq(ItemIds) /\ items \in Seq(ItemIds) /\ m \in Nat /\ offset \in Nat /\ limit > 0
      /\ steadfast \subseteq ToSet(items) /\ page = <<>>
  BY <1>1, Places DEF WalkTypeOK, CountedWalk
<1>3. /\ p \in Seq(ItemIds) /\ n \in Nat
      /\ \A j \in 1 .. n : offset + j \in 1 .. m /\ p[j] = items[offset + j]
  BY <1>2, PageAfter DEF IdsOnce
<1>4. offset' = offset + n /\ (walk' = "done" => ~(offset + n < m))
  BY <1>1 DEF Collect, MoreToCome
<1> HIDE DEF p
<1>5. /\ WalkTypeOK' /\ walk' \in {"page", "done"} /\ page' = <<>>
      /\ listed' = listed \o p /\ Taken' = listed \o p
  BY <1>1, <1>3, Collected
<1>6. ToSet(listed)' = ToSet(listed) \cup ToSet(p) /\ ToSet(Taken)' = ToSet(listed) \cup ToSet(p) /\ Taken = listed
  BY <1>2, <1>3, <1>5, Joined DEF Taken
<1>7. \A j \in 1 .. n : p[j] \in ToSet(p)
  BY <1>3, Places
<1>8. ToSet(p) \subseteq ToSet(items)
  <2> SUFFICES ASSUME NEW x \in ToSet(p) PROVE x \in ToSet(items)
    OBVIOUS
  <2>1. PICK j \in 1 .. n : p[j] = x
    BY <1>3, Places
  <2>2. offset + j \in 1 .. m /\ items[offset + j] = x
    BY <1>3, <2>1
  <2>3. QED BY <1>2, <2>2, Places
<1>9. IdsOnce'
  BY <1>1, <1>6, <1>8 DEF IdsOnce, Distinct
<1>10. ASSUME ~shrunk, NEW i \in 1 .. m, i <= offset + n, items[i] \in steadfast
       PROVE  items[i] \in ToSet(listed)'
  <2>1. CASE i <= offset
    BY <1>1, <1>6, <1>10, <2>1 DEF CountedWalk
  <2>2. CASE i > offset
    <3>1. i - offset \in 1 .. n /\ offset + (i - offset) = i
      BY <1>2, <1>3, <1>10, <2>2
    <3>2. p[i - offset] = items[i]
      BY <1>3, <3>1
    <3>3. QED BY <1>6, <1>7, <3>1, <3>2
  <2>3. QED BY <1>2, <2>1, <2>2
<1>11. walk' = "done" /\ ~shrunk => steadfast \subseteq ToSet(listed)'
  <2> SUFFICES ASSUME walk' = "done", ~shrunk, NEW x \in steadfast PROVE x \in ToSet(listed)'
    OBVIOUS
  <2>1. PICK i \in 1 .. m : items[i] = x
    BY <1>2, Places
  <2>2. i <= offset + n
    BY <1>2, <1>3, <1>4
  <2>3. QED BY <1>10, <2>1, <2>2
<1>12. CountedWalk'
  BY <1>1, <1>4, <1>5, <1>10, <1>11 DEF CountedWalk
<1>13. MarkerWalk'
  BY <1>1 DEF MarkerWalk
<1>14. QED BY <1>5, <1>9, <1>12, <1>13

\* The buckets of a page are read, each on its own.
LEMMA ReadKeeps ==
  ASSUME WalkInv, ReadBuckets
  PROVE  WalkInv'
<1> USE DEF WalkInv
<1>1. /\ walk = "buckets" /\ UNCHANGED <<listing, items, unused, limit, steadfast, shrunk>>
      /\ Collect(page) \/ FailWalk
  BY DEF ReadBuckets
<1>2. ByMarker /\ AtLastEntry /\ page \in Seq(ItemIds)
  BY <1>1 DEF CountedWalk, MarkerWalk, InWalk, AtLastEntry, WalkTypeOK
<1>3. CASE Collect(page)
  <2>1. Taken' = Taken
    BY <1>1, <1>2, <1>3, Collected DEF Taken
  <2>2. /\ IdsOnce' /\ Distinct(Taken)' /\ SplitAtMarker'
        /\ Len(page) # limit => steadfast \subseteq ToSet(Taken)'
    BY <1>1, <1>2, <2>1 DEF IdsOnce, Distinct, MarkerWalk, InWalk, SplitAtMarker, Sorted
  <2>3. QED BY <1>1, <1>2, <1>3, <2>2, CollectedByMarker
<1>4. CASE FailWalk
  BY <1>1, <1>2, <1>4, FailedKeeps
<1>5. QED BY <1>1, <1>3, <1>4

\* A walk begins with nothing taken.
LEMMA BeginWalkKeeps ==
  ASSUME WalkInv, BeginWalk
  PROVE  WalkInv'
<1> USE DEF WalkInv
<1>1. /\ walk' = "page" /\ limit' \in MaxEntries /\ UNCHANGED <<listing, items, unused>>
      /\ marker' = NoItem /\ offset' = 0 /\ page' = <<>> /\ listed' = <<>>
      /\ steadfast' = ToSet(items) /\ shrunk' = FALSE
  BY DEF BeginWalk
<1>2. limit' \in Nat /\ limit' > 0
  BY <1>1, MaxEntriesAssumption
<1>3. <<>> \in Seq(ItemIds) /\ <<>> \o <<>> = <<>> /\ Len(<<>>) = 0 /\ ToSet(<<>>) = {}
  BY Joined DEF ToSet
<1>4. WalkTypeOK'
  BY <1>1, <1>2, <1>3 DEF WalkTypeOK
<1>5. Taken' = <<>>
  BY <1>1, <1>3 DEF Taken
<1>6. IdsOnce'
  BY <1>1, <1>3, <1>5 DEF IdsOnce, Distinct
<1>7. MarkerWalk'
  BY <1>1, <1>3, <1>5 DEF MarkerWalk, InWalk, Distinct, SplitAtMarker
<1>8. CountedWalk'
  <2>1. items \in Seq(ItemIds) /\ Len(items) \in Nat
    BY Places DEF WalkTypeOK
  <2>2. \A i \in 1 .. Len(items) : ~(i <= 0)
    BY <2>1
  <2>3. QED BY <1>1, <2>2 DEF CountedWalk
<1>9. QED BY <1>4, <1>6, <1>7, <1>8


\* The cloud's list changes but keeps its order: place j of the new list holds the
\* newcomer x, or what was at place o[j].
Reordered(x, o) ==
  /\ \A j \in 1 .. Len(items') : items'[j] # x => o[j] \in 1 .. Len(items) /\ items'[j] = items[o[j]]
  /\ \A j, k \in 1 .. Len(items') : items'[j] # x /\ items'[k] # x => (j <= k <=> o[j] <= o[k])

\* None of its entries moves to the front.
NoneAdvances(x, o) == \A j \in 1 .. Len(items') : items'[j] # x => o[j] <= j

\* What the walk must be told of the change: x is not known to it, and no ID is used
\* twice.
ListTypeOK(x) ==
  /\ items' \in Seq(ItemIds) /\ unused' \subseteq unused
  /\ steadfast' \subseteq steadfast /\ steadfast' \subseteq ToSet(items)' /\ shrunk' \in BOOLEAN
  /\ Distinct(items)' /\ \A y \in unused' : y \notin ToSet(items)'
  /\ x \notin ToSet(Taken) /\ x \notin steadfast'

\* The walk, which sees nothing of the change, keeps what it has.
LEMMA ListChanges ==
  ASSUME WalkInv, UNCHANGED <<listing, walk, limit, marker, offset, page, listed>>,
         NEW x, NEW o, ListTypeOK(x), Reordered(x, o), shrunk => shrunk', InWalk /\ ~shrunk' => NoneAdvances(x, o)
  PROVE  WalkInv'
<1> USE DEF WalkInv, ListTypeOK, Reordered, NoneAdvances
<1>1. Taken' = Taken /\ (ByMarker' <=> ByMarker) /\ (InWalk' <=> InWalk)
  BY DEF Taken, ByMarker, InWalk
<1>2. WalkTypeOK'
  BY DEF WalkTypeOK
<1>3. IdsOnce'
  BY <1>1 DEF IdsOnce
<1>4. MarkerWalk'
  <2> SUFFICES ASSUME ByMarker PROVE MarkerWalk'
    BY <1>1 DEF MarkerWalk
  <2>1. ASSUME InWalk PROVE SplitAtMarker'
    <3> SUFFICES ASSUME Taken # <<>>, NEW k \in 1 .. Len(items'), NEW i \in 1 .. Len(items'),
                        items'[k] = Last(Taken)
                 PROVE  Sorted(i, k)'
      BY <1>1 DEF SplitAtMarker
    <3>1. Last(Taken) \in ToSet(Taken)
      <4>1. Taken \in Seq(ItemIds)
        BY Joined DEF Taken, WalkTypeOK
      <4>2. Len(Taken) \in 1 .. Len(Taken)
        <5>1. Len(Taken) \in Nat /\ Len(Taken) > 0
          BY <4>1, Places
        <5>2. QED BY <5>1
      <4>3. QED BY <4>1, <4>2, Places DEF Last
    <3>2. items'[k] # x /\ o[k] \in 1 .. Len(items) /\ items[o[k]] = Last(Taken)
      BY <3>1
    <3>3. \A j \in 1 .. Len(items) : Sorted(j, o[k])
      BY <2>1, <3>2 DEF MarkerWalk, SplitAtMarker
    <3>4. CASE items'[i] = x
      BY <1>1, <3>4 DEF Sorted
    <3>5. CASE items'[i] # x
      <4>1. o[i] \in 1 .. Len(items) /\ items'[i] = items[o[i]] /\ (i <= k <=> o[i] <= o[k])
        BY <3>2, <3>5
      <4>2. Sorted(o[i], o[k])
        BY <3>3, <4>1
      <4>3. QED BY <1>1, <4>1, <4>2 DEF Sorted
    <3>6. QED BY <3>4, <3>5
  <2>2. Distinct(Taken) => Distinct(Taken)'
    BY <1>1 DEF Distinct
  <2>3. QED BY <1>1, <2>1, <2>2 DEF MarkerWalk
<1>5. CountedWalk'
  <2> SUFFICES ASSUME ~ByMarker PROVE CountedWalk'
    BY <1>1 DEF CountedWalk
  <2>1. ASSUME walk = "page", ~shrunk', NEW j \in 1 .. Len(items'), j <= offset, items'[j] \in steadfast'
        PROVE  items'[j] \in ToSet(listed)
    <3>1. items'[j] # x /\ o[j] \in 1 .. Len(items) /\ items'[j] = items[o[j]] /\ o[j] <= j
      BY <2>1 DEF InWalk
    <3>2. o[j] <= offset
      <4>1. offset \in Nat /\ Len(items) \in Nat /\ Len(items') \in Nat
        BY Places DEF WalkTypeOK
      <4>2. QED BY <2>1, <3>1, <4>1
    <3>3. QED BY <2>1, <3>1, <3>2 DEF CountedWalk
  <2>2. QED BY <2>1 DEF CountedWalk
<1>6. QED BY <1>2, <1>3, <1>4, <1>5

\* An object that appears was nowhere before.
LEMMA AppearKeeps ==
  ASSUME WalkInv, Appear
  PROVE  WalkInv'
<1> USE DEF WalkInv
<1>1. PICK x \in unused, i \in 1 .. Len(items) + 1 : items' = InsertAt(items, i, x) /\ unused' = unused \ {x}
  BY DEF Appear
<1>2. UNCHANGED <<listing, walk, limit, marker, offset, page, listed, steadfast, shrunk>>
  BY DEF Appear
<1> DEFINE m == Len(items)
           o == [j \in 1 .. m + 1 |-> IF j < i THEN j ELSE j - 1]
<1>3. /\ items \in Seq(ItemIds) /\ m \in Nat /\ x \in ItemIds /\ i \in 1 .. m + 1
      /\ x \notin ToSet(items) /\ x \notin ToSet(Taken) /\ steadfast \subseteq ToSet(items)
  BY Places DEF WalkTypeOK, IdsOnce
<1>4. /\ items' \in Seq(ItemIds) /\ Len(items') = m + 1
      /\ items'[i] = x
      /\ \A j \in 1 .. m + 1 : j # i => items'[j] = IF j < i THEN items[j] ELSE items[j - 1]
  <2>1. i \in Nat \ {0} /\ i <= Len(items) + 1
    BY <1>3
  <2>2. /\ InsertAt(items, i, x) \in Seq(ItemIds) /\ Len(InsertAt(items, i, x)) = Len(items) + 1
        /\ InsertAt(items, i, x)[i] = x
        /\ \A j \in 1 .. Len(items) + 1 :
             j # i => InsertAt(items, i, x)[j] = IF j < i THEN items[j] ELSE items[j - 1]
    <3> HIDE DEF o, m
    <3>1. x \in ItemIds /\ items \in Seq(ItemIds)
      BY <1>3
    <3>2. QED BY <2>1, <3>1, Inserted
  <2>3. QED BY <1>1, <2>2
<1>5. \A j \in 1 .. m : items[j] # x /\ items[j] \in ToSet(items)
  BY <1>3, Places
<1>6. items'[i] = x
  BY <1>4
<1>7. \A j \in 1 .. m + 1 : j # i => o[j] \in 1 .. m /\ items'[j] = items[o[j]] /\ o[j] <= j
  BY <1>3, <1>4
<1>8. \A j, k \in 1 .. m + 1 : j # i /\ k # i => (j <= k <=> o[j] <= o[k])
  BY <1>3
<1> HIDE DEF o
<1>9. \A j \in 1 .. m + 1 : items'[j] # x <=> j # i
  BY <1>5, <1>6, <1>7
<1>10. Distinct(items)'
  <2> SUFFICES ASSUME NEW j \in 1 .. m + 1, NEW k \in 1 .. m + 1, items'[j] = items'[k] PROVE j = k
    BY <1>4 DEF Distinct
  <2>1. CASE j # i /\ k # i
    <3>1. o[j] = o[k]
      BY <1>7, <2>1 DEF IdsOnce, Distinct
    <3>2. o[j] \in 1 .. m
      BY <1>7, <2>1
    <3>3. j <= k /\ k <= j
      BY <1>3, <1>8, <2>1, <3>1, <3>2
    <3>4. QED BY <1>3, <3>3
  <2>2. QED BY <1>6, <1>9, <2>1
<1>11. \A y : y \in ToSet(items)' <=> y = x \/ y \in ToSet(items)
  <2>1. \A y : y \in ToSet(items)' <=> \E j \in 1 .. m + 1 : items'[j] = y
    BY <1>4, Places
  <2>2. \A y : y \in ToSet(items) <=> \E j \in 1 .. m : items[j] = y
    BY <1>3, Places
  <2>3. ASSUME NEW j \in 1 .. m PROVE \E k \in 1 .. m + 1 : items'[k] = items[j]
    <3>1. CASE j < i
      <4>1. j \in 1 .. m + 1
        BY <1>3
      <4>2. QED BY <1>4, <3>1, <4>1
    <3>2. CASE ~(j < i)
      <4>1. j + 1 \in 1 .. m + 1 /\ ~(j + 1 < i) /\ j + 1 # i /\ (j + 1) - 1 = j
        BY <1>3, <3>2
      <4>2. items'[j + 1] = items[(j + 1) - 1]
        BY <1>4, <4>1
      <4>3. QED BY <4>1, <4>2
    <3>3. QED BY <3>1, <3>2
  <2>4. ASSUME NEW j \in 1 .. m + 1 PROVE items'[j] = x \/ items'[j] \in ToSet(items)
    BY <1>5, <1>7, <1>9
  <2>5. QED BY <1>6, <2>1, <2>2, <2>3, <2>4
<1>12. QED
  <2>1. ListTypeOK(x)
    BY <1>1, <1>2, <1>3, <1>4, <1>10, <1>11 DEF ListTypeOK, IdsOnce, WalkTypeOK
  <2>2. Reordered(x, o) /\ NoneAdvances(x, o)
    BY <1>4, <1>7, <1>8, <1>9 DEF Reordered, NoneAdvances
  <2>3. QED BY <1>2, <2>1, <2>2, ListChanges

\* An object that vanishes is no longer steadfast, and a count of entries is off.
LEMMA VanishKeeps ==
  ASSUME WalkInv, Vanish
  PROVE  WalkInv'
<1> USE DEF WalkInv
<1>1. PICK i \in 1 .. Len(items) : items' = RemoveAt(items, i) /\ steadfast' = steadfast \ {items[i]}
  BY DEF Vanish
<1>2. /\ UNCHANGED <<listing, unused, walk, limit, marker, offset, page, listed>>
      /\ shrunk' = (walk \in {"page", "buckets"} \/ shrunk)
  BY DEF Vanish
<1> DEFINE m == Len(items)
           o == [j \in 1 .. m - 1 |-> IF j < i THEN j ELSE j + 1]
<1>3. items \in Seq(ItemIds) /\ m \in Nat /\ i \in 1 .. m /\ steadfast \subseteq ToSet(items)
  BY Places DEF WalkTypeOK
<1>4. /\ items' \in Seq(ItemIds) /\ Len(items') = m - 1
      /\ \A j \in 1 .. m - 1 : items'[j] = IF j < i THEN items[j] ELSE items[j + 1]
  BY <1>1, <1>3, Removed
<1>5. \A j \in 1 .. m - 1 : o[j] \in 1 .. m /\ o[j] # i /\ items'[j] = items[o[j]]
  BY <1>3, <1>4
<1>6. \A j, k \in 1 .. m - 1 : j <= k <=> o[j] <= o[k]
  BY <1>3
<1>7. \A j \in 1 .. m : j # i => \E k \in 1 .. m - 1 : o[k] = j
  <2> SUFFICES ASSUME NEW j \in 1 .. m, j # i PROVE \E k \in 1 .. m - 1 : o[k] = j
    OBVIOUS
  <2>1. CASE j < i
    <3>1. j \in 1 .. m - 1 /\ o[j] = j
      BY <1>3, <2>1
    <3>2. QED BY <3>1
  <2>2. CASE j > i
    <3>1. j - 1 \in 1 .. m - 1 /\ o[j - 1] = j
      BY <1>3, <2>2
    <3>2. QED BY <3>1
  <2>3. QED BY <1>3, <2>1, <2>2
<1> HIDE DEF o
<1>8. Distinct(items)'
  <2> SUFFICES ASSUME NEW j \in 1 .. m - 1, NEW k \in 1 .. m - 1, items'[j] = items'[k] PROVE j = k
    BY <1>4 DEF Distinct
  <2>1. o[j] = o[k] /\ o[j] \in 1 .. m
    BY <1>5 DEF IdsOnce, Distinct
  <2>2. j <= k /\ k <= j
    BY <1>3, <1>6, <2>1
  <2>3. QED BY <1>3, <2>2
<1>9. /\ \A y : y \in ToSet(items)' <=> \E j \in 1 .. m - 1 : items'[j] = y
      /\ \A y : y \in ToSet(items) <=> \E j \in 1 .. m : items[j] = y
  <2>1. \A y : y \in ToSet(items)' <=> \E j \in 1 .. m - 1 : items'[j] = y
    BY <1>4, Places
  <2>2. \A y : y \in ToSet(items) <=> \E j \in 1 .. m : items[j] = y
    BY <1>3, Places
  <2>3. QED BY <2>1, <2>2
<1>10. ToSet(items)' \subseteq ToSet(items)
  BY <1>5, <1>9
<1>11. \A y \in ToSet(items) : y # items[i] => y \in ToSet(items)'
  <2> SUFFICES ASSUME NEW j \in 1 .. m, items[j] # items[i] PROVE items[j] \in ToSet(items)'
    BY <1>9
  <2>1. PICK k \in 1 .. m - 1 : o[k] = j
    BY <1>7
  <2>2. QED BY <1>5, <1>9, <2>1
<1>12. NoItem \notin ToSet(Taken) /\ NoItem \notin steadfast' /\ \A j \in 1 .. Len(items') : items'[j] # NoItem
  <2>1. Taken \in Seq(ItemIds)
    BY Joined DEF Taken, WalkTypeOK
  <2>2. ToSet(Taken) \subseteq ItemIds
    BY <2>1, Places
  <2>3. ToSet(items) \subseteq ItemIds
    BY <1>3, Places
  <2>4. \A j \in 1 .. Len(items') : items'[j] \in ItemIds
    BY <1>4, Places
  <2>5. QED BY <1>1, <1>3, <2>2, <2>3, <2>4, ItemIdsAssumption
<1>13. QED
  <2>1. (shrunk => shrunk') /\ (InWalk => shrunk') /\ shrunk' \in BOOLEAN
    BY <1>2 DEF WalkTypeOK, InWalk
  <2>2. ListTypeOK(NoItem)
    BY <1>1, <1>2, <1>3, <1>4, <1>8, <1>10, <1>11, <1>12, <2>1 DEF ListTypeOK, IdsOnce
  <2>3. Reordered(NoItem, o)
    BY <1>4, <1>5, <1>6 DEF Reordered
  <2>4. QED BY <1>2, <2>1, <2>2, <2>3, ListChanges

\* A walk through a listing that ends has missed nothing, whatever the objects, the
\* size of its pages and the changes under way: a walk that follows a marker has what
\* was there throughout exactly once; one that counts its entries has it at least once,
\* if nothing went away.
THEOREM WalkIsComplete == ListingsSpec => []WalkMissesNothing
<1>1. ListingsInit => WalkInv
  <2> SUFFICES ASSUME ListingsInit PROVE WalkInv
    OBVIOUS
  <2>1. <<>> \in Seq(ItemIds) /\ <<>> \o <<>> = <<>> /\ Len(<<>>) = 0 /\ ToSet(<<>>) = {}
    BY Joined DEF ToSet
  <2>2. WalkTypeOK
    BY <2>1 DEF ListingsInit, WalkTypeOK
  <2>3. IdsOnce
    BY <2>1 DEF ListingsInit, IdsOnce, Distinct, Taken
  <2>4. MarkerWalk /\ CountedWalk
    BY DEF ListingsInit, MarkerWalk, CountedWalk, InWalk
  <2>5. QED BY <2>2, <2>3, <2>4 DEF WalkInv
<1>2. WalkInv /\ [ListingsNext]_walkVars => WalkInv'
  <2> SUFFICES ASSUME WalkInv, [ListingsNext]_walkVars PROVE WalkInv'
    OBVIOUS
  <2>1. CASE UNCHANGED walkVars
    BY <2>1 DEF walkVars, WalkInv, WalkTypeOK, IdsOnce, Distinct, Taken, MarkerWalk, InWalk, SplitAtMarker, Sorted,
         CountedWalk, ByMarker
  <2>2. QED BY <2>1, BeginWalkKeeps, MarkerPageKeeps, CountedPageKeeps, ReadKeeps, AppearKeeps, VanishKeeps
          DEF ListingsNext
<1>3. WalkInv => WalkMissesNothing
  <2> SUFFICES ASSUME WalkInv, walk = "done", NEW x \in steadfast
               PROVE  IF ByMarker THEN \E i \in Entries(x) : Entries(x) = {i} ELSE Entries(x) # {} \/ shrunk
    BY DEF WalkMissesNothing
  <2>1. listed \in Seq(ItemIds)
    BY DEF WalkInv, WalkTypeOK
  <2>2. CASE ByMarker
    <3>1. Taken = listed /\ Distinct(listed) /\ x \in ToSet(listed)
      BY <2>1, <2>2, Joined DEF WalkInv, MarkerWalk, Taken
    <3>2. PICK i \in 1 .. Len(listed) : listed[i] = x
      BY <2>1, <3>1, Places
    <3>3. i \in Entries(x) /\ Entries(x) = {i}
      BY <3>1, <3>2 DEF Entries, Distinct
    <3>4. QED BY <2>2, <3>3
  <2>3. CASE ~ByMarker /\ ~shrunk
    <3>1. x \in ToSet(listed)
      BY <2>3 DEF WalkInv, CountedWalk
    <3>2. PICK i \in 1 .. Len(listed) : listed[i] = x
      BY <2>1, <3>1, Places
    <3>3. QED BY <2>3, <3>2 DEF Entries
  <2>4. QED BY <2>2, <2>3
<1>4. QED BY <1>1, <1>2, <1>3, PTL DEF ListingsSpec
=============================================================================
