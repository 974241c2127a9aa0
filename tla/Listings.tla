------------------------------- MODULE Listings -------------------------------
(***************************************************************************)
(* The listings of the controllers, page by page, as the CO walks through  *)
(* them while objects come and go: ListVolumes of EVS and OBS go on after  *)
(* the ID of the last entry, ListSnapshots of EVS and ListVolumes of SFS   *)
(* Turbo after a number of entries.                                        *)
(***************************************************************************)
EXTENDS Naturals, Sequences, SequencesExt

CONSTANTS
  ItemIds,  \* the objects there can be
  MaxEntries, \* the sizes of a page the CO may ask for
  NoItem    \* no entry

ASSUME ItemIdsAssumption == NoItem \notin ItemIds
ASSUME MaxEntriesAssumption == MaxEntries \subseteq Nat \ {0}

VARIABLES
  listing,   \* "volumes" (EVS), "snapshots", "turbo" or "buckets"
  items,     \* what there is, in the order of the cloud's list
  unused,    \* the IDs not given out yet
  walk,      \* "no", "page", "buckets" (being read), "done" or "failed"
  limit,     \* the size of its pages
  marker,    \* the last entry, if the pages follow one
  offset,    \* the entries so far, if they are counted
  page,      \* the entries of the page being read
  listed,    \* the entries the walk has collected
  steadfast, \* history: what has been there since the walk began
  shrunk     \* history: something went away since then

walkVars == <<listing, items, unused, walk, limit, marker, offset, page, listed, steadfast, shrunk>>

ByMarker == listing \in {"volumes", "buckets"}

ListingsInit ==
  /\ listing \in {"volumes", "snapshots", "turbo", "buckets"}
  /\ items = <<>> /\ unused = ItemIds
  /\ walk = "no" /\ limit = 0 /\ marker = NoItem /\ offset = 0
  /\ page = <<>> /\ listed = <<>> /\ steadfast = {} /\ shrunk = FALSE

BeginWalk ==
  /\ walk \in {"no", "done", "failed"}
  /\ walk' = "page"
  /\ limit' \in MaxEntries
  /\ marker' = NoItem /\ offset' = 0 /\ page' = <<>> /\ listed' = <<>>
  /\ steadfast' = ToSet(items) /\ shrunk' = FALSE
  /\ UNCHANGED <<listing, items, unused>>

\* The operators named Faulty... are what plausible mistakes would make of the
\* definition that follows them; the properties must catch them.
FaultyWithTheMarker(i) == i
AfterMarker(i) == i + 1

MoreToCome(n) == IF ByMarker THEN n > 0 /\ n = limit ELSE offset + n < Len(items)

\* The page that starts with entry i of the cloud's list.
From(i) == SubSeq(items, i, IF i + limit - 1 < Len(items) THEN i + limit - 1 ELSE Len(items))

\* The entries p are the answer; the CO goes on if there is a token for the next.
Collect(p) ==
  /\ listed' = listed \o p
  /\ marker' = IF p # <<>> THEN Last(p) ELSE marker
  /\ offset' = offset + Len(p)
  /\ walk' = IF MoreToCome(Len(p)) THEN "page" ELSE "done"
  /\ page' = <<>>

FailWalk == walk' = "failed" /\ UNCHANGED <<marker, offset, page, listed>>

\* The cloud counts the entries, and answers with their number.
PageOfSnapshots == listing = "snapshots" /\ Collect(From(offset + 1))
PageOfShares == listing = "turbo" /\ Collect(From(offset + 1))

\* The cloud looks for the marker, and does not answer when it is gone.
PageOfVolumes ==
  /\ listing = "volumes"
  /\ \/ marker = NoItem /\ Collect(From(1))
     \/ \E i \in 1 .. Len(items) : items[i] = marker /\ Collect(From(AfterMarker(i)))
     \/ marker # NoItem /\ marker \notin ToSet(items) /\ FailWalk

\* The driver looks for the marker in the whole list; when it is gone the number
\* of entries becomes negative and the driver's process panics.
PageOfBuckets ==
  /\ listing = "buckets"
  /\ \/ marker = NoItem /\ page' = From(1) /\ walk' = "buckets" /\ UNCHANGED <<marker, offset, listed>>
     \/ \E i \in 1 .. Len(items) :
          /\ items[i] = marker
          /\ page' = From(AfterMarker(i)) /\ walk' = "buckets"
          /\ UNCHANGED <<marker, offset, listed>>
     \/ marker # NoItem /\ marker \notin ToSet(items) /\ FailWalk

AskPage ==
  /\ walk = "page"
  /\ PageOfSnapshots \/ PageOfShares \/ PageOfVolumes \/ PageOfBuckets
  /\ UNCHANGED <<listing, items, unused, limit, steadfast, shrunk>>

\* Each bucket of the page is read; one that is gone fails the whole page.
ReadBuckets ==
  /\ walk = "buckets"
  /\ IF ToSet(page) \subseteq ToSet(items) THEN Collect(page) ELSE FailWalk
  /\ UNCHANGED <<listing, items, unused, limit, steadfast, shrunk>>

Appear ==
  /\ \E x \in unused, i \in 1 .. Len(items) + 1 :
       items' = InsertAt(items, i, x) /\ unused' = unused \ {x}
  /\ UNCHANGED <<listing, walk, limit, marker, offset, page, listed, steadfast, shrunk>>

Vanish ==
  /\ \E i \in 1 .. Len(items) :
       items' = RemoveAt(items, i) /\ steadfast' = steadfast \ {items[i]}
  /\ shrunk' = (walk \in {"page", "buckets"} \/ shrunk)
  /\ UNCHANGED <<listing, unused, walk, limit, marker, offset, page, listed>>

ListingsNext == BeginWalk \/ AskPage \/ ReadBuckets \/ Appear \/ Vanish

ListingsSpec == ListingsInit /\ [][ListingsNext]_walkVars

----------------------------------------------------------------------------
(* Properties.                                                             *)

\* The places at which the walk has listed x.
Entries(x) == {i \in 1 .. Len(listed) : listed[i] = x}

\* A walk that ends has every object that was there from its beginning to its end,
\* whatever came and went meanwhile: exactly once if its pages follow a marker; if
\* they are counted, at least once and only if nothing went away.
WalkMissesNothing ==
  walk = "done" =>
    \A x \in steadfast :
      IF ByMarker THEN \E i \in Entries(x) : Entries(x) = {i} ELSE Entries(x) # {} \/ shrunk
=============================================================================
