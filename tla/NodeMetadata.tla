----------------------------- MODULE NodeMetadata -----------------------------
(***************************************************************************)
(* What a node knows of itself (pkg/utils/metadatas/metadata.go): its ID   *)
(* and zone, read from the config drive or the metadata service in the     *)
(* configured order and kept in a variable of the process that no lock     *)
(* protects, and NodeGetInfo of the EVS node server, which asks for both.  *)
(***************************************************************************)
EXTENDS Sequences, CsiCall

VARIABLES
  order,  \* the search order of the configuration
  cache,  \* metadataCache: the source its contents are from, or "none"
  place,  \* place[c]: the element of the order call c is at
  got,    \* got[c]: the source that has answered c
  id,     \* id[c]: the source of the instance ID c has taken
  zone,   \* zone[c]: the source of the zone c has taken
  alone   \* history: no other call was fetching when c took its instance ID

metadata == <<order, cache, place, got, id, zone, alone>>
metadataVars == <<order, cache, place, got, id, zone, alone, pc, polls, reply>>

MetadataSource == {"configDrive", "metadataService"}

\* CheckMetadataSearchOrder: one or two elements, each a known source.
SearchOrder == [1 .. 1 -> MetadataSource] \cup [1 .. 2 -> MetadataSource]

Fetching(c) == pc[c] \in {"Fetch", "Store"}

MetadataInit ==
  /\ order \in SearchOrder
  /\ cache = "none"
  /\ place = [c \in Calls |-> 1]
  /\ got = [c \in Calls |-> "none"]
  /\ id = [c \in Calls |-> "none"]
  /\ zone = [c \in Calls |-> "none"]
  /\ alone = [c \in Calls |-> FALSE]
  /\ NoCalls

\* NodeGetInfo asks for the ID and then for the zone.
BeginGetInfo(c) ==
  /\ Enter(c, "Look")
  /\ id' = [id EXCEPT ![c] = "none"]
  /\ zone' = [zone EXCEPT ![c] = "none"]
  /\ UNCHANGED <<order, cache, place, got, alone>>

\* The operators named Faulty... are what plausible mistakes would make of the
\* definition that follows them; the properties must catch them.
FaultyAlwaysFetches == FALSE
Cached == cache # "none"

Look(c) ==
  /\ pc[c] = "Look"
  /\ \/ Cached /\ Goto(c, "Read") /\ UNCHANGED place
     \/ ~Cached /\ Goto(c, "Fetch") /\ place' = [place EXCEPT ![c] = 1]
  /\ UNCHANGED <<order, cache, got, id, zone, alone, polls>>

\* The first source that answers with metadata is taken; when the last fails so
\* does the call, and nothing is cached.
Fetch(c) ==
  /\ pc[c] = "Fetch"
  /\ \/ got' = [got EXCEPT ![c] = order[place[c]]] /\ Goto(c, "Store") /\ UNCHANGED place
     \/ /\ "api" \in Faults /\ UNCHANGED got
        /\ \/ /\ place[c] < Len(order) /\ place' = [place EXCEPT ![c] = @ + 1]
              /\ UNCHANGED <<pc, reply>>
           \/ place[c] = Len(order) /\ Return(c, "ERR") /\ UNCHANGED place
  /\ UNCHANGED <<order, cache, id, zone, alone, polls>>

Store(c) ==
  /\ pc[c] = "Store"
  /\ cache' = got[c]
  /\ Goto(c, "Read")
  /\ UNCHANGED <<order, place, got, id, zone, alone, polls>>

\* Get returns what the variable holds by then.
Read(c) ==
  /\ pc[c] = "Read"
  /\ \/ /\ id[c] = "none"
        /\ id' = [id EXCEPT ![c] = cache]
        /\ alone' = [alone EXCEPT ![c] = \A d \in Calls : ~Fetching(d)]
        /\ Goto(c, "Look") /\ UNCHANGED zone
     \/ /\ id[c] # "none"
        /\ zone' = [zone EXCEPT ![c] = cache]
        /\ Return(c, "OK") /\ UNCHANGED <<id, alone>>
  /\ UNCHANGED <<order, cache, place, got, polls>>

\* The cache goes with the process.
Restart ==
  /\ CrashCalls
  /\ cache' = "none"
  /\ UNCHANGED <<order, place, got, id, zone, alone>>

MetadataHandle(c) == Look(c) \/ Fetch(c) \/ Store(c) \/ Read(c)

MetadataNext == (\E c \in Calls : BeginGetInfo(c) \/ MetadataHandle(c)) \/ Restart

MetadataSpec == MetadataInit /\ [][MetadataNext]_metadataVars

----------------------------------------------------------------------------
(* Properties.                                                             *)

\* The ID and the zone a node is registered with come from one source, unless
\* another call that found the cache empty was still fetching when the ID was
\* taken and overwrites the cache before the zone is.
NodeInfoIsWhole ==
  \A c \in Calls :
    ~InProgress(c) /\ reply[c] = "OK" /\ alone[c] => id[c] = zone[c]
=============================================================================
