------------------------------ MODULE MCNodes ------------------------------
(* Instances of the node servers for TLC: the ordinary EVS volume, ephemeral *)
(* volumes, the node's metadata and the targets of SFS Turbo, SFS and OBS,   *)
(* one of them in each behaviour.                                            *)
EXTENDS EvsNode, EvsEphemeral, NodeMetadata, ObsMount, TLC

CONSTANTS c1, c2, v1, v2, f1, f2

TwoCalls == {c1, c2}
TwoIds == {v1, v2}
TwoFiles == {f1, f2}
AllFaults == FaultKinds
Symmetry == Permutations(Calls) \cup Permutations(VolumeIds) \cup Permutations(FileIds)

VARIABLE part

volumeOnly == <<mode, data, fits, device, rpc, told, phase, watched, stray, strayed, witness>>
ephemeralOnly == <<known, status, kind, vol, attached, job, seen>>
remoteOnly == <<remote, found, connector>>
vars == <<part, nodeVars, ephemeralOnly, metadata, remoteOnly>>

\* What a part does not use has a single initial value.
MCInit ==
  /\ part \in {"volume", "ephemeral", "metadata", "remote"}
  /\ NodeInit /\ EphemeralInit /\ MetadataInit /\ RemoteInit /\ ObsInit
  /\ part # "volume" => mode = "fs"
  /\ part # "ephemeral" => ~known
  /\ part # "metadata" => order = <<"configDrive">>
  /\ part # "remote" => server = "turbo"
  /\ part = "metadata" => umountKind = "safe"

MCNext ==
  /\ UNCHANGED part
  /\ \/ part = "volume" /\ NodeNext /\ UNCHANGED <<ephemeralOnly, metadata, remoteOnly>>
     \/ part = "ephemeral" /\ EphemeralNext /\ UNCHANGED <<volumeOnly, metadata, remoteOnly>>
     \/ part = "metadata" /\ MetadataNext /\ UNCHANGED <<volumeOnly, ephemeralOnly, remoteOnly, kernel>>
     \/ part = "remote" /\ RemoteNext /\ UNCHANGED <<volumeOnly, ephemeralOnly, metadata>>

MCSpec == MCInit /\ [][MCNext]_vars
=============================================================================
