------------------------------- MODULE ObsMount -------------------------------
(***************************************************************************)
(* The OBS node server and its connector (pkg/obs/nodeserver.go, mount.go  *)
(* and cluster/images/obs-csi-plugin/csi-connector-server.go).  A publish  *)
(* call writes a file of credentials, posts a mount command over a socket  *)
(* and waits for the answer, however long it takes.  The connector is a    *)
(* service of the host; systemd stops what it has started along with it,   *)
(* the filesystems of mounted buckets included.                            *)
(***************************************************************************)
EXTENDS RemoteMount

CONSTANTS
  FileIds, \* the names of credential files: enough for those in use at a time
  NoFile   \* no file

ASSUME FileIdsAssumption == NoFile \notin FileIds

VARIABLES
  files,   \* the credential files that exist
  file,    \* file[c]: the file of call c
  command, \* command[f]: the command with file f: see CommandState
  spoiled  \* history: a file was left by a driver that died or could not write it

CommandState == {"none", "posted", "mounting", "done", "refused", "broken"}

connector == <<files, file, command, spoiled>>
remoteVars == <<paths, mounts, umountKind, server, up, errand, found, files, file, command,
                spoiled, pc, polls, reply>>

ObsInit ==
  /\ files = {} /\ spoiled = FALSE
  /\ file = [c \in Calls |-> NoFile]
  /\ command = [f \in FileIds |-> "none"]

\* A new name; that of a file nobody knows of any more serves as one.
Fresh == {f \in FileIds : command[f] = "none" /\ \A c \in Calls : file[c] # f}

\* A file that could be made but not written is left behind.
WriteCredential(c) ==
  /\ pc[c] = "Credential"
  /\ \E f \in Fresh :
       \/ /\ files' = files \cup {f} /\ file' = [file EXCEPT ![c] = f]
          /\ Goto(c, "Post") /\ UNCHANGED spoiled
       \/ /\ "jobfail" \in Faults /\ Return(c, "ERR") /\ UNCHANGED file
          /\ \/ files' = files \cup {f} /\ spoiled' = TRUE
             \/ UNCHANGED <<files, spoiled>>
  /\ UNCHANGED command

\* The operators named Faulty... are what plausible mistakes would make of the
\* definition that follows them; the properties must catch them.
FaultyLeavesTheFile(f) == files
WithoutFile(f) == files \ {f}

\* The handler returns r, and with it the deferred deletion of the file is done.
Leave(c, r) ==
  /\ Return(c, r)
  /\ files' = WithoutFile(file[c])
  /\ file' = [file EXCEPT ![c] = NoFile]
  /\ command' = [command EXCEPT ![file[c]] = "none"]
  /\ UNCHANGED spoiled

PostCommand(c) ==
  /\ pc[c] = "Post"
  /\ \/ /\ command' = [command EXCEPT ![file[c]] = "posted"]
        /\ Goto(c, "Await") /\ UNCHANGED <<files, file, spoiled>>
     \/ "crash" \in Faults /\ Leave(c, "ERR")

\* The client has no time-out: it waits for the answer or for a broken connection.
AwaitAnswer(c) ==
  /\ pc[c] = "Await"
  /\ \/ command[file[c]] = "done" /\ Leave(c, "OK")
     \/ command[file[c]] \in {"refused", "broken"} /\ Leave(c, "ERR")

\* Nobody waits for the answer to a command whose driver has died.
Answered(f, s) == command' = [command EXCEPT ![f] = IF \E c \in Calls : file[c] = f THEN s ELSE "none"]

\* The connector takes a command up if its file is there.
CheckParameters(f) ==
  /\ command[f] = "posted"
  /\ IF f \in files THEN command' = [command EXCEPT ![f] = "mounting"] ELSE Answered(f, "refused")
  /\ UNCHANGED <<kernel, files>>

\* obsfs mounts the bucket, also upon another mount of it; then the connector
\* deletes the file as well.
RunObsfs(f) ==
  /\ command[f] = "mounting"
  /\ \/ ~Dead /\ f \in files /\ Stack("target", "bucket") /\ Answered(f, "done")
     \/ /\ Dead \/ f \notin files \/ "target" \notin paths \/ "jobfail" \in Faults
        /\ Answered(f, "refused") /\ UNCHANGED kernel
  /\ files' = files \ {f}

Killed(m) == [i \in DOMAIN m |-> IF m[i] = "bucket" THEN "dead" ELSE m[i]]

\* The connector and what it has started die.
StopConnector ==
  /\ mounts' = [p \in Path |-> Killed(mounts[p])]
  /\ command' = [f \in FileIds |->
       IF command[f] = "none" \/ \A c \in Calls : file[c] # f THEN "none"
       ELSE IF command[f] \in {"done", "refused"} THEN command[f] ELSE "broken"]
  /\ UNCHANGED <<paths, umountKind, files>>

ConnectorDies == "crash" \in Faults /\ StopConnector

\* The driver's process dies; when its container starts again it first has the
\* connector stopped and started again.
DriverDies ==
  /\ CrashCalls
  /\ up' = FALSE
  /\ file' = [c \in Calls |-> NoFile]
  /\ command' = [f \in FileIds |-> IF command[f] \in {"posted", "mounting"} THEN command[f] ELSE "none"]
  /\ spoiled' = (spoiled \/ \E c \in Calls : file[c] \in files)
  /\ UNCHANGED <<kernel, server, errand, files>>

DriverStarts ==
  /\ ~up /\ up' = TRUE
  /\ IF server = "obs" THEN StopConnector ELSE UNCHANGED <<kernel, files, command>>
  /\ UNCHANGED <<server, errand, file, spoiled, pc, polls, reply>>

ConnectorNext ==
  /\ server = "obs"
  /\ (\E f \in FileIds : CheckParameters(f) \/ RunObsfs(f)) \/ ConnectorDies
  /\ UNCHANGED <<remote, file, spoiled, pc, polls, reply>>

ObsHandle(c) ==
  /\ WriteCredential(c) \/ PostCommand(c) \/ AwaitAnswer(c)
  /\ UNCHANGED <<kernel, remote, polls>>

RemoteNext ==
  /\ \/ \E c \in Calls :
          \/ \E k \in {"publish", "unpublish"} : BeginRemote(c, k) /\ UNCHANGED connector
          \/ RemoteHandle(c) /\ UNCHANGED <<remote, connector>>
          \/ ObsHandle(c)
     \/ ConnectorNext \/ DriverDies \/ DriverStarts
  /\ RemoteHistory

RemoteSpec == RemoteInit /\ ObsInit /\ NoMounts /\ NoCalls /\ [][RemoteNext]_remoteVars

----------------------------------------------------------------------------
(* Properties.                                                             *)

\* Unless the driver died or could not write one, every credential file on the
\* node belongs to a publish call in progress: whichever of the two processes
\* fails, and whichever deletes the file first, none stays.
CredentialsRemoved ==
  spoiled \/ files \subseteq {file[c] : c \in {d \in Calls : InProgress(d)}}

\* The calls and commands of OBS that will mount something yet.
StillToMount ==
  {c \in Calls : pc[c] \in {"MakeTarget", "Credential", "Post"}}
    \cup {f \in FileIds : command[f] \in {"posted", "mounting"}}

\* However often the CO repeats a publish call, and whichever process dies, the
\* mounts upon the target are no more than the calls that run side by side.
RemoteStacksBounded ==
  server = "obs" =>
    Len(mounts["target"]) + Cardinality(StillToMount) <= Cardinality(Calls)
=============================================================================
