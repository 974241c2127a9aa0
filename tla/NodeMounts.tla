------------------------------ MODULE NodeMounts ------------------------------
(***************************************************************************)
(* The mounts of a node, as the node servers of the drivers use them       *)
(* (pkg/utils/mounts/mount.go and the mount-utils library below it).  A    *)
(* path may have several mounts, one upon the other.  Shell commands and   *)
(* the kernel are modelled by what they do to the paths and mounts.        *)
(***************************************************************************)
EXTENDS Naturals, Sequences, CsiCall

VARIABLES
  paths,     \* the paths that exist
  mounts,    \* mounts[p]: what is mounted at p, the last one on top
  umountKind \* "safe": this node's umount tells a path that is not mounted apart

kernel == <<paths, mounts, umountKind>>

Path == {"staging", "target"}

NoMounts ==
  /\ paths = {} /\ mounts = [p \in Path |-> <<>>]
  /\ umountKind \in {"safe", "plain"}

IsMounted(p) == mounts[p] # <<>>

\* What a process sees at p: "dir" is a directory of the node's own disk, also
\* when a bind mount of another such directory is there.
Shows(p) == IF IsMounted(p) THEN mounts[p][Len(mounts[p])] ELSE "dir"

\* The check compares the device of p with that of its parent: it does not see
\* the bind mount of a directory of the same disk.
LikelyMounted(p) == p \in paths /\ Shows(p) # "dir"

\* A mount command that succeeds: the path must be there.
Stack(p, s) ==
  /\ p \in paths
  /\ mounts' = [mounts EXCEPT ![p] = Append(@, s)]
  /\ UNCHANGED <<paths, umountKind>>

MakePath(p) == paths' = paths \cup {p} /\ UNCHANGED <<mounts, umountKind>>

\* os.Remove: a mount point is busy.  It also fails on a directory that is not
\* empty.
Remove(p) == ~IsMounted(p) /\ paths' = paths \ {p} /\ UNCHANGED <<mounts, umountKind>>

(* UnmountPath(p) as the steps Cleanup, Umount and RemovePath of call c; l is  *)
(* the step that follows it, "return" if it is the last.                      *)

Proceed(c, l) == IF l = "return" THEN Return(c, "OK") ELSE Goto(c, l)

Cleanup(c, p, l) ==
  /\ pc[c] = "Cleanup"
  /\ \/ p \notin paths /\ Proceed(c, l) /\ UNCHANGED kernel
     \/ /\ p \in paths /\ (umountKind = "safe" \/ LikelyMounted(p))
        /\ Goto(c, "Umount") /\ UNCHANGED kernel
     \/ /\ p \in paths /\ umountKind # "safe" /\ ~LikelyMounted(p)
        /\ \/ Remove(p) /\ Proceed(c, l)
           \/ /\ IsMounted(p) \/ "jobfail" \in Faults
              /\ Return(c, "ERR") /\ UNCHANGED kernel
  /\ UNCHANGED polls

\* A single umount takes the topmost mount away; a path that is missing by now is
\* an error of every kind of umount.
Umount(c, p) ==
  /\ pc[c] = "Umount"
  /\ \/ /\ IsMounted(p)
        /\ mounts' = [mounts EXCEPT ![p] = SubSeq(@, 1, Len(@) - 1)]
        /\ Goto(c, "RemovePath") /\ UNCHANGED <<paths, umountKind>>
     \/ /\ ~IsMounted(p) /\ p \in paths /\ umountKind = "safe"
        /\ Goto(c, "RemovePath") /\ UNCHANGED kernel
     \/ /\ \/ ~IsMounted(p) /\ (p \notin paths \/ umountKind # "safe")
           \/ "jobfail" \in Faults
        /\ Return(c, "ERR") /\ UNCHANGED kernel
  /\ UNCHANGED polls

\* The operators named Faulty... are what plausible mistakes would make of the
\* definition that follows them; the properties must catch them.
FaultyTakesTheUmount(p) == TRUE

\* The path can only be removed when nothing is left mounted.
Unmounted(p) == ~IsMounted(p)

\* Whether by removePath or by a second look, a path still mounted is an error.
RemovePath(c, p, l) ==
  /\ pc[c] = "RemovePath"
  /\ \/ Unmounted(p) /\ paths' = paths \ {p} /\ Proceed(c, l) /\ UNCHANGED <<mounts, umountKind>>
     \/ (~Unmounted(p) \/ "jobfail" \in Faults) /\ Return(c, "ERR") /\ UNCHANGED kernel
  /\ UNCHANGED polls

\* UnmountPath is taken up with l as the step that follows.
UnmountPath(c, p, l) == Cleanup(c, p, l) \/ Umount(c, p) \/ RemovePath(c, p, l)
=============================================================================
