---------------------------- MODULE NodeLifeCycle ----------------------------
(***************************************************************************)
(* What the node side of a driver promises, whatever its calls do to each  *)
(* other: a volume goes up by staging and then publishing, and down the    *)
(* same way, and leaves the node only when it is down.  A raw device needs *)
(* no staging.  Once the CO lets calls it gave up on interfere, all bets   *)
(* are off.                                                                *)
(***************************************************************************)
VARIABLES
  raw,       \* the volume is used as a raw device
  here,      \* the volume is attached to the node, or about to be
  staged,    \* the staging path shows the volume
  published, \* the target path shows the volume
  broken     \* a call the CO had given up on interfered

vars == <<raw, here, staged, published, broken>>

Init ==
  /\ raw \in BOOLEAN
  /\ ~here /\ ~staged /\ ~published /\ ~broken

Attach == ~here /\ here' = TRUE /\ UNCHANGED <<staged, published>>

Stage == here /\ ~raw /\ ~staged /\ staged' = TRUE /\ UNCHANGED <<here, published>>

Publish ==
  /\ here /\ (staged \/ raw) /\ ~published
  /\ published' = TRUE
  /\ UNCHANGED <<here, staged>>

Unpublish == published /\ published' = FALSE /\ UNCHANGED <<here, staged>>

Unstage == staged /\ ~published /\ staged' = FALSE /\ UNCHANGED <<here, published>>

Detach == here /\ ~staged /\ ~published /\ here' = FALSE /\ UNCHANGED <<staged, published>>

Reboot == staged' = FALSE /\ published' = FALSE /\ UNCHANGED here

Break == broken'

Next ==
  /\ UNCHANGED raw
  /\ \/ Break
     \/ /\ ~broken /\ ~broken'
        /\ \/ Attach \/ Stage \/ Publish \/ Unpublish \/ Unstage \/ Detach \/ Reboot

Spec == Init /\ [][Next]_vars
=============================================================================
