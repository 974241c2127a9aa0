-------------------------------- MODULE Shares --------------------------------
(***************************************************************************)
(* The shares of one name under the controller of SFS Turbo or under that  *)
(* of SFS: each behaviour belongs to one of the two drivers.               *)
(***************************************************************************)
EXTENDS SfsTurbo, Sfs

ShareNext == (TurboNext /\ UNCHANGED regrant) \/ SfsNext

ShareSpec ==
  /\ ShareInit /\ regrant \in BOOLEAN
  /\ [][ShareNext]_<<shareVars, regrant>>
=============================================================================
