------------------------------ MODULE Records ------------------------------
(***************************************************************************)
(* What others refer to by an id: the identities of M02 and the snapshots  *)
(* of M03.                                                                 *)
(***************************************************************************)
EXTENDS Registries, SnapshotCatalog

(* What was registered means the same for ever: an id what it was issued   *)
(* for, and an invalid snapshot that it is invalid, for all its reasons,   *)
(* whoever registers it again.                                             *)
RecordsKeepTheirMeaning ==
  [][IdsKeepTheirMeaning /\ InvalidStaysInvalid]_<<identities, catalog>>
=============================================================================
