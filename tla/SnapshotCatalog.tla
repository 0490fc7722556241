-------------------------- MODULE SnapshotCatalog --------------------------
(***************************************************************************)
(* M03: the catalog of snapshot manifests.  A manifest is                  *)
(* [id, state, valid, reasons].                                            *)
(***************************************************************************)
EXTENDS Integers, Sequences, SequencesExt

CONSTANTS
  Manifest,    \* the manifests that are added
  Reason,
  MaxReasons   \* bound: how often one snapshot is invalidated

ASSUME ManifestAssumption ==
  \A m \in Manifest : {"id", "valid", "reasons"} \subseteq DOMAIN m /\ m.reasons \in Seq(Reason)

VARIABLE catalog

CatalogInit == catalog = << >>

Stored(manifest) ==
  catalog' = [id \in DOMAIN catalog \cup {manifest.id} |->
                IF id = manifest.id THEN manifest ELSE catalog[id]]

(* SnapshotManifest.validate_state, where the manifest was built.          *)
ValidState(manifest) == manifest.valid <=> manifest.reasons = << >>

FaultSameState(manifest) ==
  ValidState(manifest) /\
    (manifest.id \in DOMAIN catalog => catalog[manifest.id].state = manifest.state)

(* Adding a manifest again is no conflict only if nothing of it differs.   *)
CanAdd(manifest) ==
  ValidState(manifest) /\ (manifest.id \in DOMAIN catalog => catalog[manifest.id] = manifest)

Add(manifest) == CanAdd(manifest) /\ Stored(manifest)

Invalidate(id, reason) ==
  /\ id \in DOMAIN catalog
  /\ Len(catalog[id].reasons) < MaxReasons
  /\ Stored([catalog[id] EXCEPT !.valid = FALSE, !.reasons = Append(@, reason)])

CatalogNext ==
  \/ \E m \in Manifest : Add(m)
  \/ \E id \in DOMAIN catalog, r \in Reason : Invalidate(id, r)

CatalogSpec == CatalogInit /\ [][CatalogNext]_catalog

(* A snapshot that was found invalid stays invalid, for all the reasons it *)
(* was given, also when whoever made it adds the manifest again.           *)
InvalidStaysInvalid ==
  \A id \in DOMAIN catalog :
    /\ id \in DOMAIN catalog'
    /\ ~ catalog[id].valid =>
         /\ ~ catalog'[id].valid
         /\ IsPrefix(catalog[id].reasons, catalog'[id].reasons)
=============================================================================
