--------------------------- MODULE MCResourceCache ---------------------------
(***************************************************************************)
(* ResourceCache on three groups: one from an owned CRD, one owned and     *)
(* bound, one CRD that is not owned.                                       *)
(***************************************************************************)
EXTENDS ResourceCache
=============================================================================
