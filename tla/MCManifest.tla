----------------------------- MODULE MCManifest -----------------------------
(* Manifest with thresholds small enough for a rewrite after two deletions. *)
EXTENDS Manifest
=============================================================================
