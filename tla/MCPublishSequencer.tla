------------------------- MODULE MCPublishSequencer -------------------------
(* PublishSequencer on small sets of threads, for TLC. *)
EXTENDS PublishSequencer
=============================================================================
