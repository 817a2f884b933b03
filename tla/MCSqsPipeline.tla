--------------------------- MODULE MCSqsPipeline ---------------------------
(* Instances of SqsPipeline for TLC. *)
EXTENDS SqsPipeline, TLC

=============================================================================
