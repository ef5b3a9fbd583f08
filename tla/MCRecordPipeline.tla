--------------------------- MODULE MCRecordPipeline ---------------------------
(* Instance of the record pipeline for TLC. *)
EXTENDS RecordPipeline
=============================================================================
