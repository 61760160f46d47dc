--------------------------- MODULE MCChunkUpload ---------------------------
(***************************************************************************)
(* Small instances of ChunkUpload for TLC.                                 *)
(***************************************************************************)
EXTENDS ChunkUpload
=============================================================================
