--------------------------- MODULE MCStoragePool ----------------------------
(***************************************************************************)
(* Segments of three cells, and a table that starts with two slots: six    *)
(* objects fill it, make it grow, and need more than one segment after     *)
(* each of two Resets.  Sizes 4 and 5 do not fit into a segment.           *)
(***************************************************************************)
EXTENDS StoragePool
=============================================================================
