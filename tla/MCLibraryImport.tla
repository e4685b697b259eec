--------------------------- MODULE MCLibraryImport ---------------------------
(* LibraryImport for TLC; the .cfg files give the bounds. *)
EXTENDS LibraryImport
==============================================================================
