--------------------------- MODULE MC_FileObjects ---------------------------
(* An instance of FileObjects for TLC: one attachment, one knowledge file. *)
EXTENDS FileObjects, TLC

CONSTANTS attachment, document

ClassOf == (attachment :> "ATTACHMENT") @@ (document :> "RAW")
=============================================================================
