---------------------------- MODULE MCToolJournal ----------------------------
(* One call in the journal, attempted twice, while somebody else works in the  *)
(* lane and either object may restart. More calls meet only in the lane and in *)
(* the client's one active tool, and both are there for the one call already:  *)
(* Other holds the lane, and a client may have another tool executing.         *)
EXTENDS ToolJournal, TLC
=============================================================================
