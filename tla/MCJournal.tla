------------------------------ MODULE MCJournal ------------------------------
(* A small instance of WorkspaceJournal for TLC.                             *)
EXTENDS WorkspaceJournal
=============================================================================
