---------------------------- MODULE MCFileWatcher ----------------------------
(* A small instance of FileWatcher for TLC. *)
EXTENDS FileWatcher
=============================================================================
