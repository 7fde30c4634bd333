---------------------------- MODULE MCCodexJournal ----------------------------
(* An instance of CodexJournal for TLC.                                      *)
EXTENDS CodexJournal, TLC

Interchangeable == Permutations(Pids)
===============================================================================
