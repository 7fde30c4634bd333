------------------------------- MODULE MCSockets -------------------------------
(* An instance of Sockets for TLC.                                           *)
EXTENDS Sockets, TLC

Interchangeable == Permutations(Accounts) \cup Permutations(Clients)
===============================================================================
