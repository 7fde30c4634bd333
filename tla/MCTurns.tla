-------------------------------- MODULE MCTurns --------------------------------
(* An instance of Turns for TLC.                                             *)
EXTENDS Turns, TLC

AllRequests == {<<"bridged", "http">>, <<"bridged", "socket">>, <<"relayed", "http">>}
===============================================================================
