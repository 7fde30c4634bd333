----------------------------- MODULE TurnRegistry -----------------------------
(***************************************************************************)
(* The state that the streams of a turn share: the client at the other     *)
(* end, and activeTurns of src/server/lifecycle.ts, the abort controllers  *)
(* of the turns that a shutdown waits for.  A turn that came over a        *)
(* WebSocket has a controller of its own ("socket") from its frame on; a   *)
(* response body adds one ("body" for a bridged stream, "relay" for a      *)
(* relayed one) when it is created and removes it when it is over.         *)
(***************************************************************************)
EXTENDS Integers, Sequences

VARIABLES
    activeTurns,    \* the registered controllers
    client          \* "there", "done" (it has read the end) or "gone"

Controllers == {"socket", "body", "relay"}

RegistryTypeOK ==
    /\ activeTurns \subseteq Controllers
    /\ client \in {"there", "done", "gone"}

RegisterTurn(c) == activeTurns' = activeTurns \cup {c}
UnregisterTurn(c) == activeTurns' = activeTurns \ {c}
===============================================================================
