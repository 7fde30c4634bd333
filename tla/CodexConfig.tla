------------------------------ MODULE CodexConfig ------------------------------
(***************************************************************************)
(* What the proxy does to the text of Codex's config.toml                  *)
(* (src/codex/inject.ts). Of the file only four things matter here: which  *)
(* model_provider is in effect, who owns the root openai_base_url, whether *)
(* the settings that no later strip undoes were made (fast_mode, the       *)
(* service tier, the dropped context window and provider lines), and which *)
(* of the user's edits it contains. The model catalog path, which goes and *)
(* comes with the routing, is left out.                                    *)
(***************************************************************************)
EXTENDS Naturals

CONSTANT MaxEdits   \* bound: how often the user edits the files

ASSUME EditsAssumption == MaxEdits \in Nat

\* The two forms of routing: the root override of a proxy that listens on
\* loopback, and the provider table of one that does not.
Forms == {"root", "table"}

Configs == [provider : {"native", "opencodex", "external"}, base : {"none", "user", "opencodex"},
            tuned : BOOLEAN, edit : 0..MaxEdits]

(* The user runs Codex through a provider that is neither its own nor ours. *)
External(config) == config.provider = "external"

(* Codex sends its requests to the proxy.                                  *)
Routes(config) ==
    \/ config.provider = "opencodex"
    \/ config.provider = "native" /\ config.base = "opencodex"

(* What stripOpencodexConfig takes out: a base URL under our marker and    *)
(* our provider, wherever they are; a user's own base URL stays.           *)
Stripped(config) ==
    [config EXCEPT !.provider = IF @ = "opencodex" THEN "native" ELSE @,
                   !.base = IF @ = "opencodex" THEN "none" ELSE @]

(* Mutant: an earlier injection in the other form is not taken out.        *)
InjectedOver(config, form) ==
    CASE form = "table" -> [config EXCEPT !.tuned = TRUE, !.provider = "opencodex"]
      [] form = "root" /\ config.base = "none" -> [config EXCEPT !.tuned = TRUE, !.base = "opencodex"]
      [] OTHER -> [config EXCEPT !.tuned = TRUE]

(* The text injectCodexConfig makes: stripped of an earlier injection,     *)
(* tuned, and routed in one of the two forms. A base URL of the user's     *)
(* keeps the root form out (keptUserBaseUrl).                              *)
Injected(config, form) ==
    LET clean == [Stripped(config) EXCEPT !.tuned = TRUE] IN
    CASE form = "table" -> [clean EXCEPT !.provider = "opencodex"]
      [] form = "root" /\ clean.base = "none" -> [clean EXCEPT !.base = "opencodex"]
      [] OTHER -> clean
===============================================================================
