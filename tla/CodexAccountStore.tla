-------------------------- MODULE CodexAccountStore --------------------------
(***************************************************************************)
(* The records of codex-accounts.json and the functions of                 *)
(* src/codex/account-store.ts that rewrite one of them, as operators from  *)
(* a record to a record.  Each function of the source loads the file,      *)
(* computes the new record of one account and writes the file back with no *)
(* await in between, so inside a process it is one atomic step; the        *)
(* modules that use these operators say what else may happen around it.    *)
(*                                                                         *)
(* A credential is an access token and the refresh token it came with.     *)
(* Both are numbers: equal numbers are equal tokens, 0 is "no token".  The *)
(* grant fingerprint of a record is the hash of its refresh token in every *)
(* record the code writes, so the grant stands for it.  The last-validated *)
(* metadata and replacedAt decide nothing here and are left out.           *)
(***************************************************************************)
EXTENDS Naturals

Credential == [token : Nat, grant : Nat]

NoCredential == [token |-> 0, grant |-> 0]

Record == [generation : Nat, credential : Credential, deleted : BOOLEAN]

(* No entry for the account: `current?.generation ?? 0` reads it as 0.     *)
Absent == [generation |-> 0, credential |-> NoCredential, deleted |-> FALSE]

(* getCodexAccountCredential(id) returns a credential.                     *)
IsLive(r) == r.credential # NoCredential /\ ~ r.deleted

IsGenerationLive(r, generation) == IsLive(r) /\ r.generation = generation

(* saveCodexAccountCredential: a login or an import, whatever was there.   *)
Saved(r, credential) ==
    [generation |-> r.generation + 1, credential |-> credential, deleted |-> FALSE]

(* saveCodexAccountCredentialIfGeneration may write, and what it writes.   *)
MaySaveWhenLive(r, generation) == IsLive(r)      \* mutant: no generation check
MaySave(r, generation) == IsGenerationLive(r, generation)

(* Mutants: written without the test; the rotated refresh token forgotten. *)
SavedRegardless(r, generation, credential) == Saved(r, credential)
SavedWithOldGrant(r, generation, credential) ==
    IF MaySave(r, generation)
    THEN [generation |-> generation + 1, deleted |-> FALSE,
          credential |-> [credential EXCEPT !.grant = r.credential.grant]]
    ELSE r

SavedIfGeneration(r, generation, credential) ==
    IF MaySave(r, generation)
    THEN [generation |-> generation + 1, credential |-> credential, deleted |-> FALSE]
    ELSE r

(* tombstoneCodexAccount: the generation survives the deletion.            *)
TombstonedFromZero(r) ==                         \* mutant: the key is dropped
    [generation |-> 0, credential |-> NoCredential, deleted |-> TRUE]

Tombstoned(r) ==
    [generation |-> r.generation + 1, credential |-> NoCredential, deleted |-> TRUE]

=============================================================================
