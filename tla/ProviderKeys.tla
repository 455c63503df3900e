---------------------------- MODULE ProviderKeys ----------------------------
(***************************************************************************)
(* The users' provider keys, encrypted at rest under one master secret,    *)
(* and the operator's tool that re-encrypts them under another: it reads   *)
(* every row, checks that the old secret opens all of them, and writes     *)
(* them back in batches, a transaction each, while the server goes on      *)
(* saving and removing keys.                                               *)
(***************************************************************************)
EXTENDS Naturals, Sequences, FiniteSets, FiniteSetsExt

CONSTANTS
    Owners,     \* (user, provider) pairs
    ApiKeys,    \* plaintexts
    Secrets,    \* master keys; the first one in use is FirstSecret
    FirstSecret,
    BatchSize,
    MaxSaves,   \* saves of one owner
    MaxRuns,    \* runs of the tool
    NoRow

KeyRow == [id : Nat, secret : Secrets, plain : ApiKeys]

ASSUME KeyAssumption ==
    /\ FirstSecret \in Secrets /\ NoRow \notin KeyRow
    /\ BatchSize \in Nat \ {0} /\ MaxSaves \in Nat /\ MaxRuns \in Nat

VARIABLES
    keyRows,   \* user_api_keys: a KeyRow or NoRow, by owner
    server,    \* LEGALISE_KEY_ENCRYPTION_SECRET of the running server
    tool,      \* the run of the tool: where it is, its secrets, its plaintexts
    kept,      \* history: owner -> what it saved since it last removed its key
    saves,     \* saves by owner; a row inserted by save n has id n
    missed,    \* history: owners whose last save came between a run's read of the
               \* rows and the redeployment
    toolRuns

keyVars == <<keyRows, server, tool, kept, saves, missed, toolRuns>>

NoTool == [at |-> "none", old |-> FirstSecret, new |-> FirstSecret, left |-> {}, resume |-> FALSE]

KeysInit ==
    /\ keyRows = [u \in Owners |-> NoRow]
    /\ server = FirstSecret
    /\ tool = NoTool
    /\ kept = [u \in Owners |-> <<>>]
    /\ saves = [u \in Owners |-> 0]
    /\ missed = {} /\ toolRuns = 0

(* decrypt: the tag verifies under the secret a row was written with. *)
Opens(secret, row) == row.secret = secret

-----------------------------------------------------------------------------
(* upsert_user_provider_key: encrypted under the server's secret into the  *)
(* owner's row, or into a new one.                                         *)
Upserted(u, p) == [id |-> IF keyRows[u] = NoRow THEN saves[u] + 1 ELSE keyRows[u].id,
                   secret |-> server, plain |-> p]

(* upsert_key, of a key the provider did not reject. *)
SaveKey(u) ==
    /\ saves[u] < MaxSaves
    /\ \E p \in ApiKeys :
        /\ keyRows' = [keyRows EXCEPT ![u] = Upserted(u, p)]
        /\ kept' = [kept EXCEPT ![u] = Append(@, p)]
    /\ saves' = [saves EXCEPT ![u] = @ + 1]
    /\ missed' = IF tool.at = "rotating" \/ (tool.at = "done" /\ server # tool.new)
                 THEN missed \cup {u} ELSE missed \ {u}
    /\ UNCHANGED <<server, tool, toolRuns>>

DeleteKey(u) ==
    /\ keyRows[u] # NoRow
    /\ keyRows' = [keyRows EXCEPT ![u] = NoRow]
    /\ kept' = [kept EXCEPT ![u] = <<>>]
    /\ missed' = missed \ {u}
    /\ UNCHANGED <<server, tool, saves, toolRuns>>

Stored(u) == keyRows[u] # NoRow

(* _rotate up to its first write: the preflight opens every row with the   *)
(* old secret or the run aborts; a dry run, like one without rows, ends.   *)
StartRotation ==
    /\ toolRuns < MaxRuns
    /\ tool.at # "rotating"
    /\ \E old, new \in Secrets, dry \in BOOLEAN :
        LET opened == \A u \in Owners : Stored(u) => Opens(old, keyRows[u])
            plaintexts == {[owner |-> u, id |-> keyRows[u].id, plain |-> keyRows[u].plain] :
                             u \in {v \in Owners : Stored(v)}}
        IN  tool' = [at |-> CASE ~ opened -> "aborted"
                              [] opened /\ (dry \/ plaintexts = {}) -> "ended"
                              [] OTHER -> "rotating",
                     old |-> old, new |-> new,
                     left |-> IF opened /\ ~ dry THEN plaintexts ELSE {},
                     resume |-> /\ tool.at = "interrupted" /\ old = tool.new
                                /\ \E u \in Owners : Stored(u) /\ Opens(old, keyRows[u])]
    /\ toolRuns' = toolRuns + 1
    /\ UNCHANGED <<keyRows, server, kept, saves, missed>>

(* mutant: the update names the owner instead of the row's id *)
MutRotated(batch, u) ==
    IF \E b \in batch : b.owner = u /\ Stored(u)
    THEN LET b == CHOOSE c \in batch : c.owner = u
         IN  [id |-> keyRows[u].id, secret |-> tool.new, plain |-> b.plain]
    ELSE keyRows[u]

(* UPDATE ... WHERE id = row_id, with the plaintext the preflight read. *)
Rotated(batch, u) ==
    IF \E b \in batch : b.owner = u /\ Stored(u) /\ b.id = keyRows[u].id
    THEN LET b == CHOOSE c \in batch : c.owner = u
         IN  [id |-> b.id, secret |-> tool.new, plain |-> b.plain]
    ELSE keyRows[u]

(* A batch, in one transaction. *)
RotateBatch ==
    /\ tool.at = "rotating" /\ tool.left # {}
    /\ \E batch \in kSubset(Min({BatchSize, Cardinality(tool.left)}), tool.left) :
        /\ keyRows' = [u \in Owners |-> Rotated(batch, u)]
        /\ tool' = [tool EXCEPT !.left = @ \ batch]
    /\ UNCHANGED <<server, kept, saves, missed, toolRuns>>

FinishRotation ==
    /\ tool.at = "rotating" /\ tool.left = {}
    /\ tool' = [tool EXCEPT !.at = "done"]
    /\ UNCHANGED <<keyRows, server, kept, saves, missed, toolRuns>>

(* The run is interrupted between two batches. *)
Interrupt ==
    /\ tool.at = "rotating" /\ tool.left # {}
    /\ tool' = [tool EXCEPT !.at = "interrupted", !.left = {}]
    /\ UNCHANGED <<keyRows, server, kept, saves, missed, toolRuns>>

(* The operator's last step: redeploy with the new secret. *)
Redeploy ==
    /\ tool.at = "done" /\ server # tool.new
    /\ server' = tool.new
    /\ UNCHANGED <<keyRows, tool, kept, saves, missed, toolRuns>>

KeysNext ==
    \/ \E u \in Owners : SaveKey(u) \/ DeleteKey(u)
    \/ StartRotation \/ RotateBatch \/ FinishRotation \/ Interrupt \/ Redeploy

KeysSpec == KeysInit /\ [][KeysNext]_keyVars

-----------------------------------------------------------------------------
(* No key is lost, mixed up or brought back, however saves and removals    *)
(* interleave with a rotation and its interruptions: an owner has a row    *)
(* exactly while it keeps a key, with a value it saved since it last       *)
(* removed one; unless it saved behind the back of a run that value is its *)
(* last, and the new secret of a finished run opens it.                    *)
KeysKept ==
    \A u \in Owners :
        /\ Stored(u) <=> kept[u] # <<>>
        /\ Stored(u) => \E i \in DOMAIN kept[u] : keyRows[u].plain = kept[u][i]
        /\ Stored(u) /\ u \notin missed =>
              /\ keyRows[u].plain = kept[u][Len(kept[u])]
              /\ tool.at = "done" => Opens(tool.new, keyRows[u])
=============================================================================
