--------------------------- MODULE ModuleRegistry ---------------------------
(***************************************************************************)
(* Installing, updating and revoking modules, and granting their           *)
(* capabilities on a matter.                                               *)
(*                                                                         *)
(* A trust ceremony lives in the memory of the server process: it is lost  *)
(* on a restart, it is changed before the audit row and the installed row  *)
(* are committed, and two requests may drive it at once.  Installed rows   *)
(* and grants are tables.  A request is one transaction: it reads, waits   *)
(* at every database round trip, flushes its writes (row locks and unique  *)
(* constraints bite there) and commits or fails.  Audit rows are committed *)
(* with the rows they describe, or lost with them; a step of a ceremony is *)
(* a transaction for its audit row alone.                                  *)
(***************************************************************************)
EXTENDS ModuleManifests, Sequences, SequencesExt, TLC

CONSTANTS
    Actors,        \* concurrent requests
    Manifests,     \* manifests somebody posts to the install endpoint
    Updates,       \* manifests somebody posts to the update endpoint
    MaxCeremonies, \* bound: ceremonies started in a behaviour
    MaxFailures    \* bound: commits that fail (connection lost)

CeremonyIds == 1..MaxCeremonies

VARIABLES
    started,       \* ceremonies started so far; ids are never used again
    ceremonies,    \* memory: id -> ceremony, NoCeremony before start or after restart
    installed,     \* table: rows in installed_at order
    grants,        \* table: <<module, capability id, capability string>> of the user
    txn,           \* actor -> the transaction of the request it serves
    reviewed,      \* history: manifests whose ceremony reached ENABLED
    failures       \* commits that failed so far

registryVars == <<started, ceremonies, installed, grants, txn, reviewed, failures>>

(* What a manifest can be that is posted, or found on disk. *)
Posted == Manifests \cup Updates \cup {EntryManifest(e) : e \in Catalogue}

ASSUME RegistryAssumption ==
    /\ IsFiniteSet(Actors) /\ MaxCeremonies \in Nat
    /\ MaxFailures \in Nat
    /\ \A m \in Posted : m.schemaOk => MeetsSchema(m)

-----------------------------------------------------------------------------
(* The ceremony automaton. *)

FullPath == <<"discovered", "inspected", "signature_checked", "publisher_checked",
              "permissions_reviewed", "gates_reviewed", "granted", "enabled">>
ShortPath == <<"discovered", "publisher_checked", "permissions_reviewed", "granted", "enabled">>

CeremonyStates == Range(FullPath) \cup {"rejected_by_user"}
Terminal == {"enabled", "rejected_by_user"}

NoCeremony == [state |-> "none"]

StateAfter(c) ==
    LET path == IF c.fast THEN ShortPath ELSE FullPath
        i == CHOOSE j \in 1..Len(path) : path[j] = c.state
    IN  path[i + 1]

StartedCeremony(m) ==
    [state |-> "discovered", manifest |-> m, fast |-> FastPath(m), persisted |-> FALSE]

-----------------------------------------------------------------------------
(* Tables. *)

InstalledPairs == {<<r.manifest.id, r.version>> : r \in Range(installed)}
RowsOf(module) == {i \in DOMAIN installed : installed[i].manifest.id = module}
Newest(module) == IF RowsOf(module) = {} THEN 0 ELSE Max(RowsOf(module))
RowFor(m) == {i \in RowsOf(m.id) : installed[i].version = m.version}

(* A transaction: the operation, what it read, what it will write.  `rows` *)
(* is the set of installed rows it has locked, `key` the unique key of a   *)
(* row it has inserted and not committed.                                  *)
NoManifest == [id |-> "none"]

Idle == [op |-> "idle", at |-> "start", row |-> 0, ceremony |-> 0, manifest |-> NoManifest,
         locked |-> {}, keys |-> {}, add |-> {}, del |-> {}]

Begin(a, t) == txn' = [txn EXCEPT ![a] = t]
Goto(a, place) == txn' = [txn EXCEPT ![a].at = place]

RegistryInit ==
    /\ started = 0
    /\ ceremonies = [c \in CeremonyIds |-> NoCeremony]
    /\ installed = <<>>
    /\ grants = {}
    /\ txn = [a \in Actors |-> Idle]
    /\ reviewed = {}
    /\ failures = 0

-----------------------------------------------------------------------------
(* POST /modules/install and its advance endpoint. *)

StartCeremony(a, m, op) ==
    /\ started < MaxCeremonies
    /\ started' = started + 1
    /\ ceremonies' = [ceremonies EXCEPT ![started + 1] = StartedCeremony(m)]
    /\ Begin(a, [Idle EXCEPT !.op = op, !.at = "commit"])

StartInstall(a) ==
    /\ txn[a].op = "idle"
    /\ \E m \in Manifests \cup {EntryManifest(e) : e \in Catalogue} :
        /\ Admissible(m, InstalledPairs)
        /\ StartCeremony(a, m, "start")
    /\ UNCHANGED <<installed, grants, reviewed, failures>>

(* After the state is set, a ceremony that is ENABLED and not persisted    *)
(* goes on to write the installed row, whoever moved it there.             *)
AfterAdvance(c) == IF c.state = "enabled" /\ ~c.persisted THEN "select" ELSE "commit"

Advance(a, c, next) ==
    LET now == [ceremonies[c] EXCEPT !.state = next]
    IN  /\ ceremonies' = [ceremonies EXCEPT ![c] = now]
        /\ reviewed' = IF next = "enabled" THEN reviewed \cup {now.manifest} ELSE reviewed
        /\ Begin(a, [Idle EXCEPT !.op = "advance", !.ceremony = c, !.at = AfterAdvance(now),
                                 !.manifest = now.manifest])

(* A grant out of turn answers 409: its module.ceremony.rejected row goes  *)
(* to a session of its own and nothing here changes.                       *)
AdvanceInstall(a) ==
    /\ txn[a].op = "idle"
    /\ \E c \in CeremonyIds, action \in {"trust", "grant", "reject"} :
        LET k == ceremonies[c] IN
        /\ k # NoCeremony
        /\ \/ k.state \in Terminal /\ Advance(a, c, k.state)
           \/ /\ k.state \notin Terminal
              /\ action = "reject"
              /\ Advance(a, c, "rejected_by_user")
           \/ /\ k.state \notin Terminal
              /\ action = "trust" \/ (action = "grant" /\ k.state = "granted")
              /\ Advance(a, c, StateAfter(k))
    /\ UNCHANGED <<started, installed, grants, failures>>

(* _persist_install: SELECT by (module_id, version), then insert or refresh. *)
SelectExisting(a) ==
    /\ txn[a].at = "select"
    /\ txn' = [txn EXCEPT ![a].row = IF RowFor(txn[a].manifest) = {} THEN 0
                                     ELSE Max(RowFor(txn[a].manifest)),
                          ![a].at = "flush"]
    /\ UNCHANGED <<started, ceremonies, installed, grants, reviewed, failures>>

-----------------------------------------------------------------------------
(* POST /modules/{id}/update *)

Update(a) ==
    /\ txn[a].op = "idle"
    /\ \E m \in Updates :
        /\ RowsOf(m.id) # {}
        /\ Admissible(m, InstalledPairs)
        /\ IF RequiresReprompt(Card(installed[Newest(m.id)].manifest), Raw(m))
           THEN StartCeremony(a, m, "reprompt")
           ELSE /\ Begin(a, [Idle EXCEPT !.op = "update", !.at = "flush", !.manifest = m,
                                         !.row = Newest(m.id)])
                /\ UNCHANGED <<started, ceremonies>>
    /\ UNCHANGED <<installed, grants, reviewed, failures>>

(* POST /modules/{id}/revoke: the rows are read, then disabled by the      *)
(* flush before the SELECT of the grants.                                  *)
Revoke(a) ==
    /\ txn[a].op = "idle"
    /\ \E module \in {r.manifest.id : r \in Range(installed)} :
        Begin(a, [Idle EXCEPT !.op = "revoke", !.at = "flush", !.manifest.id = module,
                              !.row = Len(installed)])
    /\ UNCHANGED <<started, ceremonies, installed, grants, reviewed, failures>>

-----------------------------------------------------------------------------
(* /matters/{slug}/grants *)

Strings(m, cap) == {<<m.id, cap.id, s>> : s \in cap.reads \cup cap.writes}

CreateGrants(a) ==
    /\ txn[a].op = "idle"
    /\ \E module \in {r.manifest.id : r \in Range(installed)} :
        LET row == installed[Newest(module)] IN
        /\ row.enabled
        /\ \E cap \in row.manifest.capabilities :
            /\ cap.scope = "matter"
            /\ Begin(a, [Idle EXCEPT !.op = "grant", !.at = "flush",
                            !.add = Strings(row.manifest, cap) \ grants])
    /\ UNCHANGED <<started, ceremonies, installed, grants, reviewed, failures>>

RevokeGrant(a) ==
    /\ txn[a].op = "idle"
    /\ \E g \in grants :
        Begin(a, [Idle EXCEPT !.op = "ungrant", !.at = "flush", !.del = {g}])
    /\ UNCHANGED <<started, ceremonies, installed, grants, reviewed, failures>>

-----------------------------------------------------------------------------
(* Flush.  A row another transaction has locked, and a key or a grant it   *)
(* has inserted, make it wait; a committed duplicate ends it.              *)

Holding(a) == txn[a].locked \cup txn[a].keys \cup txn[a].add
Blocked(a, wants) ==
    \E b \in Actors \ {a} : txn[b].at = "commit" /\ wants \cap Holding(b) # {}

Key(m) == {<<m.id, m.version>>}

(* Rows are locked by position, tagged so that they are not keys. *)
RowLocks(rows) == {<<"row", i>> : i \in rows}

Locks(a) ==
    LET t == txn[a] IN
    CASE t.op = "advance" -> IF t.row = 0 THEN {} ELSE RowLocks({t.row})
      [] t.op = "update" -> RowLocks({t.row})
      [] t.op = "revoke" -> RowLocks({i \in 1..t.row : installed[i].manifest.id = t.manifest.id})
      [] OTHER -> {}

(* The version an update gives its row, or an admission its new row, must  *)
(* not be another committed row's.                                         *)
NewKey(a) ==
    LET t == txn[a] IN
    CASE t.op = "advance" -> IF t.row = 0 THEN Key(t.manifest) ELSE {}
      [] t.op = "update" -> IF installed[t.row].version = t.manifest.version
                            THEN {} ELSE Key(t.manifest)
      [] OTHER -> {}

Duplicate(a) == NewKey(a) \cap InstalledPairs # {} \/ txn[a].add \cap grants # {}

Flush(a) ==
    LET t == txn[a] IN
    /\ t.at = "flush"
    /\ ~Blocked(a, Locks(a) \cup NewKey(a) \cup t.add)
    /\ ~Duplicate(a)
    /\ LET gone == IF t.op = "revoke" THEN {g \in grants : g[1] = t.manifest.id} ELSE t.del
       IN  txn' = [txn EXCEPT ![a] =
              [t EXCEPT !.at = "commit", !.locked = Locks(a), !.keys = NewKey(a), !.del = gone]]
    /\ ceremonies' =
          IF t.op = "advance" /\ ceremonies[t.ceremony] # NoCeremony
          THEN [ceremonies EXCEPT ![t.ceremony].persisted = TRUE] ELSE ceremonies
    /\ UNCHANGED <<started, installed, grants, reviewed, failures>>

FlushFails(a) ==
    /\ txn[a].at = "flush"
    /\ ~Blocked(a, Locks(a) \cup NewKey(a) \cup txn[a].add)
    /\ Duplicate(a)
    /\ txn' = [txn EXCEPT ![a] = Idle]
    /\ UNCHANGED <<started, ceremonies, installed, grants, reviewed, failures>>

-----------------------------------------------------------------------------
(* Commit.  The ORM writes the columns the request changed, no others: a   *)
(* re-admission keeps the version column, an update the signature status.  *)

Admitted(m, version) ==
    [version |-> version, manifest |-> m, sig |-> SignatureStatus(m), enabled |-> TRUE]

RowsAfter(a) ==
    LET t == txn[a] IN
    CASE t.op = "advance" /\ t.keys # {} -> Append(installed, Admitted(t.manifest, t.manifest.version))
      [] t.op = "advance" /\ t.locked # {} ->
            [installed EXCEPT ![t.row] = Admitted(t.manifest, installed[t.row].version)]
      [] t.op = "update" -> [installed EXCEPT ![t.row].manifest = t.manifest,
                                              ![t.row].version = t.manifest.version]
      [] t.op = "revoke" ->
            [i \in DOMAIN installed |->
                IF <<"row", i>> \in t.locked THEN [installed[i] EXCEPT !.enabled = FALSE]
                ELSE installed[i]]
      [] OTHER -> installed

CommitTxn(a) ==
    /\ txn[a].at = "commit"
    /\ installed' = RowsAfter(a)
    /\ grants' = (grants \ txn[a].del) \cup txn[a].add
    /\ txn' = [txn EXCEPT ![a] = Idle]
    /\ UNCHANGED <<started, ceremonies, reviewed, failures>>

(* The connection is lost: the tables roll back, the ceremony does not. *)
CommitFails(a) ==
    /\ txn[a].op # "idle"
    /\ failures < MaxFailures
    /\ failures' = failures + 1
    /\ txn' = [txn EXCEPT ![a] = Idle]
    /\ UNCHANGED <<started, ceremonies, installed, grants, reviewed>>

(* The process restarts: ceremonies and open transactions are gone. *)
Restart ==
    /\ failures < MaxFailures
    /\ failures' = failures + 1
    /\ \E c \in CeremonyIds : ceremonies[c] # NoCeremony
    /\ ceremonies' = [c \in CeremonyIds |-> NoCeremony]
    /\ txn' = [a \in Actors |-> Idle]
    /\ UNCHANGED <<started, installed, grants, reviewed>>

RegistryNext ==
    \/ \E a \in Actors :
          \/ StartInstall(a) \/ AdvanceInstall(a) \/ SelectExisting(a)
          \/ Update(a) \/ Revoke(a) \/ CreateGrants(a) \/ RevokeGrant(a)
          \/ Flush(a) \/ FlushFails(a) \/ CommitTxn(a) \/ CommitFails(a)
    \/ Restart

RegistrySpec == RegistryInit /\ [][RegistryNext]_registryVars

-----------------------------------------------------------------------------
(* Nothing is installed that no administrator reviewed: what a row's       *)
(* manifest asks for, in every dimension of the permission diff, was on    *)
(* the card of some ceremony of that module that reached ENABLED, however  *)
(* many updates without a ceremony, races and restarts came between.       *)
Union(ms) ==
    [capabilities |-> UNION {Card(m).capabilities : m \in ms},
     gates |-> UNION {Card(m).gates : m \in ms},
     dests |-> UNION {Card(m).dests : m \in ms},
     tier  |-> Max({Card(m).tier : m \in ms})]

NothingUnreviewed ==
    \A r \in Range(installed) :
        LET seen == {m \in reviewed : m.id = r.manifest.id}
        IN  seen # {} /\ DetectExpansion(Union(seen), Raw(r.manifest)) = {}
=============================================================================
