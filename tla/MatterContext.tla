---------------------------- MODULE MatterContext ----------------------------
(***************************************************************************)
(* The matter context store: schemas registered by version, items written  *)
(* under one of them, read, and superseded by newer items.  A request      *)
(* checks its capability, resolves a schema and validates in separate      *)
(* reads; the first audit row it writes takes the chain lock, so what      *)
(* follows that row up to the commit is one step.  The rows of reads,      *)
(* denials and blocked writes change nothing else and are left out.        *)
(***************************************************************************)
EXTENDS Naturals, Sequences, FiniteSets, SequencesExt

CONSTANTS
    Requests,    \* requests of the matter's owner; also the id of the item one writes
    Namespaces,
    SchemaNames, \* version strings
    Payloads,
    Accepted,    \* the sets of payloads a registered schema may accept
    NoItem, NoSchema

ContextItem == [namespace : Namespaces, version : SchemaNames, payload : Payloads,
                supersededBy : Requests \cup {NoItem}]

(* None of these is what it stands for the lack of. *)
ASSUME ContextAssumption ==
    NoItem \notin Requests \cup ContextItem /\ NoSchema \notin SchemaNames

VARIABLES
    schemas,        \* namespace -> its matter_context_schemas rows, oldest first
    items,          \* matter_context_items by id; NoItem where there is none
    contextGrants,  \* capabilities held: <<namespace, "read" or "write">>
    matterOpen,
    contextTrail,   \* the audit rows about items, in order
    ask             \* request -> where it is and what it read

contextVars == <<schemas, items, contextGrants, matterOpen, contextTrail, ask>>

Quiet == [at |-> "idle", kind |-> "none", namespace |-> NoSchema, version |-> NoSchema,
          payload |-> NoItem, old |-> NoItem]

ContextInit ==
    /\ schemas = [n \in Namespaces |-> <<>>]
    /\ items = [r \in Requests |-> NoItem]
    /\ contextGrants = Namespaces \X {"read", "write"}
    /\ matterOpen = TRUE
    /\ contextTrail = <<>>
    /\ ask = [r \in Requests |-> Quiet]

RequestEnded == [Quiet EXCEPT !.at = "done"]

ContextRow(event, r, item) == [event |-> event, by |-> r, item |-> item]

(* A schema row by namespace and version. *)
RowsAt(n, v) == {i \in DOMAIN schemas[n] : schemas[n][i].version = v}

-----------------------------------------------------------------------------
(* register_schema, by an administrator: a version that is there is        *)
(* returned unchanged, and of two that insert it the second fails on the   *)
(* unique constraint.  A schema is the set of payloads it accepts.         *)
RegisterSchema ==
    /\ \E n \in Namespaces, v \in SchemaNames, accepts \in Accepted :
        /\ RowsAt(n, v) = {}
        /\ schemas' = [schemas EXCEPT ![n] = Append(@, [version |-> v, accepts |-> accepts])]
    /\ UNCHANGED <<items, contextGrants, matterOpen, contextTrail, ask>>

(* resolve_owned_open_matter, and for a supersession load_item: the        *)
(* namespace, and the schema version unless one is given, are the old      *)
(* item's.                                                                 *)
BeginRequest(r) ==
    /\ ask[r].at = "idle"
    /\ matterOpen
    /\ \/ \E n \in Namespaces :
             ask' = [ask EXCEPT ![r] = [Quiet EXCEPT !.at = "check", !.kind = "read",
                                                     !.namespace = n]]
       \/ \E n \in Namespaces, v \in SchemaNames \cup {NoSchema}, p \in Payloads :
             ask' = [ask EXCEPT ![r] = [at |-> "check", kind |-> "write", namespace |-> n,
                                        version |-> v, payload |-> p, old |-> NoItem]]
       \/ \E old \in Requests, v \in SchemaNames \cup {NoSchema}, p \in Payloads :
             /\ items[old] # NoItem
             /\ ask' = [ask EXCEPT ![r] =
                          [at |-> "check", kind |-> "supersede",
                           namespace |-> items[old].namespace,
                           version |-> IF v = NoSchema THEN items[old].version ELSE v,
                           payload |-> p, old |-> old]]
    /\ UNCHANGED <<schemas, items, contextGrants, matterOpen, contextTrail>>

Needed(r) == <<ask[r].namespace, IF ask[r].kind = "read" THEN "read" ELSE "write">>

(* check_or_block: a denial ends the request with its audit rows. *)
CheckGrant(r) ==
    /\ ask[r].at = "check"
    /\ IF Needed(r) \in contextGrants
       THEN ask' = [ask EXCEPT ![r].at = IF ask[r].kind = "read" THEN "read" ELSE "resolve"]
       ELSE ask' = [ask EXCEPT ![r] = RequestEnded]
    /\ UNCHANGED <<schemas, items, contextGrants, matterOpen, contextTrail>>

Live(n) == {i \in Requests : items[i] # NoItem /\ items[i].namespace = n
                             /\ items[i].supersededBy = NoItem}

(* read_items: the rows not superseded, and one audit row. *)
ReadItems(r) ==
    /\ ask[r].at = "read"
    /\ ask' = [ask EXCEPT ![r] = RequestEnded]
    /\ UNCHANGED <<schemas, items, contextGrants, matterOpen, contextTrail>>

(* The schema of a write: the version asked for, or the latest registered. *)
LatestVersion(n) == IF schemas[n] = <<>> THEN NoSchema ELSE Last(schemas[n]).version

ResolveSchema(r) ==
    LET n == ask[r].namespace
        v == IF ask[r].version = NoSchema THEN LatestVersion(n) ELSE ask[r].version
        blocked == RowsAt(n, v) = {}
    IN  /\ ask[r].at = "resolve"
        /\ ask' = [ask EXCEPT ![r] = IF blocked THEN RequestEnded
                                     ELSE [@ EXCEPT !.at = "write", !.version = v]]
        /\ UNCHANGED <<schemas, items, contextGrants, matterOpen, contextTrail>>

Accepts(r) ==
    LET n == ask[r].namespace IN
    \A i \in RowsAt(n, ask[r].version) : ask[r].payload \in schemas[n][i].accepts

(* mutant: an item records the newest version instead of the one it was    *)
(* validated against                                                       *)
MutStoredItem(r) ==
    [namespace |-> ask[r].namespace, version |-> LatestVersion(ask[r].namespace),
     payload |-> ask[r].payload, supersededBy |-> NoItem]

StoredItem(r) == [namespace |-> ask[r].namespace, version |-> ask[r].version,
                  payload |-> ask[r].payload, supersededBy |-> NoItem]

(* The rest of write_item and supersede_item: validate, insert, and point  *)
(* the old item, whatever it points at by now, at the new one.             *)
WriteItem(r) ==
    LET old == ask[r].old
        written == [items EXCEPT ![r] = StoredItem(r)]
    IN
    /\ ask[r].at = "write"
    /\ ask' = [ask EXCEPT ![r] = RequestEnded]
    /\ \/ /\ ~ Accepts(r)
          /\ UNCHANGED <<items, contextTrail>>
       \/ /\ Accepts(r) /\ ask[r].kind = "write"
          /\ items' = written
          /\ contextTrail' = Append(contextTrail, ContextRow("created", r, r))
       \/ /\ Accepts(r) /\ ask[r].kind = "supersede"
          /\ items' = [written EXCEPT ![old].supersededBy = r]
          /\ contextTrail' = contextTrail \o <<ContextRow("created", r, r), ContextRow("superseded", r, old)>>
    /\ UNCHANGED <<schemas, contextGrants, matterOpen>>

ChangeContextGrant ==
    /\ \E g \in Namespaces \X {"read", "write"} :
        contextGrants' = IF g \in contextGrants THEN contextGrants \ {g} ELSE contextGrants \cup {g}
    /\ UNCHANGED <<schemas, items, matterOpen, contextTrail, ask>>

CloseContextMatter ==
    /\ matterOpen /\ matterOpen' = FALSE
    /\ UNCHANGED <<schemas, items, contextGrants, contextTrail, ask>>

ContextNext ==
    \/ \E r \in Requests : \/ BeginRequest(r) \/ CheckGrant(r) \/ ReadItems(r)
                           \/ ResolveSchema(r) \/ WriteItem(r)
    \/ RegisterSchema \/ ChangeContextGrant \/ CloseContextMatter

ContextSpec == ContextInit /\ [][ContextNext]_contextVars

-----------------------------------------------------------------------------
InStore == {i \in Requests : items[i] # NoItem}

(* The items reached from one by following superseded_by: those in every   *)
(* set that has it and is closed under the pointers.                       *)
Closed(S) == \A i \in S \cap InStore : items[i].supersededBy \in S \cup {NoItem}
Reached(i) == {j \in Requests : \A S \in SUBSET Requests : i \in S /\ Closed(S) => j \in S}

(* Where the trail tells of a supersession of the item. *)
Supersessions(i) ==
    {n \in DOMAIN contextTrail : contextTrail[n].event = "superseded" /\ contextTrail[n].item = i}

(* What the store holds is explained by its schemas and by the trail: an   *)
(* item's payload is accepted by the very schema row its version names,    *)
(* however many versions were registered while it was being written; its   *)
(* pointer is the one the last supersession row about it recorded, however *)
(* many requests raced to supersede it; and a reader that follows the      *)
(* pointers comes to a live item of the same namespace.                    *)
ContextExplained ==
    \A i \in InStore :
        LET it == items[i] IN
        /\ \E k \in RowsAt(it.namespace, it.version) :
              it.payload \in schemas[it.namespace][k].accepts
        /\ it.supersededBy = IF Supersessions(i) = {} THEN NoItem
                              ELSE contextTrail[Max(Supersessions(i))].by
        /\ Reached(i) \cap Live(it.namespace) # {}
=============================================================================
