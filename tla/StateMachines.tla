---------------------------- MODULE StateMachines ----------------------------
(***************************************************************************)
(* The contributed state-machine primitive: versioned definitions, an      *)
(* instance of one, and transition requests with their capability checks   *)
(* and gates.  A request reads the instance once, without locking it, and  *)
(* writes its row, the new state and its audit row in one transaction; a   *)
(* refused capability is audited and committed on the way.                 *)
(***************************************************************************)
EXTENDS Naturals, Sequences, FiniteSets, SequencesExt

CONSTANTS
    Callers,   \* requests
    Versions,  \* versions of one (module_id, definition_key)
    Shapes     \* shapes somebody registers: [states, initial, terminal, edges]

(* An edge: [from, to, caps, gates]. *)
ShapeEdges == UNION {s.edges : s \in Shapes}
Capabilities == UNION {e.caps : e \in ShapeEdges}
Gates == UNION {e.gates : e \in ShapeEdges}

VARIABLES
    defs,      \* state_machine_definitions: version -> shape
    instance,  \* the instance: [version, state, scope]
    granted,   \* capabilities the user holds
    handlers,  \* gate ids with a registered handler
    history,   \* state_machine_transitions, in commit order
    audited,   \* outcomes on the audit trail: <<caller, event>>
    archived,  \* the matter that owns a matter-scoped instance is archived
    call       \* caller -> the request

machineVars == <<defs, instance, granted, handlers, history, audited, archived, call>>

NoShape == [states |-> {}, initial |-> "none", terminal |-> {}, edges |-> {}]
NoInstance == [version |-> 0, state |-> "none", scope |-> "none"]
NoEdge == [from |-> "none", to |-> "none", caps |-> {}, gates |-> {}]
Waiting == [at |-> "idle", edge |-> NoEdge, version |-> 0, shape |-> NoShape, status |-> "none",
            held |-> {}, passed |-> {}]

MachineInit ==
    /\ defs = [v \in Versions |-> NoShape]
    /\ instance = NoInstance
    /\ granted = Capabilities /\ handlers = Gates
    /\ history = <<>> /\ audited = {} /\ archived = FALSE
    /\ call = [c \in Callers |-> Waiting]

(* _validate_definition *)
ValidShape(s) ==
    /\ s.states # {} /\ s.initial \in s.states /\ s.terminal \subseteq s.states
    /\ \A e \in s.edges : {e.from, e.to} \subseteq s.states /\ e.from \notin s.terminal

-----------------------------------------------------------------------------
(* register_definition: an invalid shape is refused, a version that exists *)
(* is returned as it is.                                                   *)
RegisterDefinition(c) ==
    /\ call[c].at = "idle"
    /\ \E v \in Versions, s \in Shapes :
        /\ ValidShape(s)
        /\ call' = [call EXCEPT ![c].at = IF defs[v] = NoShape THEN "insert" ELSE "done",
                                ![c].version = v, ![c].shape = s]
    /\ UNCHANGED <<defs, instance, granted, handlers, history, audited, archived>>

(* The unique constraint on the version fails the second of two inserts. *)
InsertDefinition(c) ==
    LET v == call[c].version IN
    /\ call[c].at = "insert"
    /\ defs' = [defs EXCEPT ![v] = IF @ = NoShape THEN call[c].shape ELSE @]
    /\ call' = [call EXCEPT ![c].at = "done"]
    /\ UNCHANGED <<instance, granted, handlers, history, audited, archived>>

(* _resolve_owner_for_create and create_instance: the caller owns its      *)
(* workspace instances; a matter-scoped one needs an open matter.          *)
CreateInstance ==
    /\ instance = NoInstance
    /\ \E v \in Versions, scope \in {"workspace", "matter"} :
        /\ defs[v] # NoShape
        /\ scope = "matter" => ~ archived
        /\ instance' = [version |-> v, state |-> defs[v].initial, scope |-> scope]
    /\ UNCHANGED <<defs, granted, handlers, history, audited, call, archived>>

(* find_transition: the declared edge between two states, if there is one. *)
Found(from, to) == {e \in defs[instance.version].edges : e.from = from /\ e.to = to}

(* _load_and_authorize_instance, and request_transition on the instance    *)
(* and definition so read: the session does not read the row again.        *)
RequestTransition(c) ==
    /\ call[c].at = "idle"
    /\ instance # NoInstance
    /\ instance.scope = "matter" => ~ archived
    /\ \E to \in defs[instance.version].states :
        LET found == Found(instance.state, to)
            undeclared == [NoEdge EXCEPT !.from = instance.state, !.to = to]
        IN  call' = [call EXCEPT ![c].at = IF found = {} THEN "append" ELSE "caps",
                                 ![c].status = IF found = {} THEN "blocked" ELSE "none",
                                 ![c].edge = IF found = {} THEN undeclared
                                             ELSE CHOOSE e \in found : TRUE]
    /\ UNCHANGED <<defs, instance, granted, handlers, history, audited, archived>>

(* check_or_block, one capability at a time: a denial is committed at once *)
(* with its own audit row.                                                 *)
CheckCapability(c) ==
    /\ call[c].at = "caps"
    /\ LET left == call[c].edge.caps \ call[c].held IN
       IF left = {}
       THEN call' = [call EXCEPT ![c].at = "gates"] /\ UNCHANGED audited
       ELSE \E cap \in left :
              IF cap \in granted
              THEN call' = [call EXCEPT ![c].held = @ \cup {cap}] /\ UNCHANGED audited
              ELSE /\ call' = [call EXCEPT ![c].at = "append", ![c].status = "blocked"]
                   /\ audited' = audited \cup {<<c, "denied">>}
    /\ UNCHANGED <<defs, instance, granted, handlers, history, archived>>

(* Gates in turn: one that is not registered blocks, a handler allows,     *)
(* blocks or raises.                                                       *)
RunGate(c) ==
    /\ call[c].at = "gates"
    /\ LET left == call[c].edge.gates \ call[c].passed IN
       IF left = {}
       THEN call' = [call EXCEPT ![c].at = "append", ![c].status = "completed"]
       ELSE \E g \in left, answer \in {"allow", "blocked", "failed"} :
              IF g \in handlers /\ answer = "allow"
              THEN call' = [call EXCEPT ![c].passed = @ \cup {g}]
              ELSE call' = [call EXCEPT ![c].at = "append",
                                        ![c].status = IF g \in handlers THEN answer ELSE "blocked"]
    /\ UNCHANGED <<defs, instance, granted, handlers, history, audited, archived>>

(* mutant: a blocked transition moves the instance *)
MutStateAfterTransition(c) == call[c].edge.to

(* An assignment of the state that was read is no change to the ORM, and   *)
(* is not in its UPDATE.                                                   *)
StateAfterTransition(c) ==
    IF call[c].status = "completed" /\ call[c].edge.to # call[c].edge.from
    THEN call[c].edge.to ELSE instance.state

(* _append_transition, the new state and the outcome's audit row. *)
AppendTransition(c) ==
    /\ call[c].at = "append"
    /\ history' = Append(history, [by |-> c, from |-> call[c].edge.from, to |-> call[c].edge.to,
                                   status |-> call[c].status])
    /\ instance' = [instance EXCEPT !.state = StateAfterTransition(c)]
    /\ audited' = audited \cup {<<c, call[c].status>>}
    /\ call' = [call EXCEPT ![c].at = "done"]
    /\ UNCHANGED <<defs, granted, handlers, archived>>

(* Grants and gate handlers change between the steps of a request. *)
ChangeGrant ==
    /\ \E cap \in Capabilities :
        granted' = IF cap \in granted THEN granted \ {cap} ELSE granted \cup {cap}
    /\ UNCHANGED <<defs, instance, handlers, history, audited, call, archived>>

ChangeGate ==
    /\ \E g \in Gates : handlers' = IF g \in handlers THEN handlers \ {g} ELSE handlers \cup {g}
    /\ UNCHANGED <<defs, instance, granted, history, audited, call, archived>>

ArchiveOwner ==
    /\ ~ archived /\ archived' = TRUE
    /\ UNCHANGED <<defs, instance, granted, handlers, history, audited, call>>

MachineNext ==
    \/ \E c \in Callers :
          \/ RegisterDefinition(c) \/ InsertDefinition(c) \/ RequestTransition(c)
          \/ CheckCapability(c) \/ RunGate(c) \/ AppendTransition(c)
    \/ CreateInstance \/ ChangeGrant \/ ChangeGate \/ ArchiveOwner

MachineSpec == MachineInit /\ [][MachineNext]_machineVars

-----------------------------------------------------------------------------
(* The state of an instance is explained by its history, and by history    *)
(* its definition allows: it is where the last completed move led,         *)
(* whatever was blocked, failed or interleaved since, and each completed   *)
(* transition is an edge the version of the instance declares, taken by a  *)
(* request that held every capability and passed every gate of it.         *)
Completed == {i \in DOMAIN history : history[i].status = "completed"}
Moves == {i \in Completed : history[i].from # history[i].to}

StateExplained ==
    instance # NoInstance =>
        /\ instance.state = IF Moves = {} THEN defs[instance.version].initial
                            ELSE history[Max(Moves)].to
        /\ \A i \in Completed :
              \E e \in defs[instance.version].edges :
                  /\ e.from = history[i].from /\ e.to = history[i].to
                  /\ e.caps \subseteq call[history[i].by].held
                  /\ e.gates \subseteq call[history[i].by].passed
=============================================================================
