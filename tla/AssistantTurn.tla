---------------------------- MODULE AssistantTurn ----------------------------
(***************************************************************************)
(* The assistant of one matter: threads, turns (plain or streamed), the    *)
(* token budget, the retrieval trail, a tool call, the rolling summary and *)
(* drafts saved from replies.                                              *)
(*                                                                         *)
(* A turn is one session.  What it writes is seen by others when it        *)
(* commits; the audit rows it flushes hold the chain lock of the matter    *)
(* until then.  Failure rows and retrieval.search go out of band, on a     *)
(* connection of their own, and wait for that lock.                        *)
(*                                                                         *)
(* A message is <<turn, role>>; a summary is the set of messages it folds. *)
(***************************************************************************)
EXTENDS Naturals, Sequences, FiniteSets, FiniteSetsExt

CONSTANTS
    Turns,        \* requests; each is one turn
    Savers,       \* requests to save a reply as a draft
    MaxOpen,      \* bound: requests open at one time
    Nobody,       \* holder of a free lock
    Window,       \* _HISTORY_MESSAGE_LIMIT
    Budget,       \* matter_token_budget, 0 for no limit
    ReplyTokens   \* tokens a reply may be recorded with

ASSUME AssistantAssumption ==
    /\ IsFiniteSet(Turns) /\ Nobody \notin Turns
    /\ Window \in Nat /\ Budget \in Nat /\ ReplyTokens \subseteq Nat

VARIABLES
    threads,   \* committed threads, named by the turn that created them
    rows,      \* messages in created_at order: [turn, role, saved]
    summary,   \* thread -> messages its rolling_summary folds
    lock,      \* holder of the chain lock of the matter
    turn,      \* turn -> the request
    drafts,    \* turns whose reply is a chat_draft artifact
    saver      \* saver -> [at, of]

turnVars == <<threads, rows, summary, lock, turn, drafts, saver>>

Fresh == [at |-> "idle", thread |-> Nobody, seen |-> {},
          prior |-> {}, older |-> {}, tokens |-> 0, tooled |-> FALSE, spent |-> FALSE,
          told |-> "nothing"]

AssistantInit ==
    /\ threads = {} /\ rows = <<>> /\ drafts = {}
    /\ summary = [t \in Turns |-> {}]
    /\ lock = Nobody
    /\ turn = [t \in Turns |-> Fresh]
    /\ saver = [s \in Savers |-> [at |-> "idle", of |-> Nobody]]

-----------------------------------------------------------------------------
Id(row) == <<row.turn, row.role>>

(* The committed messages of a thread, by their place in the order. *)
Messages(thread) == {i \in DOMAIN rows : rows[i].saved /\ turn[rows[i].turn].thread = thread}

Later(S, i) == Cardinality({j \in S : j > i})
Recent(S) == {Id(rows[i]) : i \in {j \in S : Later(S, j) < Window}}

(* mutant: the turns beyond the window are counted in the thread and taken *)
(* from the whole matter                                                   *)
MutAgedOut(thread) ==
    LET S == {i \in DOMAIN rows : rows[i].saved}
    IN  {Id(rows[i]) : i \in {j \in S : Later(S, j) + Cardinality(Messages(thread))
                                          >= Cardinality(S) + Window}}

AgedOut(thread) ==
    LET S == Messages(thread) IN {Id(rows[i]) : i \in {j \in S : Later(S, j) >= Window}}

Replied == {rows[i].turn : i \in {j \in DOMAIN rows : rows[j].saved /\ rows[j].role = "assistant"}}

(* The turns whose recorded tokens count against the budget of the matter. *)
Usage(t) == Replied

Tokens(S) == MapThenSumSet(LAMBDA u : turn[u].tokens, S)

Exceeded(t) == Budget > 0 /\ Tokens(Usage(t)) >= Budget

Move(t, at) == turn' = [turn EXCEPT ![t].at = at]

(* The response, or the last event of a streamed turn, which runs in a     *)
(* task of its own and ends its queue whatever happens.                    *)
Answer(t, at, what) == turn' = [turn EXCEPT ![t].at = at, ![t].told = what]

(* mutant: the user's message is committed before the model is called *)
MutStage(t, role) == Append(rows, [turn |-> t, role |-> role, saved |-> role = "user"])

Stage(t, role) == Append(rows, [turn |-> t, role |-> role, saved |-> FALSE])

Saved(t) == [i \in DOMAIN rows |->
                IF rows[i].turn = t THEN [rows[i] EXCEPT !.saved = TRUE] ELSE rows[i]]
Release(t) == lock' = IF lock = t THEN Nobody ELSE lock

(* The rows of t that are flushed need the lock; others wait for it. *)
MayLock(t) == lock \in {Nobody, t}

-----------------------------------------------------------------------------
(* The requests in progress. *)
Open == {u \in Turns : turn[u].at \notin {"idle", "done", "failed"}}
          \cup {s \in Savers : saver[s].at = "insert"}

(* The thread of the request, or a new one, which is committed with its    *)
(* audit row before the turn.  A request refused here (no such thread, the *)
(* daily limit) changes nothing and is a turn that never begins.           *)
StartTurn(t) ==
    /\ turn[t].at = "idle"
    /\ Cardinality(Open) < MaxOpen
    /\ \E thread \in threads \cup {t} :
        /\ thread = t => lock = Nobody
        /\ threads' = threads \cup {thread}
        /\ turn' = [turn EXCEPT ![t].at = "budget", ![t].thread = thread]
    /\ UNCHANGED <<rows, summary, lock, drafts, saver>>

(* Over the budget, both messages are stored and no model is called. *)
CheckBudget(t) ==
    /\ turn[t].at = "budget"
    /\ IF Exceeded(t)
       THEN /\ rows' = Append(Stage(t, "user"), [turn |-> t, role |-> "assistant", saved |-> FALSE])
            /\ Move(t, "commit")
       ELSE /\ turn' = [turn EXCEPT ![t].at = "load"]
            /\ UNCHANGED rows
    /\ UNCHANGED <<threads, summary, lock, drafts, saver>>

(* The recent window, and the summary once the thread has outgrown it. *)
LoadContext(t) ==
    /\ turn[t].at = "load"
    /\ LET S == Messages(turn[t].thread)
           folded == summary[turn[t].thread]
       IN  turn' = [turn EXCEPT ![t].at = "search", ![t].prior = folded,
                                ![t].seen = Recent(S) \cup
                                            IF Cardinality(S) > Window THEN folded ELSE {}]
    /\ UNCHANGED <<threads, rows, summary, lock, drafts, saver>>

Accept(t) ==
    /\ rows' = Stage(t, "user")
    /\ Move(t, "call")
    /\ UNCHANGED <<threads, summary, drafts, saver>>

(* mutant: retrieval.search is logged in the session of the turn, whose    *)
(* flush of the user's message takes the lock                              *)
MutSearch(t) == turn[t].at = "search" /\ MayLock(t) /\ lock' = t /\ Accept(t)

(* Selected documents are read whole; otherwise the matter is searched and *)
(* retrieval.search is committed out of band.                              *)
Search(t) ==
    /\ turn[t].at = "search"
    /\ \E retrieval \in BOOLEAN : retrieval => lock = Nobody
    /\ Accept(t)
    /\ UNCHANGED lock

(* gateway.call: a reply (structured, not structured, an echo, or one that *)
(* asks for a tool), no key, an error of the provider, a paused matter.    *)
CallModel(t) ==
    /\ turn[t].at = "call"
    /\ \/ \E n \in ReplyTokens, next \in {"reply", "tool"} :
            turn' = [turn EXCEPT ![t].at = next, ![t].tokens = n, ![t].spent = TRUE]
       \/ \E next \in {"keyless", "raising", "raised"} : Move(t, next)
    /\ UNCHANGED <<threads, rows, summary, lock, drafts, saver>>

(* audit_failure, out of band.  Without a key a deterministic reply, the   *)
(* retrieved passages or an honest no-model reply follows; a blocked tool  *)
(* is answered as a failed one; a provider's error is raised.              *)
FailureRow(t) ==
    /\ turn[t].at \in {"keyless", "blocked", "raising"}
    /\ lock = Nobody
    /\ Move(t, IF turn[t].at = "raising" THEN "raised" ELSE "reply")
    /\ UNCHANGED <<threads, rows, summary, lock, drafts, saver>>

(* dispatch_capability of the first tool call.  The posture gate refuses   *)
(* before any query; any later step flushes the model.call row.            *)
RunTool(t) ==
    /\ turn[t].at = "tool"
    /\ \/ Move(t, "blocked") /\ UNCHANGED lock
       \/ /\ MayLock(t)
          /\ lock' = t
          /\ \E next \in {"final", "reply", "raising"} :
                turn' = [turn EXCEPT ![t].at = next, ![t].tooled = TRUE]
    /\ UNCHANGED <<threads, rows, summary, drafts, saver>>

(* The model is told the result; its tokens replace those of the first call. *)
CallFinal(t) ==
    /\ turn[t].at = "final"
    /\ \/ \E n \in ReplyTokens :
            turn' = [turn EXCEPT ![t].at = "reply", ![t].tokens = n]
       \/ Move(t, "raising")
    /\ UNCHANGED <<threads, rows, summary, lock, drafts, saver>>

StageReply(t) ==
    /\ turn[t].at = "reply"
    /\ rows' = Stage(t, "assistant")
    /\ Move(t, "commit")
    /\ UNCHANGED <<threads, summary, lock, drafts, saver>>

CommitTurn(t) ==
    /\ turn[t].at = "commit"
    /\ MayLock(t)
    /\ rows' = Saved(t)
    /\ lock' = Nobody
    /\ IF turn[t].spent THEN Move(t, "refresh")
                        ELSE Answer(t, "done", "result")
    /\ UNCHANGED <<threads, summary, drafts, saver>>

(* _refresh_rolling_summary: all turns beyond the window, again each time. *)
ReadOlder(t) ==
    /\ turn[t].at = "refresh"
    /\ IF Cardinality(Messages(turn[t].thread)) > Window
       THEN turn' = [turn EXCEPT ![t].at = "fold", ![t].older = AgedOut(turn[t].thread)]
       ELSE Answer(t, "done", "result")
    /\ UNCHANGED <<threads, rows, summary, lock, drafts, saver>>

(* The summary call, then the UPDATE, its audit row and the commit; a call *)
(* that fails leaves its row out of band and is swallowed.                 *)
WriteSummary(t) ==
    /\ turn[t].at = "fold"
    /\ lock = Nobody
    /\ \/ summary' = [summary EXCEPT ![turn[t].thread] = turn[t].older \cup turn[t].prior]
       \/ UNCHANGED summary
    /\ Answer(t, "done", "result")
    /\ UNCHANGED <<threads, rows, lock, drafts, saver>>

(* An exception that leaves the turn: the session rolls back.  What it has  *)
(* not saved by then never is.                                             *)
Raise(t) ==
    /\ turn[t].at \in {"raised", "commit", "fold"}
    /\ Release(t)
    /\ Answer(t, "failed", "error")
    /\ UNCHANGED <<threads, rows, summary, drafts, saver>>

-----------------------------------------------------------------------------
Answered == [at |-> "done", of |-> Nobody]

(* save_message_as_draft: the SELECT, then the artifact and its audit row; *)
(* (invocation_id, kind) is unique and the second insert fails.            *)
SelectDraft(s) ==
    /\ saver[s].at = "idle"
    /\ Cardinality(Open) < MaxOpen
    /\ \E t \in Replied :
        saver' = [saver EXCEPT ![s] = IF t \in drafts THEN Answered
                                      ELSE [at |-> "insert", of |-> t]]
    /\ UNCHANGED <<threads, rows, summary, lock, turn, drafts>>

InsertDraft(s) ==
    /\ saver[s].at = "insert"
    /\ lock = Nobody
    /\ saver' = [saver EXCEPT ![s] = Answered]
    /\ drafts' = drafts \cup {saver[s].of}
    /\ UNCHANGED <<threads, rows, summary, lock, turn>>

AssistantNext ==
    \/ \E t \in Turns :
          \/ StartTurn(t) \/ CheckBudget(t) \/ LoadContext(t) \/ Search(t) \/ CallModel(t)
          \/ FailureRow(t) \/ RunTool(t) \/ CallFinal(t) \/ StageReply(t) \/ CommitTurn(t)
          \/ ReadOlder(t) \/ WriteSummary(t) \/ Raise(t)
    \/ \E s \in Savers : SelectDraft(s) \/ InsertDraft(s)

AssistantSpec == AssistantInit /\ [][AssistantNext]_turnVars

-----------------------------------------------------------------------------
(* pipeline.py: "Holding it there deadlocks every model-failure path".  A  *)
(* turn never waits, out of band, for the chain lock it holds itself.  The *)
(* exception is a turn that has run a tool: its rows are flushed, and a    *)
(* provider that fails after that is waited on for ever.                   *)
NoSelfWait ==
    \A t \in Turns :
        turn[t].at \in {"call", "search", "keyless", "blocked", "raising"} /\ lock = t
            => turn[t].tooled

(* pipeline.py: "two conversations on the same matter never bleed into     *)
(* each other".  What the model is shown in a turn, through the window or  *)
(* through the summary other turns have written, was said in its thread.   *)
NoBleed ==
    /\ \A t \in Turns : \A message \in turn[t].seen :
          turn[message[1]].thread = turn[t].thread
    /\ \A thread \in Turns : \A message \in summary[thread] :
          turn[message[1]].thread = thread

(* router.py: "the thread stays coherent and nothing is lost".  A message  *)
(* of the user is stored with its reply or not at all, and a client that   *)
(* was sent the result finds both.                                         *)
WholeTurns ==
    LET stored == {Id(rows[i]) : i \in {j \in DOMAIN rows : rows[j].saved}} IN
    \A t \in Turns :
        /\ <<t, "user">> \in stored <=> <<t, "assistant">> \in stored
        /\ turn[t].told = "result" => <<t, "user">> \in stored
=============================================================================
