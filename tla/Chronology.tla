----------------------------- MODULE Chronology -----------------------------
(***************************************************************************)
(* The chronology of one matter: the model proposes dated events from the  *)
(* documents, the owner accepts or rejects them, and what comes from       *)
(* disclosed documents is withheld until the owner has acknowledged the    *)
(* undertaking of CPR 31.22.  Taint is not stored: every answer derives it *)
(* from the documents the event names, as they are when it is derived.     *)
(***************************************************************************)
EXTENDS Naturals, Sequences, FiniteSets

CONSTANTS
    Readers,    \* requests of the owner
    Papers,     \* documents that may be uploaded
    Disclosed,  \* those uploaded with from_disclosure
    Facts,      \* (date, normalised description) pairs
    MaxProposals,
    NoPaper, NoReader

ASSUME ChronologyAssumption ==
    /\ Disclosed \subseteq Papers /\ NoPaper \notin Papers
    /\ NoReader \notin Readers /\ MaxProposals \in Nat

VARIABLES
    papers,     \* documents of the matter
    timeline,   \* events, in the order they were committed: [fact, source, status]
    confirmed,  \* a chronology.gate.confirmed row of the owner is committed
    chainLock,  \* the request whose transaction holds the matter's chain lock
    reader,     \* request -> where it is and what it has read
    leaked      \* history: events of disclosed documents answered in full without an
                \* acknowledgement: [event, there] where `there` says that the source
                \* was found when the answer was derived

chronologyVars == <<papers, timeline, confirmed, chainLock, reader, leaked>>

Waiting == [at |-> "idle", kind |-> "none", known |-> {}, proposals |-> {}, created |-> {},
            events |-> {}, tainted |-> {}, there |-> {}, status |-> "none", saw |-> "none"]

Statuses == {"proposed", "accepted", "rejected"}

ChronologyInit ==
    /\ papers = {} /\ timeline = <<>> /\ confirmed = FALSE
    /\ chainLock = NoReader /\ leaked = {}
    /\ reader = [r \in Readers |-> Waiting]

(* The trigger on audit_entries takes the lock of the matter's chain; a    *)
(* transaction holds it until it ends.                                     *)
MayWrite(r) == chainLock \in {NoReader, r}

UploadPaper(d) ==
    /\ d \notin papers /\ chainLock = NoReader
    /\ papers' = papers \cup {d}
    /\ UNCHANGED <<timeline, confirmed, chainLock, reader, leaked>>

(* delete_document: nothing touches the events drawn from it. *)
DeletePaper(d) ==
    /\ d \in papers /\ chainLock = NoReader
    /\ papers' = papers \ {d}
    /\ UNCHANGED <<timeline, confirmed, chainLock, reader, leaked>>

(* confirm_gate: the row is the acknowledgement. *)
ConfirmGate ==
    /\ chainLock = NoReader
    /\ confirmed' = TRUE
    /\ UNCHANGED <<papers, timeline, chainLock, reader, leaked>>

-----------------------------------------------------------------------------
(* build_chronology: the documents that have text, some of them. *)
StartBuild(r) ==
    /\ reader[r].at = "idle"
    /\ \E known \in SUBSET papers :
        reader' = [reader EXCEPT ![r].kind = "build", ![r].known = known,
                                 ![r].at = IF known = {} THEN "commit" ELSE "call"]
    /\ UNCHANGED <<papers, timeline, confirmed, chainLock, leaked>>

(* The rows of the model's answer that _coerce_events keeps: the source is *)
(* a document that was read, or none.                                      *)
Coerced(r) == [fact : Facts, source : reader[r].known \cup {NoPaper}]

(* gateway.call and parse_model_json.  A call that fails and an answer     *)
(* that does not parse propose nothing; the row of a call that returned is *)
(* in the session until the next query flushes it.                         *)
CallModelForEvents(r) ==
    /\ reader[r].at = "call"
    /\ \/ \E proposals \in SUBSET Coerced(r) :
            /\ IsFiniteSet(proposals) /\ Cardinality(proposals) <= MaxProposals
            /\ reader' = [reader EXCEPT ![r].at = "dedup", ![r].proposals = proposals,
                                     ![r].known = {}]
       \/ reader' = [reader EXCEPT ![r].at = "commit", ![r].known = {}]
    /\ UNCHANGED <<papers, timeline, confirmed, chainLock, leaked>>

KnownFacts == {timeline[i].fact : i \in DOMAIN timeline}

(* One proposal of every fact that is not yet in the matter. *)
Deduplicated(proposals, seen) ==
    {new \in SUBSET {p \in proposals : p.fact \notin seen} :
        /\ \A p, q \in new : p.fact = q.fact => p = q
        /\ {p.fact : p \in new} = {p.fact : p \in proposals} \ seen}

(* mutant: the events are read before the row of the call is flushed, and  *)
(* so without the chain lock                                               *)
MutDeduplicate(r) ==
    /\ reader[r].at = "dedup"
    /\ \E new \in Deduplicated(reader[r].proposals, KnownFacts) :
        reader' = [reader EXCEPT ![r].at = "commit", ![r].proposals = {}, ![r].created = new]
    /\ UNCHANGED <<papers, timeline, confirmed, chainLock, leaked>>

(* The query for the existing events flushes the row of the call, whose    *)
(* trigger waits for the chain lock, and then sees what the last holder    *)
(* committed.                                                              *)
Deduplicate(r) ==
    /\ reader[r].at = "dedup" /\ MayWrite(r)
    /\ chainLock' = r
    /\ \E new \in Deduplicated(reader[r].proposals, KnownFacts) :
        reader' = [reader EXCEPT ![r].at = "commit", ![r].proposals = {}, ![r].created = new]
    /\ UNCHANGED <<papers, timeline, confirmed, leaked>>

(* The events, with the chronology.build row. *)
CommitBuild(r) ==
    /\ reader[r].at = "commit" /\ MayWrite(r)
    /\ \E order \in [1..Cardinality(reader[r].created) -> reader[r].created] :
        /\ {order[i] : i \in DOMAIN order} = reader[r].created
        /\ timeline' = timeline \o [i \in DOMAIN order |->
                           [fact |-> order[i].fact, source |-> order[i].source, status |-> "proposed"]]
    /\ chainLock' = NoReader
    /\ reader' = [reader EXCEPT ![r].at = "derive", ![r].created = {},
                    ![r].events = {Len(timeline) + i : i \in 1..Cardinality(reader[r].created)}]
    /\ UNCHANGED <<papers, confirmed, leaked>>

(* The request fails, or the process dies: its transaction is undone. *)
AbandonBuild(r) ==
    /\ reader[r].at \in {"call", "dedup", "commit"}
    /\ reader' = [reader EXCEPT ![r] = Waiting]
    /\ chainLock' = IF chainLock = r THEN NoReader ELSE chainLock
    /\ UNCHANGED <<papers, timeline, confirmed, leaked>>

-----------------------------------------------------------------------------
(* get_chronology: the events ... *)
GetChronology(r) ==
    /\ reader[r].at = "idle"
    /\ reader' = [reader EXCEPT ![r].kind = "get", ![r].at = "derive", ![r].events = DOMAIN timeline]
    /\ UNCHANGED <<papers, timeline, confirmed, chainLock, leaked>>

(* accept_event and reject_event read the event ... *)
RuleOn(r) ==
    /\ reader[r].at = "idle"
    /\ \E i \in DOMAIN timeline, status \in Statuses \ {"proposed"} :
        reader' = [reader EXCEPT ![r].kind = "rule", ![r].at = "rule", ![r].events = {i},
                                 ![r].status = status, ![r].saw = timeline[i].status]
    /\ UNCHANGED <<papers, timeline, confirmed, chainLock, leaked>>

(* ... and write the status, unless it is the one read, with its row. *)
SetEventStatus(r) ==
    /\ reader[r].at = "rule" /\ MayWrite(r)
    /\ \E i \in reader[r].events :
           timeline' = IF reader[r].saw = reader[r].status THEN timeline
                       ELSE [timeline EXCEPT ![i].status = reader[r].status]
    /\ reader' = [reader EXCEPT ![r].at = "derive", ![r].status = "none", ![r].saw = "none"]
    /\ UNCHANGED <<papers, confirmed, chainLock, leaked>>

(* ... then every one of them the documents its events name: an event is   *)
(* tainted if one it names is found and is from disclosure ...             *)
Tainted(found, i) == timeline[i].source \in found \cap Disclosed

DeriveTaint(r) ==
    /\ reader[r].at = "derive"
    /\ reader' = [reader EXCEPT ![r].at = "gate",
                    ![r].tainted = {i \in reader[r].events : Tainted(papers, i)},
                    ![r].there = {i \in reader[r].events : timeline[i].source \in papers}]
    /\ UNCHANGED <<papers, timeline, confirmed, chainLock, leaked>>

(* mutant: the gate is skipped for the events a build has just proposed *)
MutRedact(r) == reader[r].kind # "build" /\ reader[r].tainted # {} /\ ~ confirmed

(* gate.required and not gate.confirmed *)
Redact(r) == reader[r].tainted # {} /\ ~ confirmed

(* ... then the gate, and the answer. *)
AnswerEvents(r) ==
    LET full == reader[r].events \ (IF Redact(r) THEN reader[r].tainted ELSE {}) IN
    /\ reader[r].at = "gate"
    /\ leaked' = IF confirmed THEN leaked
                 ELSE leaked \cup {[event |-> i, there |-> i \in reader[r].there] :
                                     i \in {j \in full : timeline[j].source \in Disclosed}}
    /\ reader' = [reader EXCEPT ![r] = Waiting]
    /\ UNCHANGED <<papers, timeline, confirmed, chainLock>>

ChronologyNext ==
    \/ \E d \in Papers : UploadPaper(d) \/ DeletePaper(d)
    \/ ConfirmGate
    \/ \E r \in Readers :
          \/ StartBuild(r) \/ CallModelForEvents(r) \/ Deduplicate(r) \/ CommitBuild(r)
          \/ AbandonBuild(r) \/ GetChronology(r) \/ RuleOn(r) \/ SetEventStatus(r)
          \/ DeriveTaint(r) \/ AnswerEvents(r)

ChronologySpec == ChronologyInit /\ [][ChronologyNext]_chronologyVars

-----------------------------------------------------------------------------
(* What comes from a disclosed document that the matter still holds is     *)
(* answered in full only once the owner's acknowledgement is committed, by *)
(* every route that answers events, although the events, their documents   *)
(* and the acknowledgement are read in separate statements.                *)
TaintWithheld == \A s \in leaked : ~ s.there

(* Builds that run at the same time propose no fact twice: the row of the  *)
(* model call makes each wait for the chain lock before it reads what the  *)
(* matter already has, and it keeps the lock until its events are there.   *)
NoDuplicateEvents ==
    \A i, j \in DOMAIN timeline : timeline[i].fact = timeline[j].fact => i = j

(* TRUST.md: "any chronology event sourced from such a document as         *)
(* 31.22-tainted ... the chronology endpoint **withholds the event         *)
(* description" until it is acknowledged.  The taint goes with the         *)
(* document.                                                               *)
DisclosedWithheld == leaked = {}
=============================================================================
