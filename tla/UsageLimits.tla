----------------------------- MODULE UsageLimits -----------------------------
(***************************************************************************)
(* The hosted limits of one user and the throttle of the address it calls  *)
(* from.  A limit is a count of committed rows, read before the row it     *)
(* guards is written and committed, so requests that overlap do not see    *)
(* each other.                                                             *)
(***************************************************************************)
EXTENDS Naturals, FiniteSets, FiniteSetsExt

CONSTANTS
    Calls,   \* requests
    Limit,   \* kind -> its maximum
    Sizes,   \* sizes of uploaded documents
    MaxDays

Kinds == {"matters", "documents", "bytes", "messages", "runs", "artefacts", "jobs", "attempts"}
Daily == {"messages", "runs", "artefacts"}

ASSUME LimitsAssumption ==
    Limit \in [Kinds -> Nat] /\ Sizes \subseteq Nat /\ MaxDays \in Nat

VARIABLES
    usage,     \* kind -> what the committed rows add up to; attempts: the ones let through
    rejected,  \* attempts turned away that are still inside the window
    notices,   \* auth.rate_limited audit rows
    quota,     \* request -> its costs, the limits it has passed, where it is
    slack,     \* history: kind -> the most that was in flight when a check passed
    days

limitVars == <<usage, rejected, notices, quota, slack, days>>

NoCost == [k \in Kinds |-> 0]
NoCall == [at |-> "idle", cost |-> NoCost, passed |-> {}]
Ended == [NoCall EXCEPT !.at = "ended"]

LimitsInit ==
    /\ usage = NoCost /\ slack = NoCost
    /\ rejected = 0 /\ notices = 0 /\ days = 0
    /\ quota = [c \in Calls |-> NoCall]

(* What a request adds: a matter, a document and its bytes, a message, a   *)
(* capability run, an exported artefact, a job that is not a background    *)
(* one, an attempt on a throttled route.                                   *)
Costs == {[NoCost EXCEPT ![k] = 1] : k \in Kinds \ {"documents", "bytes"}}
         \cup {[NoCost EXCEPT !.documents = 1, !.bytes = s] : s \in Sizes}

Checked(cost) == {k \in Kinds : cost[k] > 0}

(* What requests that have passed limit k will add to it, unit by unit. *)
Passed(k) == {c \in Calls : quota[c].at = "open" /\ k \in quota[c].passed}
Units(k) == UNION {{c} \X (1 .. quota[c].cost[k]) : c \in Passed(k)}
InFlight(k) == Cardinality(Units(k))

(* The rows a check counts: an attempt counts whether it got through or not. *)
Counted(k) == IF k = "attempts" THEN usage[k] + rejected ELSE usage[k]

-----------------------------------------------------------------------------
OpenCall(c) ==
    /\ quota[c].at = "idle"
    /\ \E cost \in Costs : quota' = [quota EXCEPT ![c] = [at |-> "open", cost |-> cost, passed |-> {}]]
    /\ UNCHANGED <<usage, rejected, notices, slack, days>>

(* mutant: current > limit instead of current >= limit *)
MutOver(k, cost) == Counted(k) + cost > Limit[k] + 1

(* current >= limit, and for storage used + content_length > limit. *)
Over(k, cost) == Counted(k) + cost > Limit[k]

(* check_*, one limit after the other: one that is reached answers 429.    *)
(* enforce_ip_rate_limit goes on to record the attempt it turns away.      *)
CheckLimit(c) ==
    LET cost == quota[c].cost IN
    /\ quota[c].at = "open"
    /\ \E k \in Checked(cost) \ quota[c].passed :
        /\ k = "bytes" => "documents" \in quota[c].passed
        /\ \/ /\ Over(k, cost[k]) /\ k # "attempts"
              /\ quota' = [quota EXCEPT ![c] = Ended]
              /\ UNCHANGED slack
           \/ /\ Over(k, cost[k]) /\ k = "attempts"
              /\ quota' = [quota EXCEPT ![c].at = IF Counted(k) = Limit[k] THEN "first" ELSE "refused"]
              /\ UNCHANGED slack
           \/ /\ ~ Over(k, cost[k])
              /\ quota' = [quota EXCEPT ![c].passed = @ \cup {k}]
              /\ slack' = [slack EXCEPT ![k] = Max({@, InFlight(k)})]
    /\ UNCHANGED <<usage, rejected, notices, days>>

(* The request commits its row, or fails before it does. *)
EndCall(c) ==
    /\ quota[c].at = "open" /\ quota[c].passed = Checked(quota[c].cost)
    /\ \/ usage' = [k \in Kinds |-> usage[k] + quota[c].cost[k]]
       \/ UNCHANGED usage
    /\ quota' = [quota EXCEPT ![c] = Ended]
    /\ UNCHANGED <<rejected, notices, slack, days>>

(* The rejected attempt, and the audit row of the first: the one that read *)
(* a count equal to the limit.                                             *)
RecordRejection(c) ==
    /\ quota[c].at \in {"first", "refused"}
    /\ rejected' = rejected + 1
    /\ notices' = IF quota[c].at = "first" THEN notices + 1 ELSE notices
    /\ quota' = [quota EXCEPT ![c] = Ended]
    /\ UNCHANGED <<usage, slack, days>>

(* Archiving a matter frees its slot and, if it is the one that holds the  *)
(* documents, their bytes; a document is deleted; a job leaves the active  *)
(* states.                                                                 *)
Release ==
    /\ \/ /\ usage.matters > 0
          /\ \E holds \in BOOLEAN :
               usage' = [usage EXCEPT !.matters = @ - 1,
                                      !.documents = IF holds THEN 0 ELSE @,
                                      !.bytes = IF holds THEN 0 ELSE @]
       \/ /\ usage.documents > 0
          /\ \E s \in Sizes :
               s <= usage.bytes /\ usage' = [usage EXCEPT !.documents = @ - 1, !.bytes = @ - s]
       \/ usage.jobs > 0 /\ usage' = [usage EXCEPT !.jobs = @ - 1]
    /\ UNCHANGED <<rejected, notices, quota, slack, days>>

(* An attempt leaves the sliding window. *)
Expire ==
    /\ \/ usage.attempts > 0 /\ usage' = [usage EXCEPT !.attempts = @ - 1] /\ UNCHANGED rejected
       \/ rejected > 0 /\ rejected' = rejected - 1 /\ UNCHANGED usage
    /\ UNCHANGED <<notices, quota, slack, days>>

(* Midnight UTC: yesterday's rows no longer count. *)
NewDay ==
    /\ days < MaxDays /\ days' = days + 1
    /\ usage' = [k \in Kinds |-> IF k \in Daily THEN 0 ELSE usage[k]]
    /\ UNCHANGED <<rejected, notices, quota, slack>>

LimitsNext ==
    \/ \E c \in Calls : OpenCall(c) \/ CheckLimit(c) \/ EndCall(c) \/ RecordRejection(c)
    \/ Release \/ Expire \/ NewDay

LimitsSpec == LimitsInit /\ [][LimitsNext]_limitVars

-----------------------------------------------------------------------------
(* A limit is exceeded by no more than what was in flight when one of the  *)
(* requests passed its check, however requests, releases and midnight      *)
(* interleave; the same holds of the attempts let through in any window,   *)
(* because the ones turned away keep it full.                              *)
OvershootBounded == \A k \in Kinds : usage[k] <= Limit[k] + slack[k]
=============================================================================
