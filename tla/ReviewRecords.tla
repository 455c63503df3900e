--------------------------- MODULE ReviewRecords ---------------------------
(***************************************************************************)
(* Supervisor review and professional sign-off of one artifact: reviews    *)
(* are requested and decided, the sign page is opened, outputs are signed, *)
(* all by concurrent requests.  A request reads committed rows first and   *)
(* commits later, with nothing locked in between; rows and audit entries   *)
(* of one request are committed together, and the audit chain orders the   *)
(* entries of the matter.                                                  *)
(***************************************************************************)
EXTENDS Naturals, Sequences, FiniteSets, FiniteSetsExt

CONSTANTS
  Tasks,       \* requests; each runs once.  A row is named by its task
  Users, Author, Superusers,
  NoUser,
  AuthorMustDiffer,  \* settings.signoff_author_must_differ
  MaxClock,    \* bound of the clock
  Threshold    \* implausible_speed_threshold_seconds of the artifact

ASSUME ReviewAssumption ==
  /\ Author \in Users /\ Superusers \subseteq Users /\ NoUser \notin Users
  /\ IsFiniteSet(Tasks) /\ AuthorMustDiffer \in BOOLEAN
  /\ MaxClock \in Nat /\ Threshold \in Nat

VARIABLES
  reviews,   \* matter_reviews by the task that requested it
  trail,     \* review.* audit entries, in chain order
  opens,     \* output.review.opened entries
  signoffs,  \* matter_signoffs
  clock,
  task       \* what each request has read

reviewVars == <<reviews, trail, opens, signoffs, clock, task>>

Terminal == {"approved", "rejected", "changes_requested", "overridden"}
SignoffDecisions == {"signed", "signed_with_observations", "sign_rejected"}
NoTime == MaxClock + 1

NoReview == [state |-> "absent", requester |-> NoUser, decider |-> NoUser]
Ready == [pc |-> "ready", by |-> NoUser, review |-> NoUser, verdict |-> "",
          at |-> 0, latency |-> NoTime]

ReviewInit ==
  /\ reviews = [t \in Tasks |-> NoReview]
  /\ trail = << >>
  /\ opens = {}
  /\ signoffs = {}
  /\ clock = 0
  /\ task = [t \in Tasks |-> Ready]

Take(t, read) ==
  /\ task[t].pc = "ready"
  /\ task' = [task EXCEPT ![t] = read]
  /\ UNCHANGED <<reviews, trail, opens, signoffs, clock>>

Finish(t) == task' = [task EXCEPT ![t].pc = "done"]

Row(action, id, by) == [action |-> action, review |-> id, by |-> by]
-----------------------------------------------------------------------------
(* Supervisor review.                                                      *)

PendingReviews == {id \in Tasks : reviews[id].state = "pending"}

\* request_review: 409 while a committed review is pending.  The requester
\* owns the matter or is a superuser; the author owns it.
RequestReview(t) ==
  \E u \in Superusers \cup {Author} :
    /\ PendingReviews = {}
    /\ Take(t, [Ready EXCEPT !.pc = "insert", !.by = u])

InsertReview(t) ==
  /\ task[t].pc = "insert"
  /\ reviews' = [reviews EXCEPT ![t] =
       [state |-> "pending", requester |-> task[t].by, decider |-> NoUser]]
  /\ trail' = Append(trail, Row("requested", t, task[t].by))
  /\ Finish(t)
  /\ UNCHANGED <<opens, signoffs, clock>>

\* Reviewer and author or requester differ, unless a superuser overrides.
MayDecide(u, id) ==
  u \in {reviews[id].requester, Author} => u \in Superusers

\* decide_review up to its checks: the review is pending as it is read.
LoadReview(t) ==
  \E u \in Superusers \cup {Author}, id \in PendingReviews, v \in Terminal :
    /\ MayDecide(u, id)
    /\ Take(t, [Ready EXCEPT !.pc = "decide", !.by = u, !.review = id, !.verdict = v])

\* Mutant: the UPDATE keeps a decision that was made meanwhile, the entry is
\* written all the same.
MutDecideReview(t) ==
  LET id == task[t].review
  IN  /\ task[t].pc = "decide"
      /\ reviews' = [reviews EXCEPT ![id] =
           IF @.state = "pending"
           THEN [@ EXCEPT !.state = task[t].verdict, !.decider = task[t].by]
           ELSE @]
      /\ trail' = Append(trail, Row(task[t].verdict, id, task[t].by))
      /\ Finish(t)
      /\ UNCHANGED <<opens, signoffs, clock>>

\* UPDATE of the row and its audit entry, committed.
DecideReview(t) ==
  LET id == task[t].review
  IN  /\ task[t].pc = "decide"
      /\ reviews' = [reviews EXCEPT ![id].state = task[t].verdict,
                                    ![id].decider = task[t].by]
      /\ trail' = Append(trail, Row(task[t].verdict, id, task[t].by))
      /\ Finish(t)
      /\ UNCHANGED <<opens, signoffs, clock>>
-----------------------------------------------------------------------------
(* Sign-off.                                                               *)

OpensOf(u) == {o \in opens : o.by = u}

\* record_review_opened: nothing to do when an entry is committed.
OpenSurface(t) ==
  \E u \in {Author} :
    /\ OpensOf(u) = {}
    /\ Take(t, [Ready EXCEPT !.pc = "opening", !.by = u, !.at = clock])

CommitOpen(t) ==
  /\ task[t].pc = "opening"
  /\ opens' = opens \cup {[by |-> task[t].by, at |-> task[t].at, id |-> t]}
  /\ Finish(t)
  /\ UNCHANGED <<reviews, trail, signoffs, clock>>

\* Mutant: the latest open starts the review window.
MutOpenedAt(u) ==
  IF OpensOf(u) = {} THEN NoTime ELSE Max({o.at : o \in OpensOf(u)})

\* review_opened_at_map: MIN(timestamp).
OpenedAt(u) ==
  IF OpensOf(u) = {} THEN NoTime ELSE Min({o.at : o \in OpensOf(u)})

\* review_latency_seconds: none without an open, or before it.
Latency(opened, signed) ==
  IF opened = NoTime \/ signed < opened THEN NoTime ELSE signed - opened

MaySign(u, decision) ==
  ~ (AuthorMustDiffer /\ u = Author /\ decision # "sign_rejected")

\* create_signoff: signed_at and the latency are taken before the commit.
Sign(t) ==
  \E u \in {Author}, d \in SignoffDecisions :
    /\ MaySign(u, d)
    /\ Take(t, [Ready EXCEPT !.pc = "signing", !.by = u, !.verdict = d, !.at = clock,
                !.latency = Latency(OpenedAt(u), clock)])

CommitSignoff(t) ==
  LET k == task[t]
  IN  /\ k.pc = "signing"
      /\ signoffs' = signoffs \cup
           {[id |-> t, by |-> k.by, decision |-> k.verdict, at |-> k.at,
             implausible |-> k.latency # NoTime /\ k.latency < Threshold]}
      /\ Finish(t)
      /\ UNCHANGED <<reviews, trail, opens, clock>>

\* An exception or a lost connection: nothing of the request is committed.
DropTask(t) ==
  /\ task[t].pc \notin {"ready", "done"}
  /\ Finish(t)
  /\ UNCHANGED <<reviews, trail, opens, signoffs, clock>>

Tick == /\ clock < MaxClock
        /\ clock' = clock + 1
        /\ UNCHANGED <<reviews, trail, opens, signoffs, task>>

ReviewNext ==
  \/ \E t \in Tasks :
       \/ RequestReview(t)
       \/ InsertReview(t)
       \/ LoadReview(t)
       \/ DecideReview(t)
       \/ OpenSurface(t)
       \/ CommitOpen(t)
       \/ Sign(t)
       \/ CommitSignoff(t)
       \/ DropTask(t)
  \/ Tick

ReviewSpec == ReviewInit /\ [][ReviewNext]_reviewVars
-----------------------------------------------------------------------------
(* Properties.                                                             *)

\* "the row tells the app the current state; the audit trail is the record":
\* the last entry about a review says the state of its row and who put it
\* there, even when two reviewers decide at once.
TrailExplainsReview ==
  \A id \in Tasks :
    LET about == {i \in DOMAIN trail : trail[i].review = id}
    IN  reviews[id].state \in Terminal =>
          /\ about # {}
          /\ LET last == trail[Max(about)]
             IN  /\ last.action = reviews[id].state
                 /\ last.by = reviews[id].decider

\* "a duplicate row (e.g. a lost race on the idempotency check) can never
\* shorten the review window": once it has begun, no open moves its start to
\* a later time.
WindowNeverShrinks ==
  [][\A u \in Users : OpensOf(u) # {} => OpenedAt(u)' <= OpenedAt(u)]_reviewVars
=============================================================================
